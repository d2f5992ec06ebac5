----------------------------- MODULE AnvilState -----------------------------
(***************************************************************************)
(* The account overrides: AnvilState (src/state.rs), the overlay that      *)
(* eth_* calls read through (src/state_provider.rs), dumps of it           *)
(* (src/state_dump.rs) and the RPC handlers that write it                  *)
(* (src/anvil_api.rs), running concurrently with blocks that change the    *)
(* chain's own state.                                                      *)
(*                                                                         *)
(* A step is what happens under one lock, or one read of the chain.  A     *)
(* code hash is modelled by the code itself: keccak256 is injective on     *)
(* what it is given.  An account that is not on the chain reads as         *)
(* Default, as unwrap_or_default makes it.                                 *)
(***************************************************************************)
EXTENDS Naturals

CONSTANTS
    Addrs, Slots, Codes,        \* addresses, storage slots, non-empty bytecodes
    None, Empty,                \* Option::None; the empty code and its hash
    MaxU256,                    \* U256::MAX
    Amounts,                    \* balances and amounts to add
    Nonces, Values,             \* nonces, and values of storage slots
    Clients,                    \* concurrent RPC callers
    MaxCalls, MaxBlocks         \* bounds: RPC calls, blocks

VARIABLES
    balance, nonce, code, storage,  \* AnvilState.accounts: None, or the override
    bytecodes,                      \* AnvilState.bytecodes
    chain, deployed, best,          \* external: accounts, bytecodes, block number
    pc, who, read, hash, todo,      \* handlers in progress
    dump, partial,                  \* the last dump, dumps in progress
    calls,
    readAt,                         \* history: block at a handler's first read
    overlapped,                     \* history: has a call begun during another one?
    before                          \* history: the overridden slots when a load began

overrides == <<balance, nonce, code, storage, bytecodes>>
chainVars == <<chain, deployed, best>>
rpcVars == <<pc, who, read, hash, todo, calls, readAt, overlapped>>
vars == <<overrides, chainVars, rpcVars, dump, partial, before>>

Balances == 0..MaxU256
CodeHashes == Codes \cup {Empty}
Account == [balance : Balances, nonce : Nat, code : CodeHashes,
            storage : [Slots -> Values]]
Default == [balance |-> 0, nonce |-> 0, code |-> Empty,
            storage |-> [s \in Slots |-> 0]]

\* struct SerializableAccountRecord; its storage map has the slots that are
\* not None.
Record == [balance : Balances, nonce : Nat, code : CodeHashes,
           storage : [Slots -> Values \cup {None}]]
EmptyRecord == [balance |-> 0, nonce |-> 0, code |-> Empty,
                storage |-> [s \in Slots |-> None]]

\* struct SerializableState; an account that is not in it is None, and `at` is
\* the block its chain accounts are from.
Dumps == [accounts : [Addrs -> Record \cup {None}],
          at : 0..MaxBlocks, best : 0..MaxBlocks]
NoDump == [accounts |-> [a \in Addrs |-> None], at |-> 0, best |-> 0]
Has(d) == {a \in Addrs : d.accounts[a] # None}

\* JSON of account a with no field: every field gets its default.
Sparse(a) ==
    [accounts |-> [b \in Addrs |-> IF b = a THEN EmptyRecord ELSE None],
     at |-> 0, best |-> 0]

ASSUME StateAssumption ==
    /\ MaxU256 \in Nat /\ Amounts \subseteq 0..MaxU256
    /\ Nonces \subseteq Nat /\ Values \subseteq Nat /\ 0 \in Values
    /\ None \notin Record \cup Nat \cup Codes \cup {Empty} \cup Addrs /\ Empty \notin Codes
    /\ Slots \cap {"balance", "nonce", "code"} = {}
    /\ MaxCalls \in Nat /\ MaxBlocks \in Nat

Init ==
    /\ balance = [a \in Addrs |-> None]
    /\ nonce = [a \in Addrs |-> None]
    /\ code = [a \in Addrs |-> None]
    /\ storage = [a \in Addrs |-> [s \in Slots |-> None]]
    /\ bytecodes = {}
    /\ chain = [a \in Addrs |-> Default] /\ deployed = {} /\ best = 0
    /\ pc = [c \in Clients |-> "idle"]
    /\ who = [c \in Clients |-> None]
    /\ read = [c \in Clients |-> 0]
    /\ hash = [c \in Clients |-> Empty]
    /\ todo = [c \in Clients |-> {}]
    /\ dump = NoDump
    /\ partial = [c \in Clients |-> NoDump]
    /\ calls = 0
    /\ readAt = [c \in Clients |-> 0] /\ overlapped = "no" /\ before = storage

-----------------------------------------------------------------------------
(* What eth_* calls see: AnvilStateProvider *)

Or(override, base) == IF override = None THEN base ELSE override

\* basic_account and storage
View(a) == [balance |-> Or(balance[a], chain[a].balance),
            nonce   |-> Or(nonce[a], chain[a].nonce),
            code    |-> Or(code[a], chain[a].code),
            storage |-> [s \in Slots |-> Or(storage[a][s], chain[a].storage[s])]]

\* An account by its fields: three, and its slots.
Fields == {"balance", "nonce", "code"} \cup Slots
Field(account, f) ==
    IF f = "balance" THEN account.balance
    ELSE IF f = "nonce" THEN account.nonce
    ELSE IF f = "code" THEN account.code ELSE account.storage[f]
Overrides(a) ==
    [balance |-> balance[a], nonce |-> nonce[a], code |-> code[a], storage |-> storage[a]]

\* The hashes whose code bytecode_by_hash finds; nobody asks for the empty one.
Known == {Empty} \cup bytecodes \cup deployed

\* AnvilState.accounts has an entry for a.
Overridden(a) ==
    \/ balance[a] # None \/ nonce[a] # None \/ code[a] # None
    \/ \E s \in Slots : storage[a][s] # None

-----------------------------------------------------------------------------
(* AnvilState's setters *)

Put(f, a, v) == f' = [f EXCEPT ![a] = v]

\* Mutant: the code that is replaced is dropped from the map.
PutCodeDropsOld(a, k) ==
    /\ Put(code, a, k)
    /\ bytecodes' = (bytecodes \ {code[a]}) \cup (IF k = Empty THEN {} ELSE {k})

\* set_code
PutCode(a, k) ==
    /\ Put(code, a, k)
    /\ bytecodes' = IF k = Empty THEN bytecodes ELSE bytecodes \cup {k}

\* Mutant: the sum is stored as it is.
SaturatingAddUnbounded(x, y) == x + y

SaturatingAdd(x, y) == IF x + y > MaxU256 THEN MaxU256 ELSE x + y

-----------------------------------------------------------------------------
(* RPC handlers *)

NewCall(c) ==
    /\ pc[c] = "idle"
    /\ calls < MaxCalls
    /\ calls' = calls + 1
    /\ overlapped' = IF \E d \in Clients : pc[d] # "idle" THEN "yes" ELSE overlapped

Goto(c, label) == pc' = [pc EXCEPT ![c] = label]

\* anvil_set_balance
SetBalance(c, a, v) ==
    /\ NewCall(c)
    /\ Put(balance, a, v)
    /\ UNCHANGED <<nonce, code, storage, bytecodes, chainVars, pc, who, read, hash,
                   todo, readAt, dump, partial, before>>

\* anvil_set_nonce
SetNonce(c, a, n) ==
    /\ NewCall(c)
    /\ Put(nonce, a, n)
    /\ UNCHANGED <<balance, code, storage, bytecodes, chainVars, pc, who, read, hash,
                   todo, readAt, dump, partial, before>>

\* anvil_set_code
SetCode(c, a, k) ==
    /\ NewCall(c)
    /\ PutCode(a, k)
    /\ UNCHANGED <<balance, nonce, storage, chainVars, pc, who, read, hash, todo,
                   readAt, dump, partial, before>>

\* anvil_set_storage_at, and the end of anvil_deal_erc20 and
\* anvil_set_erc20_allowance once they found their slot.
SetStorageAt(c, a, s, v) ==
    /\ NewCall(c)
    /\ storage' = [storage EXCEPT ![a][s] = v]
    /\ UNCHANGED <<balance, nonce, code, bytecodes, chainVars, pc, who, read, hash,
                   todo, readAt, dump, partial, before>>

\* anvil_add_balance: account_balance looks for an override ...
AddBalance(c, a) ==
    /\ NewCall(c)
    /\ who' = [who EXCEPT ![c] = a]
    /\ readAt' = [readAt EXCEPT ![c] = best]
    /\ IF balance[a] # None
       THEN Goto(c, "add") /\ read' = [read EXCEPT ![c] = balance[a]]
       ELSE Goto(c, "add_chain") /\ UNCHANGED read
    /\ UNCHANGED <<overrides, chainVars, hash, todo, dump, partial, before>>

\* ... and else asks the chain.
AddReadChain(c) ==
    /\ pc[c] = "add_chain"
    /\ read' = [read EXCEPT ![c] = chain[who[c]].balance]
    /\ Goto(c, "add")
    /\ UNCHANGED <<overrides, chainVars, who, hash, todo, calls, readAt, overlapped,
                   dump, partial, before>>

\* Mutant: the amount replaces the balance.
AddWriteReplaces(c, amount) ==
    /\ pc[c] = "add"
    /\ Put(balance, who[c], amount)
    /\ Goto(c, "idle")
    /\ UNCHANGED <<nonce, code, storage, bytecodes, chainVars, who, read, hash, todo,
                   calls, readAt, overlapped, dump, partial, before>>

AddWrite(c, amount) ==
    /\ pc[c] = "add"
    /\ Put(balance, who[c], SaturatingAdd(read[c], amount))
    /\ Goto(c, "idle")
    /\ UNCHANGED <<nonce, code, storage, bytecodes, chainVars, who, read, hash, todo,
                   calls, readAt, overlapped, dump, partial, before>>

\* eth_getCode and the EVM: the account's code hash first, the code later.
ReadCodeHash(c, a) ==
    /\ NewCall(c)
    /\ hash' = [hash EXCEPT ![c] = View(a).code]
    /\ Goto(c, "read_code")
    /\ UNCHANGED <<overrides, chainVars, who, read, todo, readAt, dump, partial,
                   before>>

ReadCode(c) ==
    /\ pc[c] = "read_code"
    /\ Goto(c, "idle")
    /\ UNCHANGED <<overrides, chainVars, who, read, hash, todo, calls, readAt,
                   overlapped, dump, partial, before>>

\* A chain account as a record: the chain holds no zero slots.
Dumped(account) ==
    [balance |-> account.balance, nonce |-> account.nonce, code |-> account.code,
     storage |-> [s \in Slots |->
                    IF account.storage[s] = 0 THEN None ELSE account.storage[s]]]

\* from_dump
FromDump == [a \in Addrs |-> IF chain[a] = Default THEN None ELSE Dumped(chain[a])]

\* anvil_dump_state: the chain's accounts, as far as it has them ...
DumpCollect(c) ==
    /\ NewCall(c)
    /\ partial' = [partial EXCEPT ![c] =
                      [accounts |-> FromDump, at |-> best, best |-> 0]]
    /\ Goto(c, "dump_best")
    /\ UNCHANGED <<overrides, chainVars, who, read, hash, todo, readAt, dump, before>>

\* ... then the best block number ...
DumpBest(c) ==
    /\ pc[c] = "dump_best"
    /\ partial' = [partial EXCEPT ![c] =
         [accounts |-> partial[c].accounts, at |-> partial[c].at, best |-> best]]
    /\ Goto(c, "dump_merge")
    /\ UNCHANGED <<overrides, chainVars, who, read, hash, todo, calls, readAt,
                   overlapped, dump, before>>

\* Mutant: an override with the empty code is taken for none.
MergedIgnoresEmpty(a, r) ==
    [balance |-> Or(balance[a], r.balance),
     nonce   |-> Or(nonce[a], r.nonce),
     code    |-> IF code[a] \in bytecodes THEN code[a] ELSE r.code,
     storage |-> [s \in Slots |-> Or(storage[a][s], r.storage[s])]]

\* The record of a after merge_anvil_state; code whose bytecode is missing
\* becomes empty.
Merged(a, r) ==
    [balance |-> Or(balance[a], r.balance),
     nonce   |-> Or(nonce[a], r.nonce),
     code    |-> IF code[a] = None THEN r.code
                 ELSE IF code[a] \in bytecodes THEN code[a] ELSE Empty,
     storage |-> [s \in Slots |-> Or(storage[a][s], r.storage[s])]]

\* ... then merge_anvil_state.
DumpMerge(c) ==
    /\ pc[c] = "dump_merge"
    /\ dump' = [accounts |-> [a \in Addrs |->
                    IF Overridden(a)
                    THEN Merged(a, Or(partial[c].accounts[a], EmptyRecord))
                    ELSE partial[c].accounts[a]],
                at |-> partial[c].at, best |-> partial[c].best]
    /\ partial' = [partial EXCEPT ![c] = NoDump]
    /\ Goto(c, "idle")
    /\ UNCHANGED <<overrides, chainVars, who, read, hash, todo, calls, readAt,
                   overlapped, before>>

\* What decode makes of its bytes: the last dump, gzipped or not, or JSON with
\* fields missing.
Decodable == {dump} \cup {Sparse(a) : a \in Addrs}

\* anvil_load_state of something with accounts in it.
Load(c, state) ==
    /\ NewCall(c)
    /\ Has(state) # {}
    /\ todo' = [todo EXCEPT ![c] = Has(state)]
    /\ partial' = [partial EXCEPT ![c] = state]
    /\ before' = storage
    /\ Goto(c, "load")
    /\ UNCHANGED <<overrides, chainVars, who, read, hash, readAt, dump>>

\* Bytes that decode refuses (truncated, neither gzip nor JSON) or that hold no
\* account, a dump with preserve_historical_states, a nonce above u64::MAX.
Refused(c) ==
    /\ NewCall(c)
    /\ UNCHANGED <<overrides, chainVars, pc, who, read, hash, todo, readAt, dump,
                   partial, before>>

\* The next account: account_nonce reads the chain's nonce ...
LoadReadChain(c, a) ==
    /\ pc[c] = "load"
    /\ a \in todo[c]
    /\ who' = [who EXCEPT ![c] = a]
    /\ read' = [read EXCEPT ![c] = chain[a].nonce]
    /\ readAt' = [readAt EXCEPT ![c] = best]
    /\ Goto(c, "load_nonce")
    /\ UNCHANGED <<overrides, chainVars, hash, todo, calls, overlapped, dump, partial,
                   before>>

\* Mutant: the dumped nonce wins.
LoadReadNonceDumped(c) ==
    /\ pc[c] = "load_nonce"
    /\ read' = [read EXCEPT ![c] = partial[c].accounts[who[c]].nonce]
    /\ Goto(c, "load_write")
    /\ UNCHANGED <<overrides, chainVars, who, hash, todo, calls, readAt, overlapped,
                   dump, partial, before>>

\* ... which an override replaces; the larger of it and the dumped one wins.
LoadReadNonce(c) ==
    /\ pc[c] = "load_nonce"
    /\ LET current == Or(nonce[who[c]], read[c])
           dumped == partial[c].accounts[who[c]].nonce
       IN  read' = [read EXCEPT ![c] = IF current >= dumped THEN current ELSE dumped]
    /\ Goto(c, "load_write")
    /\ UNCHANGED <<overrides, chainVars, who, hash, todo, calls, readAt, overlapped,
                   dump, partial, before>>

\* Mutant: an empty code in the dump does not clear the account's code.
LoadWriteKeepsCode(c) ==
    /\ pc[c] = "load_write"
    /\ LET a == who[c]
           r == partial[c].accounts[a]
       IN  /\ Put(balance, a, r.balance)
           /\ Put(nonce, a, read[c])
           /\ PutCode(a, IF r.code = Empty THEN View(a).code ELSE r.code)
           /\ Put(storage, a, [s \in Slots |->
                     Or(r.storage[s], storage[a][s])])
           /\ todo' = [todo EXCEPT ![c] = @ \ {a}]
           /\ Goto(c, IF todo[c] = {a} THEN "idle" ELSE "load")
    /\ UNCHANGED <<chainVars, who, read, hash, calls, readAt, overlapped, dump,
                   partial, before>>

\* Mutant: the dumped storage replaces the overrides of the account's slots.
LoadWriteResets(c) ==
    /\ pc[c] = "load_write"
    /\ LET a == who[c]
           r == partial[c].accounts[a]
       IN  /\ Put(balance, a, r.balance)
           /\ Put(nonce, a, read[c])
           /\ PutCode(a, r.code)
           /\ Put(storage, a, r.storage)
           /\ todo' = [todo EXCEPT ![c] = @ \ {a}]
           /\ Goto(c, IF todo[c] = {a} THEN "idle" ELSE "load")
    /\ UNCHANGED <<chainVars, who, read, hash, calls, readAt, overlapped, dump,
                   partial, before>>

\* Under one lock: balance, nonce, code and the dumped slots.
LoadWrite(c) ==
    /\ pc[c] = "load_write"
    /\ LET a == who[c]
           r == partial[c].accounts[a]
       IN  /\ Put(balance, a, r.balance)
           /\ Put(nonce, a, read[c])
           /\ PutCode(a, r.code)
           /\ Put(storage, a, [s \in Slots |->
                     Or(r.storage[s], storage[a][s])])
           /\ todo' = [todo EXCEPT ![c] = @ \ {a}]
           /\ Goto(c, IF todo[c] = {a} THEN "idle" ELSE "load")
    /\ UNCHANGED <<chainVars, who, read, hash, calls, readAt, overlapped, dump,
                   partial, before>>

\* The provider fails to read the chain, and the call ends: load_state may
\* have written some of its accounts, the other calls nothing.
ReadFails(c) ==
    /\ pc[c] \in {"add_chain", "dump_best", "load"}
    /\ todo' = [todo EXCEPT ![c] = {}]
    /\ Goto(c, "idle")
    /\ UNCHANGED <<overrides, chainVars, who, read, hash, calls, readAt, overlapped,
                   dump, partial, before>>

-----------------------------------------------------------------------------
(* External: blocks *)

\* A block changes an account of the chain.
Block(a, account) ==
    /\ best < MaxBlocks
    /\ best' = best + 1
    /\ chain' = [chain EXCEPT ![a] = account]
    /\ deployed' = deployed \cup ({account.code} \ {Empty})
    /\ UNCHANGED <<overrides, rpcVars, dump, partial, before>>

\* It received or spent money, was created, or wrote a slot.
Transfer(a) ==
    \E v \in Amounts : Block(a, [chain[a] EXCEPT !.balance = v, !.nonce = @ + 1])
Deploy(a) == \E k \in Codes : Block(a, [chain[a] EXCEPT !.code = k])
Store(a) ==
    \E s \in Slots, x \in Values :
        Block(a, [chain[a] EXCEPT !.storage = [@ EXCEPT ![s] = x]])

-----------------------------------------------------------------------------
Setters(c, a) ==
    \/ \E v \in Amounts : SetBalance(c, a, v)
    \/ \E n \in Nonces : SetNonce(c, a, n)
    \/ \E k \in CodeHashes : SetCode(c, a, k)
    \/ \E s \in Slots, v \in Values : SetStorageAt(c, a, s, v)

Handlers(c) ==
    \/ \E a \in Addrs : Setters(c, a) \/ AddBalance(c, a) \/ ReadCodeHash(c, a)
    \/ AddReadChain(c)
    \/ \E amount \in Amounts : AddWrite(c, amount)
    \/ ReadCode(c)
    \/ DumpCollect(c) \/ DumpBest(c) \/ DumpMerge(c)
    \/ \E state \in Decodable : Load(c, state)
    \/ Refused(c) \/ ReadFails(c)
    \/ \E a \in Addrs : LoadReadChain(c, a)
    \/ LoadReadNonce(c) \/ LoadWrite(c)

Chain == \E a \in Addrs : Transfer(a) \/ Deploy(a) \/ Store(a)

Next == Chain \/ \E c \in Clients : Handlers(c)

Spec == Init /\ [][Next]_vars

-----------------------------------------------------------------------------
TypeOK ==
    /\ balance \in [Addrs -> Balances \cup {None}]
    /\ nonce \in [Addrs -> Nat \cup {None}]
    /\ code \in [Addrs -> CodeHashes \cup {None}]
    /\ storage \in [Addrs -> [Slots -> Values \cup {None}]]
    /\ bytecodes \subseteq Codes /\ deployed \subseteq Codes
    /\ chain \in [Addrs -> Account] /\ best \in 0..MaxBlocks
    /\ pc \in [Clients -> {"idle", "add_chain", "add", "read_code", "dump_best",
                           "dump_merge", "load", "load_nonce", "load_write"}]
    /\ who \in [Clients -> Addrs \cup {None}] /\ read \in [Clients -> Nat]
    /\ hash \in [Clients -> CodeHashes] /\ todo \in [Clients -> SUBSET Addrs]
    /\ calls \in 0..MaxCalls /\ readAt \in [Clients -> 0..MaxBlocks]
    /\ overlapped \in {"no", "yes"}
    /\ dump \in Dumps /\ partial \in [Clients -> Dumps]
    /\ before \in [Addrs -> [Slots -> Values \cup {None}]]

(* A code hash read from an account can be resolved when the code is asked *)
(* for later, whatever set_code and load_state did to this or any other    *)
(* account in between: AnvilState keeps one map of bytecodes for all       *)
(* accounts.                                                               *)
CodeReadResolves ==
    \A c \in Clients : pc[c] = "read_code" => hash[c] \in Known

(* A record says what eth_* calls see of an account.                       *)
Shows(r, view) ==
    /\ r.balance = view.balance /\ r.nonce = view.nonce /\ r.code = view.code
    /\ \A s \in Slots : Or(r.storage[s], 0) = view.storage[s]

(* A dump shows what eth_* calls see at the moment it is merged, however   *)
(* other callers write in the meantime, unless a block came between        *)
(* reading the chain and merging the overrides.                            *)
DumpShowsView ==
    [][\A c \in Clients : DumpMerge(c) /\ partial[c].at = best =>
          \A a \in Addrs :
             Shows(Or(dump'.accounts[a], EmptyRecord), View(a))]_vars

(* "anvil_dump_and_load_state_round_trip" (src/main.rs:987): when          *)
(* anvil_load_state returns, balance, code and the slots that the dump has *)
(* read as they were dumped, for every account in it, with a nonce no      *)
(* smaller, even if blocks were mined while it ran.  A slot that the dump  *)
(* does not have (zero on the chain and not overridden, or left out of the *)
(* JSON) is not reset: it keeps the override it had before the load, or    *)
(* shows the chain.  So what was written to such a slot after the dump is  *)
(* still there after the load.  (Until two calls overlap.)                 *)
LoadRestores ==
    [][\A c \in Clients : overlapped = "no" /\ LoadWrite(c) /\ todo'[c] = {} =>
          \A a \in Has(partial[c]) :
             LET r == partial[c].accounts[a]
                 v == View(a)'
             IN  /\ v.balance = r.balance /\ v.code = r.code /\ v.nonce >= r.nonce
                 /\ \A s \in Slots :
                       v.storage[s] = Or(r.storage[s], Or(before[a][s], chain[a].storage[s]))
      ]_vars

(* "eth_getBalance should reflect the accumulated balance"                 *)
(* (src/main.rs:763): anvil_add_balance adds to the balance the account    *)
(* has, unless a block was mined while it ran.  (Until two calls overlap:  *)
(* the read and the write are not one step.)                               *)
AddAccumulates ==
    [][\A c \in Clients : \A amount \in Amounts :
          overlapped = "no" /\ AddWrite(c, amount) /\ readAt[c] = best =>
             View(who[c])'.balance = SaturatingAdd(View(who[c]).balance, amount)]_vars

(* anvil_load_state never takes an account's nonce back, unless a block    *)
(* was mined while it ran.  (Until two calls overlap.)                     *)
LoadKeepsNonce ==
    [][\A c \in Clients : overlapped = "no" /\ LoadWrite(c) /\ readAt[c] = best =>
          View(who[c])'.nonce >= View(who[c]).nonce]_vars

(* The fields of an account that a call has set stay as they were set,     *)
(* whatever blocks do to the account, until a call sets them again; every  *)
(* step of a call sets one field, or balance, nonce and code together with *)
(* the slots of a dump.  No override is ever taken back.                   *)
Abstract ==
    INSTANCE AccountView WITH
        view <- [a \in Addrs |-> [f \in Fields |-> Field(View(a), f)]],
        pinned <- [a \in Addrs |-> {f \in Fields : Field(Overrides(a), f) # None}],
        Groups <- {{f} : f \in Fields}
                    \cup {{"balance", "nonce", "code"} \cup S : S \in SUBSET Slots}
ViewRefined == Abstract!Spec
=============================================================================
