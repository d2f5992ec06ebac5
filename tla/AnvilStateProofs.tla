-------------------------- MODULE AnvilStateProofs --------------------------
(***************************************************************************)
(* Proofs about AnvilState, for any addresses, bytecodes and callers.      *)
(***************************************************************************)
EXTENDS AnvilState, TLAPS

(* add_balance has an address, and load_state works on accounts its dump   *)
(* has.                                                                    *)
ControlInv ==
    \A c \in Clients :
        /\ pc[c] \in {"add", "add_chain"} => who[c] \in Addrs
        /\ todo[c] \subseteq Has(partial[c])
        /\ pc[c] \notin {"load", "load_nonce", "load_write"} => todo[c] = {}
        /\ pc[c] \in {"load_nonce", "load_write"} => who[c] \in todo[c]

(* Every hash in use can be resolved, not only the ones being read: hashes *)
(* are never dropped from either map.                                      *)
CodeInv ==
    /\ \A a \in Addrs : code[a] # None => code[a] \in Known
    /\ \A a \in Addrs : chain[a].code \in Known
    /\ CodeReadResolves

-----------------------------------------------------------------------------
(* Merging the overrides of an account into a record gives a record.       *)
LEMMA MergedFacts ==
    ASSUME TypeOK, NEW a \in Addrs, NEW r \in Record
    PROVE  Merged(a, r) \in Record
  BY DEF Merged, Record, TypeOK, Or, CodeHashes

(* A chain account becomes a record.                                       *)
LEMMA DumpedFacts ==
    ASSUME NEW x \in Account
    PROVE  Dumped(x) \in Record
  BY DEF Dumped, Account, Record

(* JSON without fields decodes to a dump.                                  *)
LEMMA SparseFacts == \A a \in Addrs : Sparse(a) \in Dumps
<1>1. EmptyRecord \in Record
  BY StateAssumption DEF EmptyRecord, Record, Balances, CodeHashes
<1> QED
  BY <1>1, StateAssumption DEF Sparse, Dumps

(* Saturated balances stay balances.                                       *)
LEMMA SaturatingAddFacts ==
    ASSUME NEW x \in Nat, NEW y \in Amounts
    PROVE  SaturatingAdd(x, y) \in Balances
  BY StateAssumption DEF SaturatingAdd, Balances

(* A block leaves accounts.                                                *)
LEMMA BlockFacts ==
    ASSUME TypeOK, NEW a \in Addrs, Transfer(a) \/ Deploy(a) \/ Store(a)
    PROVE  \E account \in Account : Block(a, account)
<1>1. chain[a] \in Account
  BY DEF TypeOK
<1>2. ASSUME NEW v \in Amounts
      PROVE [chain[a] EXCEPT !.balance = v, !.nonce = @ + 1] \in Account
  <2>1. v \in Balances /\ chain[a].nonce + 1 \in Nat
    BY <1>1, StateAssumption DEF Account, Balances
  <2>2. [chain[a] EXCEPT !.balance = v] \in Account
    BY <1>1, <2>1 DEF Account
  <2>3. [chain[a] EXCEPT !.balance = v, !.nonce = @ + 1] =
           [[chain[a] EXCEPT !.balance = v] EXCEPT !.nonce = chain[a].nonce + 1]
    BY <1>1 DEF Account
  <2> QED
    BY <2>1, <2>2, <2>3 DEF Account
<1>3. ASSUME NEW k \in Codes PROVE [chain[a] EXCEPT !.code = k] \in Account
  BY <1>1 DEF Account, CodeHashes
<1>4. ASSUME NEW s \in Slots, NEW x \in Values
      PROVE [chain[a] EXCEPT !.storage = [@ EXCEPT ![s] = x]] \in Account
  BY <1>1 DEF Account
<1> QED
  BY <1>2, <1>3, <1>4 DEF Transfer, Deploy, Store

-----------------------------------------------------------------------------
(* Next preserves types and control.                                       *)
LEMMA TypeStep ==
    TypeOK /\ ControlInv /\ [Next]_vars => TypeOK' /\ ControlInv'
<1> SUFFICES ASSUME TypeOK, ControlInv, [Next]_vars PROVE TypeOK' /\ ControlInv'
  OBVIOUS
<1> USE StateAssumption DEF overrides, chainVars, rpcVars
<1>1. ASSUME NEW a \in Addrs, NEW account \in Account, Block(a, account)
      PROVE TypeOK' /\ ControlInv'
  BY <1>1 DEF Block, TypeOK, ControlInv, Account, CodeHashes, Has
<1>2. ASSUME NEW c \in Clients, NEW a \in Addrs, Setters(c, a)
      PROVE TypeOK' /\ ControlInv'
  <2>1. ControlInv'
    BY <1>2 DEF Setters, SetBalance, SetNonce, SetCode, SetStorageAt, ControlInv, Has
  <2>2. ASSUME NEW v \in Amounts, SetBalance(c, a, v) PROVE TypeOK'
    BY <2>2 DEF SetBalance, NewCall, Put, TypeOK, Balances
  <2>3. ASSUME NEW n \in Nonces, SetNonce(c, a, n) PROVE TypeOK'
    BY <2>3 DEF SetNonce, NewCall, Put, TypeOK
  <2>4. ASSUME NEW k \in CodeHashes, SetCode(c, a, k) PROVE TypeOK'
    BY <2>4 DEF SetCode, NewCall, PutCode, Put, TypeOK, CodeHashes
  <2>5. ASSUME NEW s \in Slots, NEW v \in Values, SetStorageAt(c, a, s, v)
        PROVE TypeOK'
    BY <2>5 DEF SetStorageAt, NewCall, TypeOK
  <2> QED
    BY <1>2, <2>1, <2>2, <2>3, <2>4, <2>5 DEF Setters
<1>3. ASSUME NEW c \in Clients, NEW a \in Addrs, AddBalance(c, a)
      PROVE TypeOK' /\ ControlInv'
  <2>1. balance[a] # None => balance[a] \in Nat
    BY DEF TypeOK, Balances
  <2>2. ControlInv'
    BY <1>3 DEF AddBalance, NewCall, Goto, TypeOK, ControlInv, Has
  <2>3. read' \in [Clients -> Nat] /\ pc' \in [Clients -> {"idle", "add_chain", "add",
           "read_code", "dump_best", "dump_merge", "load", "load_nonce", "load_write"}]
    BY <1>3, <2>1 DEF AddBalance, Goto, TypeOK
  <2>4. /\ calls' \in 0..MaxCalls /\ readAt' \in [Clients -> 0..MaxBlocks]
        /\ who' \in [Clients -> Addrs \cup {None}] /\ overlapped' \in {"no", "yes"}
    BY <1>3 DEF AddBalance, NewCall, TypeOK
  <2>5. UNCHANGED <<overrides, chainVars, hash, todo, dump, partial, before>>
    BY <1>3 DEF AddBalance
  <2>6. TypeOK'
    BY <2>3, <2>4, <2>5 DEF TypeOK
  <2> QED
    BY <2>2, <2>6
<1>4. ASSUME NEW c \in Clients, AddReadChain(c) PROVE TypeOK' /\ ControlInv'
  <2>1. chain[who[c]].balance \in Nat
    BY <1>4 DEF AddReadChain, TypeOK, ControlInv, Account, Balances
  <2> QED
    BY <1>4, <2>1 DEF AddReadChain, Goto, TypeOK, ControlInv, Has
<1>5. ASSUME NEW c \in Clients, NEW m \in Amounts, AddWrite(c, m)
      PROVE TypeOK' /\ ControlInv'
  <2>1. SaturatingAdd(read[c], m) \in Balances
    BY SaturatingAddFacts DEF TypeOK
  <2> QED
    BY <1>5, <2>1 DEF AddWrite, Put, Goto, TypeOK, ControlInv, Has
<1>6. ASSUME NEW c \in Clients, NEW a \in Addrs, ReadCodeHash(c, a)
      PROVE TypeOK' /\ ControlInv'
  <2>1. View(a).code \in CodeHashes
    BY DEF View, Or, TypeOK, Account
  <2> QED
    BY <1>6, <2>1 DEF ReadCodeHash, NewCall, Goto, TypeOK, ControlInv, Has
<1>7. ASSUME NEW c \in Clients, ReadCode(c) PROVE TypeOK' /\ ControlInv'
  BY <1>7 DEF ReadCode, Goto, TypeOK, ControlInv, Has
<1>8. ASSUME NEW c \in Clients, DumpCollect(c) PROVE TypeOK' /\ ControlInv'
  <2> DEFINE p == [accounts |-> FromDump, at |-> best, best |-> 0]
  <2>1. FromDump \in [Addrs -> Record \cup {None}]
    BY DumpedFacts DEF TypeOK, FromDump
  <2>2. p \in Dumps
    BY <2>1 DEF Dumps, TypeOK
  <2>3. /\ partial' = [partial EXCEPT ![c] = p]
        /\ pc[c] = "idle"
    BY <1>8 DEF DumpCollect, NewCall
  <2> HIDE DEF p
  <2>4. TypeOK'
    <3>1. partial' \in [Clients -> Dumps]
      BY <2>2, <2>3 DEF TypeOK
    <3> QED
      BY <1>8, <3>1 DEF DumpCollect, NewCall, Goto, TypeOK
  <2>5. ControlInv'
    BY <1>8, <2>3 DEF DumpCollect, Goto, TypeOK, ControlInv
  <2> QED
    BY <2>4, <2>5
<1>9. ASSUME NEW c \in Clients, DumpBest(c) PROVE TypeOK' /\ ControlInv'
  <2> DEFINE p == [accounts |-> partial[c].accounts, at |-> partial[c].at, best |-> best]
  <2>1. p \in Dumps
    BY DEF Dumps, TypeOK
  <2>2. /\ partial' = [partial EXCEPT ![c] = p]
        /\ pc[c] = "dump_best"
    BY <1>9 DEF DumpBest
  <2> HIDE DEF p
  <2>3. TypeOK'
    BY <1>9, <2>1, <2>2 DEF DumpBest, Goto, TypeOK
  <2>4. ControlInv'
    BY <1>9, <2>2 DEF DumpBest, Goto, TypeOK, ControlInv
  <2> QED
    BY <2>3, <2>4
<1>10. ASSUME NEW c \in Clients, DumpMerge(c) PROVE TypeOK' /\ ControlInv'
  <2> DEFINE f == [a \in Addrs |->
                    IF Overridden(a)
                    THEN Merged(a, Or(partial[c].accounts[a], EmptyRecord))
                    ELSE partial[c].accounts[a]]
             d == [accounts |-> f, at |-> partial[c].at, best |-> partial[c].best]
  <2>1. EmptyRecord \in Record
    BY DEF EmptyRecord, Record, Balances, CodeHashes
  <2>2. \A a \in Addrs : partial[c].accounts[a] \in Record \cup {None}
    BY DEF TypeOK, Dumps
  <2>3. \A a \in Addrs : Or(partial[c].accounts[a], EmptyRecord) \in Record
    BY <2>1, <2>2 DEF Or
  <2>4. \A a \in Addrs : Merged(a, Or(partial[c].accounts[a], EmptyRecord)) \in Record
    BY <2>3, MergedFacts
  <2>5. f \in [Addrs -> Record \cup {None}]
    BY <2>2, <2>4
  <2> HIDE DEF f
  <2>6. d \in Dumps
    BY <2>5 DEF Dumps, TypeOK
  <2>7. dump' = d /\ pc[c] = "dump_merge"
    BY <1>10 DEF DumpMerge, f
  <2> HIDE DEF d
  <2>8. NoDump \in Dumps
    BY DEF NoDump, Dumps
  <2>9. TypeOK'
    BY <1>10, <2>6, <2>7, <2>8 DEF DumpMerge, Goto, TypeOK
  <2>10. ControlInv'
    BY <1>10, <2>7 DEF DumpMerge, Goto, TypeOK, ControlInv
  <2> QED
    BY <2>9, <2>10
<1>11. ASSUME NEW c \in Clients, NEW state \in Decodable, Load(c, state)
       PROVE TypeOK' /\ ControlInv'
  <2>1. Has(state) \subseteq Addrs
    BY DEF Has
  <2>2. state \in Dumps
    BY SparseFacts DEF Decodable, TypeOK
  <2>3. TypeOK'
    BY <1>11, <2>1, <2>2 DEF Load, NewCall, Goto, TypeOK
  <2>4. ControlInv'
    BY <1>11 DEF Load, NewCall, Goto, TypeOK, ControlInv, Has
  <2> QED
    BY <2>3, <2>4
<1>12. ASSUME NEW c \in Clients, NEW a \in Addrs, LoadReadChain(c, a)
       PROVE TypeOK' /\ ControlInv'
  <2>1. chain[a].nonce \in Nat
    BY DEF TypeOK, Account
  <2> QED
    BY <1>12, <2>1 DEF LoadReadChain, Goto, TypeOK, ControlInv, Has
<1>13. ASSUME NEW c \in Clients, LoadReadNonce(c) PROVE TypeOK' /\ ControlInv'
  <2> DEFINE n == IF Or(nonce[who[c]], read[c]) >= partial[c].accounts[who[c]].nonce
                  THEN Or(nonce[who[c]], read[c])
                  ELSE partial[c].accounts[who[c]].nonce
  <2>1. partial[c].accounts[who[c]] \in Record /\ who[c] \in Addrs
    BY <1>13 DEF LoadReadNonce, ControlInv, Has, TypeOK, Dumps
  <2>2. n \in Nat
    BY <2>1 DEF Or, TypeOK, Record
  <2>3. read' = [read EXCEPT ![c] = n]
    BY <1>13 DEF LoadReadNonce
  <2> HIDE DEF n
  <2> QED
    BY <1>13, <2>2, <2>3 DEF LoadReadNonce, Goto, TypeOK, ControlInv, Has
<1>14. ASSUME NEW c \in Clients, LoadWrite(c) PROVE TypeOK' /\ ControlInv'
  <2>1. PICK a : a = who[c]
    OBVIOUS
  <2>2. PICK r : r = partial[c].accounts[a]
    OBVIOUS
  <2>3. r \in Record /\ a \in Addrs
    BY <1>14, <2>1, <2>2 DEF LoadWrite, ControlInv, Has, TypeOK, Dumps
  <2>4. [s \in Slots |-> Or(r.storage[s], storage[a][s])] \in
           [Slots -> Values \cup {None}]
    BY <2>3 DEF Or, Record, TypeOK
  <2>5. /\ Put(balance, a, r.balance) /\ Put(nonce, a, read[c]) /\ PutCode(a, r.code)
        /\ Put(storage, a, [s \in Slots |-> Or(r.storage[s], storage[a][s])])
        /\ todo' = [todo EXCEPT ![c] = todo[c] \ {a}]
        /\ Goto(c, IF todo[c] = {a} THEN "idle" ELSE "load")
        /\ pc[c] = "load_write"
        /\ UNCHANGED <<chain, deployed, best, who, read, hash, calls, readAt, overlapped,
                       dump, partial, before>>
    BY <1>14, <2>1, <2>2 DEF LoadWrite, Put, PutCode, Goto
  <2>6. TypeOK'
    BY <2>3, <2>4, <2>5 DEF Put, PutCode, Goto, TypeOK, Record, CodeHashes
  <2>7. ControlInv'
    BY <2>5 DEF Goto, TypeOK, ControlInv
  <2> QED
    BY <2>6, <2>7
<1>15. ASSUME NEW c \in Clients, Refused(c) PROVE TypeOK' /\ ControlInv'
  BY <1>15 DEF Refused, NewCall, TypeOK, ControlInv, Has
<1>16. ASSUME NEW c \in Clients, ReadFails(c) PROVE TypeOK' /\ ControlInv'
  <2>1. TypeOK' BY <1>16 DEF ReadFails, Goto, TypeOK
  <2>2. ControlInv' BY <1>16 DEF ReadFails, Goto, TypeOK, ControlInv, Has
  <2> QED
    BY <2>1, <2>2
<1>17. CASE UNCHANGED vars
  BY <1>17 DEF vars, TypeOK, ControlInv, Has
<1> QED
  BY <1>1, <1>2, <1>3, <1>4, <1>5, <1>6, <1>7, <1>8, <1>9, <1>10, <1>11, <1>12,
     <1>13, <1>14, <1>15, <1>16, <1>17, BlockFacts DEF Next, Chain, Handlers

(* Type correctness, with the control part that load_state needs.          *)
THEOREM TypeCorrect == Spec => [](TypeOK /\ ControlInv)
<1>1. Init => TypeOK
  BY StateAssumption DEF Init, TypeOK, Default, Account, Balances, CodeHashes,
                         NoDump, Dumps
<1>2. Init => ControlInv
  BY DEF Init, ControlInv
<1> QED
  BY <1>1, <1>2, TypeStep, PTL DEF Spec

-----------------------------------------------------------------------------
(* set_code makes its hash resolvable and keeps the others so.             *)
LEMMA PutCodeFacts ==
    ASSUME NEW a, NEW k \in CodeHashes, PutCode(a, k), UNCHANGED <<chain, deployed>>,
           TypeOK, CodeInv
    PROVE  /\ Known \subseteq Known'
           /\ (\A b \in Addrs : code[b] # None => code[b] \in Known)'
<1>1. Known \subseteq Known' /\ k \in Known'
  BY DEF PutCode, Known, CodeHashes
<1>2. \A b \in Addrs : code'[b] = k \/ code'[b] = code[b]
  BY DEF PutCode, Put, TypeOK
<1> QED
  BY <1>1, <1>2 DEF CodeInv

(* Next preserves CodeInv.                                                 *)
LEMMA CodeStep ==
    TypeOK /\ ControlInv /\ CodeInv /\ [Next]_vars => CodeInv'
<1> SUFFICES ASSUME TypeOK, ControlInv, CodeInv, [Next]_vars PROVE CodeInv'
  OBVIOUS
<1> USE DEF overrides, chainVars, rpcVars
\* Steps that write no code, and read no hash.
<1>1. ASSUME UNCHANGED <<code, bytecodes, chain, deployed, hash>>,
             \A c \in Clients : pc'[c] = "read_code" => pc[c] = "read_code"
      PROVE CodeInv'
  BY <1>1 DEF CodeInv, CodeReadResolves, Known
<1>2. ASSUME NEW a \in Addrs, NEW account \in Account, Block(a, account)
      PROVE CodeInv'
  <2>1. Known \subseteq Known' /\ account.code \in Known'
    BY <1>2 DEF Block, Known, Account
  <2>2. \A b \in Addrs : chain'[b].code \in {account.code, chain[b].code}
    BY <1>2 DEF Block, TypeOK
  <2> QED
    BY <1>2, <2>1, <2>2 DEF Block, CodeInv, CodeReadResolves
<1>3. ASSUME NEW c \in Clients, NEW a \in Addrs, NEW k \in CodeHashes, SetCode(c, a, k)
      PROVE CodeInv'
  <2>1. PutCode(a, k) /\ UNCHANGED <<chain, deployed, hash, pc>>
    BY <1>3 DEF SetCode
  <2> QED
    BY <2>1, PutCodeFacts DEF CodeInv, CodeReadResolves
<1>4. ASSUME NEW c \in Clients, NEW a \in Addrs, Setters(c, a) PROVE CodeInv'
  BY <1>1, <1>3, <1>4 DEF Setters, SetBalance, SetNonce, SetStorageAt
<1>5. ASSUME NEW c \in Clients, NEW a \in Addrs, ReadCodeHash(c, a) PROVE CodeInv'
  <2>1. View(a).code \in Known
    BY DEF View, Or, CodeInv
  <2> QED
    BY <1>5, <2>1 DEF ReadCodeHash, Goto, TypeOK, CodeInv, CodeReadResolves, Known
<1>6. ASSUME NEW c \in Clients, LoadWrite(c) PROVE CodeInv'
  <2>1. PICK a : a = who[c]
    OBVIOUS
  <2>2. PICK k : k = partial[c].accounts[a].code
    OBVIOUS
  <2>3. k \in CodeHashes
    BY <1>6, <2>1, <2>2 DEF LoadWrite, ControlInv, Has, TypeOK, Dumps, Record
  <2>4. PutCode(a, k) /\ UNCHANGED <<chain, deployed, hash>>
    BY <1>6, <2>1, <2>2 DEF LoadWrite, PutCode, Put
  <2>5. \A b \in Clients : pc'[b] = "read_code" => pc[b] = "read_code"
    BY <1>6 DEF LoadWrite, Goto, TypeOK
  <2> QED
    BY <2>3, <2>4, <2>5, PutCodeFacts DEF CodeInv, CodeReadResolves
<1>7. ASSUME NEW c \in Clients,
             \/ AddReadChain(c) \/ ReadCode(c) \/ DumpCollect(c) \/ DumpBest(c)
             \/ DumpMerge(c) \/ Refused(c) \/ ReadFails(c) \/ LoadReadNonce(c)
             \/ \E state \in Decodable : Load(c, state)
             \/ \E m \in Amounts : AddWrite(c, m)
             \/ \E a \in Addrs : AddBalance(c, a) \/ LoadReadChain(c, a)
      PROVE CodeInv'
  <2>1. UNCHANGED <<code, bytecodes, chain, deployed, hash>>
    BY <1>7 DEF AddReadChain, ReadCode, DumpCollect, DumpBest, DumpMerge, Load, Refused,
                ReadFails, LoadReadNonce, AddWrite, AddBalance, LoadReadChain
  <2>2. \A b \in Clients : pc'[b] = "read_code" => pc[b] = "read_code"
    BY <1>7 DEF AddReadChain, ReadCode, DumpCollect, DumpBest, DumpMerge, Load, Refused,
                ReadFails, LoadReadNonce, AddWrite, AddBalance, LoadReadChain, Goto, TypeOK
  <2> QED
    BY <2>1, <2>2, <1>1
<1>8. CASE UNCHANGED vars
  BY <1>1, <1>8 DEF vars
<1> QED
  BY <1>2, <1>4, <1>5, <1>6, <1>7, <1>8, BlockFacts DEF Next, Chain, Handlers

(* A reader that holds a code hash always finds the code, however many     *)
(* writers replace codes of this and other accounts in between.            *)
THEOREM CodeTheorem == Spec => []CodeReadResolves
<1>1. Init => CodeInv
  BY DEF Init, CodeInv, CodeReadResolves, Known, Default
<1>2. CodeInv => CodeReadResolves
  BY DEF CodeInv
<1> QED
  BY <1>1, <1>2, CodeStep, TypeCorrect, PTL DEF Spec

-----------------------------------------------------------------------------
(* The refinement.  Both sides are read field by field. *)

Groups == {{f} : f \in Fields}
            \cup {{"balance", "nonce", "code"} \cup S : S \in SUBSET Slots}

(* The view is the override where there is one, else the chain.            *)
LEMMA ViewByField ==
    ASSUME NEW a \in Addrs, NEW f \in Fields
    PROVE  Field(View(a), f) = Or(Field(Overrides(a), f), Field(chain[a], f))
  BY DEF View, Field, Overrides, Fields

(* A step that sets the fields F of account a, and nothing of the chain.   *)
LEMMA SetRefined ==
    ASSUME NEW a \in Addrs, NEW F \in Groups, UNCHANGED chain,
           \A b \in Addrs \ {a} : Overrides(b)' = Overrides(b),
           \A f \in F : Field(Overrides(a), f)' # None,
           \A f \in Fields \ F : Field(Overrides(a), f)' = Field(Overrides(a), f)
    PROVE  Abstract!Next
<1>1. F \subseteq Fields
  BY DEF Groups, Fields
<1>2. \A b \in Addrs, f \in Fields :
         Field(View(b), f) = Or(Field(Overrides(b), f), Field(chain[b], f))
  BY ViewByField
<1>3. \A b \in Addrs, f \in Fields :
         Field(View(b), f)' = Or(Field(Overrides(b), f)', Field(chain[b], f)')
  BY DEF View, Field, Overrides, Fields, Or
<1>4. \A b \in Addrs \ {a}, f \in Fields : Field(Overrides(b), f)' = Field(Overrides(b), f)
  BY DEF Field
<1>5. \A b \in Addrs, f \in Fields : Field(chain[b], f)' = Field(chain[b], f)
  BY DEF Field
<1>6. Abstract!Set(a, F)
  BY <1>1, <1>2, <1>3, <1>4, <1>5 DEF Abstract!Set, Abstract!OnlyIn
<1> QED
  BY <1>6 DEF Abstract!Next, Groups

(* A step that sets none: only blocks change the view.                     *)
LEMMA BlockRefined ==
    ASSUME TypeOK, NEW a \in Addrs, NEW account \in Account, Block(a, account)
    PROVE  Abstract!Next
<1>1. \A b \in Addrs : Overrides(b)' = Overrides(b)
  BY DEF Block, overrides, Overrides
<1>2. \A b \in Addrs \ {a} : chain'[b] = chain[b]
  BY DEF Block, TypeOK
<1>3. \A b \in Addrs, f \in Fields :
         Field(View(b), f) = Or(Field(Overrides(b), f), Field(chain[b], f))
  BY ViewByField
<1>4. \A b \in Addrs, f \in Fields :
         Field(View(b), f)' = Or(Field(Overrides(b), f)', Field(chain[b], f)')
  BY DEF View, Field, Overrides, Fields, Or
<1>5. \A b \in Addrs, f \in Fields : Field(Overrides(b), f)' = Field(Overrides(b), f)
  BY <1>1 DEF Field
<1>6. \A b \in Addrs \ {a}, f \in Fields : Field(chain[b], f)' = Field(chain[b], f)
  BY <1>2 DEF Field
<1>7. Abstract!Block(a)
  BY <1>3, <1>4, <1>5, <1>6 DEF Abstract!Block, Abstract!OnlyIn, Or
<1> QED
  BY <1>7 DEF Abstract!Next

(* Every other step leaves the view alone.                                 *)
LEMMA StutterRefined ==
    ASSUME UNCHANGED <<chain, balance, nonce, code, storage>>
    PROVE  UNCHANGED <<[a \in Addrs |-> [f \in Fields |-> Field(View(a), f)]],
                       [a \in Addrs |-> {f \in Fields : Field(Overrides(a), f) # None}]>>
<1>1. \A a \in Addrs, f \in Fields : Field(View(a), f)' = Field(View(a), f)
  BY DEF View, Field, Or
<1>2. \A a \in Addrs, f \in Fields : Field(Overrides(a), f)' = Field(Overrides(a), f)
  BY DEF Overrides, Field
<1> QED
  BY <1>1, <1>2

(* Setters set one field each.                                             *)
LEMMA SettersRefined ==
    ASSUME TypeOK, NEW c \in Clients, NEW a \in Addrs, Setters(c, a)
    PROVE  Abstract!Next
<1>1. ASSUME NEW v \in Amounts, SetBalance(c, a, v) PROVE Abstract!Next
  <2> DEFINE F == {"balance"}
  <2>1. F \in Groups
    BY DEF Groups, Fields
  <2>2. UNCHANGED chain /\ \A b \in Addrs \ {a} : Overrides(b)' = Overrides(b)
    BY <1>1 DEF SetBalance, Put, chainVars, Overrides, TypeOK
  <2>3. \A f \in F : Field(Overrides(a), f)' # None
    BY <1>1, StateAssumption DEF SetBalance, Put, Overrides, Field, TypeOK, Balances
  <2>4. \A f \in Fields \ F : Field(Overrides(a), f)' = Field(Overrides(a), f)
    BY <1>1, StateAssumption DEF SetBalance, Put, Overrides, Field, Fields, TypeOK
  <2> QED
    BY <2>1, <2>2, <2>3, <2>4, SetRefined
<1>2. ASSUME NEW n \in Nonces, SetNonce(c, a, n) PROVE Abstract!Next
  <2> DEFINE F == {"nonce"}
  <2>1. F \in Groups
    BY DEF Groups, Fields
  <2>2. UNCHANGED chain /\ \A b \in Addrs \ {a} : Overrides(b)' = Overrides(b)
    BY <1>2 DEF SetNonce, Put, chainVars, Overrides, TypeOK
  <2>3. \A f \in F : Field(Overrides(a), f)' # None
    BY <1>2, StateAssumption DEF SetNonce, Put, Overrides, Field, TypeOK
  <2>4. \A f \in Fields \ F : Field(Overrides(a), f)' = Field(Overrides(a), f)
    BY <1>2, StateAssumption DEF SetNonce, Put, Overrides, Field, Fields, TypeOK
  <2> QED
    BY <2>1, <2>2, <2>3, <2>4, SetRefined
<1>3. ASSUME NEW k \in CodeHashes, SetCode(c, a, k) PROVE Abstract!Next
  <2> DEFINE F == {"code"}
  <2>1. F \in Groups
    BY DEF Groups, Fields
  <2>2. UNCHANGED chain /\ \A b \in Addrs \ {a} : Overrides(b)' = Overrides(b)
    BY <1>3 DEF SetCode, PutCode, Put, chainVars, Overrides, TypeOK
  <2>3. \A f \in F : Field(Overrides(a), f)' # None
    BY <1>3, StateAssumption DEF SetCode, PutCode, Put, Overrides, Field, TypeOK, CodeHashes
  <2>4. \A f \in Fields \ F : Field(Overrides(a), f)' = Field(Overrides(a), f)
    BY <1>3, StateAssumption DEF SetCode, PutCode, Put, Overrides, Field, Fields, TypeOK
  <2> QED
    BY <2>1, <2>2, <2>3, <2>4, SetRefined
<1>4. ASSUME NEW s \in Slots, NEW v \in Values, SetStorageAt(c, a, s, v) PROVE Abstract!Next
  <2> DEFINE F == {s}
  <2>1. F \in Groups
    BY DEF Groups, Fields
  <2>2. UNCHANGED chain /\ \A b \in Addrs \ {a} : Overrides(b)' = Overrides(b)
    BY <1>4 DEF SetStorageAt, Put, chainVars, Overrides, TypeOK
  <2>3. \A f \in F : Field(Overrides(a), f)' # None
    BY <1>4, StateAssumption DEF SetStorageAt, Put, Overrides, Field, TypeOK
  <2>4. \A f \in Fields \ F : Field(Overrides(a), f)' = Field(Overrides(a), f)
    BY <1>4, StateAssumption DEF SetStorageAt, Put, Overrides, Field, Fields, TypeOK
  <2> QED
    BY <2>1, <2>2, <2>3, <2>4, SetRefined
<1> QED
  BY <1>1, <1>2, <1>3, <1>4 DEF Setters

(* add_balance sets the balance.                                           *)
LEMMA AddRefined ==
    ASSUME TypeOK, ControlInv, NEW c \in Clients, NEW m \in Amounts, AddWrite(c, m)
    PROVE  Abstract!Next
<1>1. PICK a : a = who[c]
  OBVIOUS
<1>2. a \in Addrs /\ pc[c] = "add"
  BY <1>1 DEF AddWrite, ControlInv
<1>3. PICK v : v = SaturatingAdd(read[c], m)
  OBVIOUS
<1>4. v \in Balances
  BY <1>3, SaturatingAddFacts DEF TypeOK
<1>5. Put(balance, a, v) /\ UNCHANGED <<chain, nonce, code, storage>>
  BY <1>1, <1>3 DEF AddWrite, Put, chainVars
<1>6. {"balance"} \in Groups
  BY DEF Groups, Fields
<1>7. \A b \in Addrs \ {a} : Overrides(b)' = Overrides(b)
  BY <1>5 DEF Put, Overrides, TypeOK
<1>8. \A f \in {"balance"} : Field(Overrides(a), f)' # None
  BY <1>2, <1>4, <1>5, StateAssumption DEF Put, Overrides, Field, TypeOK, Balances
<1>9. \A f \in Fields \ {"balance"} : Field(Overrides(a), f)' = Field(Overrides(a), f)
  BY <1>5 DEF Overrides, Field
<1> QED
  BY <1>2, <1>5, <1>6, <1>7, <1>8, <1>9, SetRefined

(* load_state sets balance, nonce, code and the slots of its record.       *)
LEMMA LoadRefined ==
    ASSUME TypeOK, ControlInv, NEW c \in Clients, LoadWrite(c)
    PROVE  Abstract!Next
<1>1. PICK a : a = who[c]
  OBVIOUS
<1>2. PICK r : r = partial[c].accounts[a]
  OBVIOUS
<1>3. r \in Record /\ a \in Addrs
  BY <1>1, <1>2 DEF LoadWrite, ControlInv, Has, TypeOK, Dumps
<1> DEFINE F == {"balance", "nonce", "code"} \cup {s \in Slots : storage'[a][s] # None
                                                             /\ r.storage[s] # None}
<1>4. F \in Groups
  BY DEF Groups
<1>5. /\ UNCHANGED chain
      /\ Put(balance, a, r.balance) /\ Put(nonce, a, read[c]) /\ Put(code, a, r.code)
      /\ Put(storage, a, [s \in Slots |-> Or(r.storage[s], storage[a][s])])
  BY <1>1, <1>2 DEF LoadWrite, Put, PutCode, chainVars
<1>6. \A b \in Addrs \ {a} : Overrides(b)' = Overrides(b)
  BY <1>5 DEF Put, Overrides, TypeOK
<1>7. \A f \in F : Field(Overrides(a), f)' # None
  BY <1>3, <1>5, StateAssumption
     DEF Put, Overrides, Field, TypeOK, Record, Balances, CodeHashes
<1>8. \A f \in Fields \ F : Field(Overrides(a), f)' = Field(Overrides(a), f)
  <2> SUFFICES ASSUME NEW f \in Fields \ F
               PROVE  Field(Overrides(a), f)' = Field(Overrides(a), f)
    OBVIOUS
  <2>1. f \in Slots /\ f \notin {"balance", "nonce", "code"}
    BY DEF Fields
  <2>2. storage'[a] = [s \in Slots |-> Or(r.storage[s], storage[a][s])]
    BY <1>3, <1>5 DEF Put, TypeOK
  <2>3. storage'[a][f] = Or(r.storage[f], storage[a][f])
    BY <2>1, <2>2
  <2>4. storage'[a][f] = storage[a][f]
    BY <2>1, <2>3 DEF Or
  <2> QED
    BY <2>1, <2>4 DEF Field, Overrides
<1> QED
  BY <1>3, <1>4, <1>5, <1>6, <1>7, <1>8, SetRefined

(* AnvilState implements AccountView: whatever order calls, dumps, loads   *)
(* and blocks come in, a field that was set is only changed by setting it  *)
(* again, and every step sets the fields of one account.                   *)
THEOREM Refinement == Spec => ViewRefined
<1>1. Init => Abstract!Init
  BY DEF Init, Abstract!Init, Overrides, Field, Fields
<1>2. TypeOK /\ ControlInv /\ [Next]_vars =>
         [Abstract!Next]_<<[a \in Addrs |-> [f \in Fields |-> Field(View(a), f)]],
             [a \in Addrs |-> {f \in Fields : Field(Overrides(a), f) # None}]>>
  <2> SUFFICES ASSUME TypeOK, ControlInv, [Next]_vars
               PROVE  Abstract!Next \/ UNCHANGED <<chain, balance, nonce, code, storage>>
    BY StutterRefined
  <2>1. ASSUME NEW c \in Clients, Handlers(c), ~LoadWrite(c),
               \A a \in Addrs : ~Setters(c, a), ~\E m \in Amounts : AddWrite(c, m)
        PROVE  UNCHANGED <<chain, balance, nonce, code, storage>>
    BY <2>1 DEF Handlers, AddBalance, ReadCodeHash, AddReadChain, ReadCode, DumpCollect,
                DumpBest, DumpMerge, Load, Refused, ReadFails, LoadReadChain,
                LoadReadNonce, overrides, chainVars
  <2>2. ASSUME NEW c \in Clients, NEW m \in Amounts, AddWrite(c, m) PROVE Abstract!Next
    BY <2>2, AddRefined
  <2>3. CASE UNCHANGED vars
    BY <2>3 DEF vars, overrides, chainVars
  <2> QED
    BY <2>1, <2>2, <2>3, SettersRefined, LoadRefined, BlockFacts, BlockRefined
    DEF Next, Chain, Handlers
<1> QED
  BY <1>1, <1>2, TypeCorrect, PTL DEF Spec, ViewRefined, Abstract!Spec
-----------------------------------------------------------------------------
(* What a call has read and what it is about to do with it. *)

(* Code that overrides is in the map of bytecodes.                         *)
CodeKept == \A a \in Addrs : code[a] # None => code[a] \in bytecodes \cup {Empty}

(* As long as no block comes, a dump in progress has the accounts of the   *)
(* chain and a load the nonce; what a load writes is not below its dump.   *)
ReadOK(c) ==
    /\ readAt[c] <= best
    /\ pc[c] \in {"dump_best", "dump_merge"} =>
           /\ partial[c].at <= best
           /\ partial[c].at = best => partial[c].accounts = FromDump
    /\ pc[c] = "load_nonce" /\ readAt[c] = best => read[c] = chain[who[c]].nonce
    /\ pc[c] = "load_write" => read[c] >= partial[c].accounts[who[c]].nonce
ReadInv == \A c \in Clients : ReadOK(c)

(* A load has written account a of its dump; slots that the dump does not  *)
(* have are as they were when the load began.                              *)
Restored(c, a) ==
    LET r == partial[c].accounts[a]
    IN  /\ balance[a] = r.balance /\ code[a] = r.code
        /\ nonce[a] # None /\ nonce[a] >= r.nonce
        /\ \A s \in Slots : storage[a][s] = Or(r.storage[s], before[a][s])

(* What a call that is alone knows of the account it works on, as long as  *)
(* no block comes, and of the accounts it has written and has not written, *)
(* come what may.                                                          *)
Knows(c) ==
    /\ pc[c] = "add_chain" => balance[who[c]] = None
    /\ pc[c] = "add" /\ readAt[c] = best => read[c] = View(who[c]).balance
    /\ pc[c] = "load_write" /\ readAt[c] = best => read[c] >= View(who[c]).nonce
    /\ pc[c] \in {"load", "load_nonce", "load_write"} =>
           /\ \A a \in Has(partial[c]) \ todo[c] : Restored(c, a)
           /\ \A a \in todo[c] : storage[a] = before[a]

(* Until two calls overlap, at most one is in progress.                    *)
AloneInv == overlapped = "no" =>
    /\ \A c, d \in Clients : pc[c] # "idle" /\ pc[d] # "idle" => c = d
    /\ \A c \in Clients : Knows(c)

(* A step of handler c leaves the chain and the other handlers alone.      *)
OnlyOwn(c) ==
    /\ UNCHANGED <<chain, deployed, best>>
    /\ \A d \in Clients \ {c} :
          /\ pc'[d] = pc[d] /\ who'[d] = who[d] /\ read'[d] = read[d]
          /\ todo'[d] = todo[d] /\ readAt'[d] = readAt[d] /\ partial'[d] = partial[d]

\* Handlers share the overrides and nothing else.
LEMMA OwnStep ==
    ASSUME TypeOK, NEW c \in Clients, Handlers(c)
    PROVE  OnlyOwn(c)
<1> USE DEF OnlyOwn, overrides, chainVars, rpcVars, TypeOK, Goto, NewCall
<1>1. ASSUME NEW a \in Addrs, Setters(c, a) PROVE OnlyOwn(c)
  BY <1>1 DEF Setters, SetBalance, SetNonce, SetCode, SetStorageAt
<1>2. ASSUME NEW a \in Addrs, AddBalance(c, a) \/ ReadCodeHash(c, a) \/ LoadReadChain(c, a)
      PROVE OnlyOwn(c)
  BY <1>2 DEF AddBalance, ReadCodeHash, LoadReadChain
<1>3. ASSUME AddReadChain(c) \/ ReadCode(c) \/ Refused(c) \/ ReadFails(c)
             \/ \E m \in Amounts : AddWrite(c, m)
      PROVE OnlyOwn(c)
  BY <1>3 DEF AddReadChain, ReadCode, Refused, ReadFails, AddWrite
<1>4. ASSUME DumpCollect(c) \/ DumpBest(c) \/ DumpMerge(c) PROVE OnlyOwn(c)
  BY <1>4 DEF DumpCollect, DumpBest, DumpMerge
<1>5. ASSUME LoadReadNonce(c) \/ LoadWrite(c) \/ \E state \in Decodable : Load(c, state)
      PROVE OnlyOwn(c)
  BY <1>5 DEF LoadReadNonce, LoadWrite, Load
<1> QED
  BY <1>1, <1>2, <1>3, <1>4, <1>5 DEF Handlers

(* Writing code keeps the map complete.                                    *)
LEMMA CodeKeptStep ==
    TypeOK /\ ControlInv /\ CodeKept /\ [Next]_vars => CodeKept'
<1> SUFFICES ASSUME TypeOK, ControlInv, CodeKept, [Next]_vars PROVE CodeKept'
  OBVIOUS
<1> USE DEF overrides, chainVars, rpcVars
<1>1. ASSUME NEW a, NEW k \in CodeHashes, PutCode(a, k) PROVE CodeKept'
  BY <1>1 DEF PutCode, Put, CodeKept, CodeHashes, TypeOK
<1>2. ASSUME UNCHANGED <<code, bytecodes>> PROVE CodeKept'
  BY <1>2 DEF CodeKept
<1>3. ASSUME NEW c \in Clients, NEW a \in Addrs, Setters(c, a) PROVE CodeKept'
  BY <1>1, <1>2, <1>3 DEF Setters, SetBalance, SetNonce, SetCode, SetStorageAt
<1>4. ASSUME NEW c \in Clients, LoadWrite(c) PROVE CodeKept'
  <2>1. PICK k : k = partial[c].accounts[who[c]].code
    OBVIOUS
  <2>2. k \in CodeHashes
    BY <1>4, <2>1 DEF LoadWrite, ControlInv, Has, TypeOK, Dumps, Record
  <2>3. PutCode(who[c], k)
    BY <1>4, <2>1 DEF LoadWrite, PutCode, Put
  <2> QED
    BY <1>1, <2>2, <2>3
<1>5. ASSUME NEW c \in Clients, Handlers(c), ~LoadWrite(c), \A a \in Addrs : ~Setters(c, a)
      PROVE CodeKept'
  BY <1>2, <1>5 DEF Handlers, AddBalance, ReadCodeHash, AddReadChain, AddWrite, ReadCode,
                    DumpCollect, DumpBest, DumpMerge, Load, Refused, ReadFails,
                    LoadReadChain, LoadReadNonce
<1>6. CASE Chain \/ UNCHANGED vars
  BY <1>2, <1>6 DEF vars, Chain, Transfer, Deploy, Store, Block
<1> QED
  BY <1>3, <1>4, <1>5, <1>6 DEF Next

(* Next preserves ReadInv, whoever else calls.                             *)
LEMMA ReadStep ==
    TypeOK /\ ControlInv /\ ReadInv /\ [Next]_vars => ReadInv'
<1> SUFFICES ASSUME TypeOK, ControlInv, ReadInv, [Next]_vars PROVE ReadInv'
  OBVIOUS
<1> USE DEF overrides, chainVars, rpcVars
<1>n. best \in Nat /\ \A c \in Clients : readAt[c] \in Nat /\ partial[c].at \in Nat
  BY StateAssumption DEF TypeOK, Dumps
<1>1. ASSUME NEW a \in Addrs, NEW account \in Account, Block(a, account) PROVE ReadInv'
  <2>1. best' = best + 1 /\ UNCHANGED <<pc, who, read, readAt, partial>>
    BY <1>1 DEF Block
  <2> SUFFICES ASSUME NEW c \in Clients PROVE ReadOK(c)'
    BY DEF ReadInv
  <2>2. readAt[c] < best' /\ readAt[c] <= best'
    BY <1>n, <2>1 DEF ReadInv, ReadOK
  <2>3. pc[c] \in {"dump_best", "dump_merge"} => partial[c].at < best'
    BY <1>n, <2>1 DEF ReadInv, ReadOK
  <2> QED
    BY <1>n, <2>1, <2>2, <2>3 DEF ReadInv, ReadOK
<1>2. ASSUME NEW c \in Clients, Handlers(c) PROVE ReadInv'
  <2>o. OnlyOwn(c)
    BY <1>2, OwnStep
  <2>f. FromDump' = FromDump
    BY <2>o DEF OnlyOwn, FromDump
  <2> SUFFICES ReadOK(c)'
    BY <2>o, <2>f DEF OnlyOwn, ReadInv, ReadOK
  <2>k. ReadOK(c)
    BY DEF ReadInv
  <2>1. ASSUME NEW a \in Addrs, Setters(c, a) PROVE ReadOK(c)'
    BY <2>1, <2>k, <2>f DEF Setters, SetBalance, SetNonce, SetCode, SetStorageAt, ReadOK
  <2>2. ASSUME NEW a \in Addrs, AddBalance(c, a) PROVE ReadOK(c)'
    BY <1>n, <2>2 DEF AddBalance, Goto, TypeOK, ReadOK
  \* Steps that neither begin to read nor go on to use it.
  <2>3. ASSUME UNCHANGED <<best, readAt>>,
               pc'[c] \notin {"dump_best", "dump_merge", "load_nonce", "load_write"}
        PROVE  ReadOK(c)'
    BY <2>3, <2>k DEF ReadOK
  <2>4. CASE Refused(c)
    BY <2>4, <2>k, <2>f DEF Refused, ReadOK
  <2>5. ASSUME \/ AddReadChain(c) \/ ReadCode(c) \/ DumpMerge(c) \/ ReadFails(c)
               \/ \E m \in Amounts : AddWrite(c, m)
               \/ \E a \in Addrs : ReadCodeHash(c, a)
               \/ \E state \in Decodable : Load(c, state)
        PROVE  ReadOK(c)'
    <3>1. UNCHANGED <<best, readAt>>
      BY <2>5 DEF AddReadChain, ReadCode, DumpMerge, ReadFails, AddWrite, ReadCodeHash, Load
    <3>2. pc'[c] \in {"add", "idle", "read_code", "load"}
      BY <2>5 DEF AddReadChain, ReadCode, DumpMerge, ReadFails, AddWrite, ReadCodeHash,
                  Load, Goto, TypeOK
    <3> QED
      BY <2>3, <3>1, <3>2
  <2>6. CASE DumpCollect(c)
    <3>1. /\ (partial[c].at)' = best /\ (partial[c].accounts)' = FromDump
          /\ pc'[c] = "dump_best" /\ UNCHANGED <<best, readAt>>
      BY <2>6 DEF DumpCollect, Goto, TypeOK
    <3> QED
      BY <1>n, <2>k, <2>f, <3>1 DEF ReadOK
  <2>7. CASE DumpBest(c)
    <3>1. /\ (partial[c].at)' = partial[c].at
          /\ (partial[c].accounts)' = partial[c].accounts
          /\ pc[c] = "dump_best" /\ pc'[c] = "dump_merge" /\ UNCHANGED <<best, readAt>>
      BY <2>7 DEF DumpBest, Goto, TypeOK
    <3> QED
      BY <2>k, <2>f, <3>1 DEF ReadOK
  <2>8. ASSUME NEW a \in Addrs, LoadReadChain(c, a) PROVE ReadOK(c)'
    BY <1>n, <2>8 DEF LoadReadChain, Goto, TypeOK, ReadOK
  <2>9. CASE LoadReadNonce(c)
    <3> DEFINE current == Or(nonce[who[c]], read[c])
               dumped == partial[c].accounts[who[c]].nonce
    <3>1. who[c] \in Addrs /\ dumped \in Nat
      BY <2>9 DEF LoadReadNonce, ControlInv, Has, TypeOK, Dumps, Record
    <3>2. current \in Nat
      BY <3>1 DEF Or, TypeOK
    <3>3. /\ read'[c] = IF current >= dumped THEN current ELSE dumped
          /\ pc'[c] = "load_write" /\ UNCHANGED <<best, readAt, partial, who>>
      BY <2>9 DEF LoadReadNonce, Goto, TypeOK
    <3>4. read'[c] >= dumped
      BY <3>1, <3>2, <3>3
    <3> QED
      BY <2>k, <3>3, <3>4 DEF ReadOK
  <2>10. CASE LoadWrite(c)
    <3>1. UNCHANGED <<best, readAt>> /\ pc'[c] \in {"idle", "load"}
      BY <2>10 DEF LoadWrite, Goto, TypeOK
    <3> QED
      BY <2>3, <3>1
  <2> QED
    BY <1>2, <2>1, <2>2, <2>4, <2>5, <2>6, <2>7, <2>8, <2>9, <2>10 DEF Handlers
<1>3. CASE UNCHANGED vars
  BY <1>3 DEF vars, ReadInv, ReadOK, FromDump
<1> QED
  BY <1>1, <1>2, <1>3, BlockFacts DEF Next, Chain

(* A step of a call that does not overlap: the others are idle.            *)
LEMMA StepAlone ==
    ASSUME TypeOK, AloneInv, NEW c \in Clients, Handlers(c), overlapped' = "no"
    PROVE  overlapped = "no" /\ \A d \in Clients \ {c} : pc[d] = "idle"
<1> USE DEF overrides, chainVars, rpcVars
<1>1. NewCall(c) \/ (pc[c] # "idle" /\ UNCHANGED overlapped)
  BY DEF Handlers, Setters, SetBalance, SetNonce, SetCode, SetStorageAt, AddBalance,
         ReadCodeHash, AddReadChain, AddWrite, ReadCode, DumpCollect, DumpBest, DumpMerge,
         Load, Refused, ReadFails, LoadReadChain, LoadReadNonce, LoadWrite
<1> QED
  BY <1>1 DEF NewCall, AloneInv, TypeOK

(* Next preserves AloneInv.                                                *)
LEMMA AloneStep ==
    TypeOK /\ ControlInv /\ ReadInv /\ AloneInv /\ [Next]_vars => AloneInv'
<1> SUFFICES ASSUME TypeOK, ControlInv, ReadInv, AloneInv, [Next]_vars,
                    overlapped' = "no"
             PROVE  AloneInv'
  BY DEF AloneInv
<1> USE DEF overrides, chainVars, rpcVars
<1>n. best \in Nat /\ \A c \in Clients : readAt[c] \in Nat
  BY StateAssumption DEF TypeOK
\* A block is noticed by its number, and does not touch overrides.
<1>1. ASSUME NEW a \in Addrs, NEW account \in Account, Block(a, account) PROVE AloneInv'
  <2>1. /\ best' = best + 1
        /\ UNCHANGED <<balance, nonce, code, storage, pc, who, read, todo, readAt, partial,
                       overlapped, before>>
    BY <1>1 DEF Block
  <2>2. \A c \in Clients : readAt'[c] # best'
    BY <1>n, <2>1 DEF ReadInv, ReadOK
  <2> QED
    BY <2>1, <2>2 DEF AloneInv, Knows, Restored, Has
<1>2. ASSUME NEW c \in Clients, Handlers(c) PROVE AloneInv'
  <2>a. overlapped = "no" /\ \A d \in Clients \ {c} : pc[d] = "idle"
    BY <1>2, StepAlone
  <2>o. OnlyOwn(c)
    BY <1>2, OwnStep
  <2> SUFFICES Knows(c)'
    BY <2>a, <2>o DEF OnlyOwn, AloneInv, Knows
  <2>k. Knows(c)
    BY <2>a DEF AloneInv
  \* Steps after which the call is over, or has read nothing yet.
  <2>1. ASSUME pc'[c] \in {"idle", "read_code", "dump_best", "dump_merge"}
        PROVE  Knows(c)'
    BY <2>1 DEF Knows
  <2>2. ASSUME NEW a \in Addrs, Setters(c, a) PROVE Knows(c)'
    BY <2>1, <2>2 DEF Setters, SetBalance, SetNonce, SetCode, SetStorageAt, NewCall
  <2>3. ASSUME \/ ReadCode(c) \/ DumpCollect(c) \/ DumpBest(c) \/ DumpMerge(c)
               \/ Refused(c) \/ ReadFails(c)
               \/ \E m \in Amounts : AddWrite(c, m)
               \/ \E a \in Addrs : ReadCodeHash(c, a)
        PROVE  Knows(c)'
    <3>1. pc'[c] \in {"idle", "read_code", "dump_best", "dump_merge"}
      BY <2>3 DEF ReadCode, DumpCollect, DumpBest, DumpMerge, Refused, ReadFails, AddWrite,
                  ReadCodeHash, NewCall, Goto, TypeOK
    <3> QED
      BY <2>1, <3>1
  <2>4. ASSUME NEW a \in Addrs, AddBalance(c, a) PROVE Knows(c)'
    <3>1. /\ UNCHANGED <<balance, chain>> /\ who'[c] = a
          /\ \/ pc'[c] = "add" /\ balance[a] # None /\ read'[c] = balance[a]
             \/ pc'[c] = "add_chain" /\ balance[a] = None
      BY <2>4 DEF AddBalance, Goto, TypeOK
    <3> QED
      BY <3>1 DEF Knows, View, Or
  <2>5. CASE AddReadChain(c)
    <3>1. /\ UNCHANGED <<balance, chain, who>> /\ pc[c] = "add_chain" /\ pc'[c] = "add"
          /\ read'[c] = chain[who[c]].balance
      BY <2>5 DEF AddReadChain, Goto, TypeOK
    <3> QED
      BY <2>k, <3>1 DEF Knows, View, Or
  <2>6. ASSUME NEW state \in Decodable, Load(c, state) PROVE Knows(c)'
    <3>1. /\ pc'[c] = "load" /\ todo'[c] = Has(state) /\ partial'[c] = state
          /\ before' = storage /\ storage' = storage
      BY <2>6 DEF Load, Goto, TypeOK
    <3> QED
      BY <3>1 DEF Knows, Has
  <2>7. ASSUME NEW a \in Addrs, LoadReadChain(c, a) PROVE Knows(c)'
    <3>1. /\ UNCHANGED <<balance, nonce, code, storage, todo, partial, before>>
          /\ pc[c] = "load" /\ pc'[c] = "load_nonce"
      BY <2>7 DEF LoadReadChain, Goto, TypeOK
    <3> QED
      BY <2>k, <3>1 DEF Knows, Restored, Has
  <2>8. CASE LoadReadNonce(c)
    <3> DEFINE current == Or(nonce[who[c]], read[c])
               dumped == partial[c].accounts[who[c]].nonce
    <3>1. who[c] \in Addrs /\ dumped \in Nat
      BY <2>8 DEF LoadReadNonce, ControlInv, Has, TypeOK, Dumps, Record
    <3>2. current \in Nat
      BY <3>1 DEF Or, TypeOK
    <3>3. /\ read'[c] = IF current >= dumped THEN current ELSE dumped
          /\ pc[c] = "load_nonce" /\ pc'[c] = "load_write"
          /\ UNCHANGED <<balance, nonce, code, storage, todo, partial, who, readAt, best,
                         chain, before>>
      BY <2>8 DEF LoadReadNonce, Goto, TypeOK
    <3>4. read'[c] >= current
      BY <3>1, <3>2, <3>3
    <3>5. readAt[c] = best => current = View(who[c]).nonce
      BY <3>3 DEF ReadInv, ReadOK, View, Or
    <3>6. View(who[c])' = View(who[c])
      BY <3>3 DEF View
    <3>7. readAt'[c] = best' => read'[c] >= (View(who[c]).nonce)'
      BY <3>3, <3>4, <3>5, <3>6
    <3>8. /\ \A a \in Has(partial[c]) \ todo[c] : Restored(c, a)
          /\ \A a \in todo[c] : storage[a] = before[a]
      BY <2>k, <3>3 DEF Knows
    <3> QED
      BY <3>3, <3>7, <3>8 DEF Knows, Restored, Has
  <2>9. CASE LoadWrite(c)
    <3>1. PICK a : a = who[c]
      OBVIOUS
    <3>2. PICK r : r = partial[c].accounts[a]
      OBVIOUS
    <3>3. r \in Record /\ a \in Addrs /\ read[c] \in Nat /\ read[c] >= r.nonce
      BY <2>9, <3>1, <3>2 DEF LoadWrite, ControlInv, Has, TypeOK, Dumps, ReadInv, ReadOK
    <3>4. /\ Put(balance, a, r.balance) /\ Put(nonce, a, read[c]) /\ Put(code, a, r.code)
          /\ Put(storage, a, [s \in Slots |-> Or(r.storage[s], storage[a][s])])
          /\ todo'[c] = todo[c] \ {a} /\ pc'[c] \in {"idle", "load"}
          /\ pc[c] = "load_write" /\ UNCHANGED <<partial, before>>
      BY <2>9, <3>1, <3>2 DEF LoadWrite, Put, PutCode, Goto, TypeOK
    <3>5. Restored(c, a)'
      <4>1. /\ balance'[a] = r.balance /\ nonce'[a] = read[c] /\ code'[a] = r.code
            /\ storage'[a] = [s \in Slots |-> Or(r.storage[s], storage[a][s])]
        BY <3>3, <3>4 DEF Put, TypeOK
      <4>2. nonce'[a] # None /\ nonce'[a] >= r.nonce
        BY <3>3, <4>1, StateAssumption
      <4>3. storage[a] = before[a]
        BY <2>k, <2>9, <3>1 DEF Knows, LoadWrite, ControlInv
      <4>4. \A s \in Slots : storage'[a][s] = Or(r.storage[s], before[a][s])
        BY <4>1, <4>3
      <4> QED
        BY <3>2, <3>4, <4>1, <4>2, <4>4 DEF Restored
    <3>6. \A b \in Has(partial[c]) \ todo'[c] : Restored(c, b)'
      <4> SUFFICES ASSUME NEW b \in Has(partial[c]) \ todo'[c], b # a
                   PROVE  Restored(c, b)'
        BY <3>5
      <4>1. Restored(c, b)
        BY <2>k, <3>4 DEF Knows
      <4>2. /\ balance'[b] = balance[b] /\ nonce'[b] = nonce[b] /\ code'[b] = code[b]
            /\ storage'[b] = storage[b]
        BY <3>4 DEF Put, TypeOK, Has
      <4> QED
        BY <3>4, <4>1, <4>2 DEF Restored
    <3>7. \A b \in todo'[c] : storage'[b] = before'[b]
      BY <2>k, <3>3, <3>4 DEF Knows, Put, TypeOK
    <3> QED
      BY <3>4, <3>6, <3>7 DEF Knows, Has
  <2> QED
    BY <1>2, <2>2, <2>3, <2>4, <2>5, <2>6, <2>7, <2>8, <2>9 DEF Handlers
<1>3. CASE UNCHANGED vars
  BY <1>3 DEF vars, AloneInv, Knows, Restored, Has, View
<1> QED
  BY <1>1, <1>2, <1>3, BlockFacts DEF Next, Chain

(* The invariants above hold of every behaviour.                           *)
LEMMA HandlerInv == Spec => [](TypeOK /\ ControlInv /\ CodeKept /\ ReadInv /\ AloneInv)
<1>1. Init => CodeKept /\ ReadInv /\ AloneInv
  BY StateAssumption DEF Init, CodeKept, ReadInv, ReadOK, AloneInv, Knows
<1> QED
  BY <1>1, CodeKeptStep, ReadStep, AloneStep, TypeCorrect, PTL DEF Spec

-----------------------------------------------------------------------------
(* The record of a chain account, or the empty one, shows that account.    *)
LEMMA FromDumpFacts ==
    ASSUME TypeOK, NEW a \in Addrs
    PROVE  /\ Or(FromDump[a], EmptyRecord) \in Record
           /\ Shows(Or(FromDump[a], EmptyRecord), chain[a])
<1>1. CASE chain[a] = Default
  <2>1. Or(FromDump[a], EmptyRecord) = EmptyRecord
    BY <1>1 DEF FromDump, Or
  <2>2. EmptyRecord \in Record
    BY StateAssumption DEF EmptyRecord, Record, Balances, CodeHashes
  <2>3. Shows(EmptyRecord, Default)
    BY DEF Shows, EmptyRecord, Default, Or
  <2> QED
    BY <1>1, <2>1, <2>2, <2>3
<1>2. CASE chain[a] # Default
  <2>1. chain[a] \in Account
    BY DEF TypeOK
  <2>2. Dumped(chain[a]) \in Record
    BY <2>1, DumpedFacts
  <2>3. Or(FromDump[a], EmptyRecord) = Dumped(chain[a])
    BY <1>2, <2>2, StateAssumption DEF FromDump, Or
  <2>4. Shows(Dumped(chain[a]), chain[a])
    <3>1. \A s \in Slots : chain[a].storage[s] # None
      BY <2>1, StateAssumption DEF Account
    <3> QED
      BY <3>1 DEF Shows, Dumped, Or
  <2> QED
    BY <2>2, <2>3, <2>4
<1> QED
  BY <1>1, <1>2

(* Merging the overrides into a record that shows the chain's account      *)
(* gives one that shows what eth_* calls see.                              *)
LEMMA MergedShows ==
    ASSUME TypeOK, CodeKept, NEW a \in Addrs, NEW r \in Record, Shows(r, chain[a])
    PROVE  Shows(Merged(a, r), View(a))
<1>1. Or(code[a], chain[a].code) = Merged(a, r).code
  BY DEF CodeKept, Or, Merged, Shows
<1>2. ASSUME NEW s \in Slots
      PROVE Or(Merged(a, r).storage[s], 0) = View(a).storage[s]
  <2>1. /\ Merged(a, r).storage[s] = Or(storage[a][s], r.storage[s])
        /\ View(a).storage[s] = Or(storage[a][s], chain[a].storage[s])
    BY DEF Merged, View
  <2>2. Or(r.storage[s], 0) = chain[a].storage[s]
    BY DEF Shows
  <2> QED
    BY <2>1, <2>2 DEF Or
<1>3. Merged(a, r).balance = View(a).balance /\ Merged(a, r).nonce = View(a).nonce
  BY DEF Merged, View, Shows, Or
<1> QED
  BY <1>1, <1>2, <1>3 DEF Shows, View

(* anvil_dump_state writes what eth_* calls see at the moment it merges    *)
(* the overrides, with any number of callers at work, unless a block came  *)
(* since it read the chain.                                                *)
THEOREM DumpTheorem == Spec => DumpShowsView
<1>1. ASSUME TypeOK, CodeKept, ReadInv, NEW c \in Clients, DumpMerge(c),
             partial[c].at = best, NEW a \in Addrs
      PROVE  Shows(Or(dump'.accounts[a], EmptyRecord), View(a))
  <2>1. partial[c].accounts = FromDump
    BY <1>1 DEF DumpMerge, ReadInv, ReadOK
  <2>2. /\ Or(FromDump[a], EmptyRecord) \in Record
        /\ Shows(Or(FromDump[a], EmptyRecord), chain[a])
    BY <1>1, FromDumpFacts
  <2>3. dump'.accounts[a] = IF Overridden(a)
                            THEN Merged(a, Or(FromDump[a], EmptyRecord))
                            ELSE FromDump[a]
    BY <1>1, <2>1 DEF DumpMerge
  <2>4. CASE Overridden(a)
    <3>1. Merged(a, Or(FromDump[a], EmptyRecord)) \in Record
      BY <1>1, <2>2, MergedFacts
    <3>2. Or(dump'.accounts[a], EmptyRecord) = Merged(a, Or(FromDump[a], EmptyRecord))
      BY <2>3, <2>4, <3>1, StateAssumption DEF Or
    <3> QED
      BY <1>1, <2>2, <3>2, MergedShows
  <2>5. CASE ~Overridden(a)
    <3>1. /\ View(a).balance = chain[a].balance /\ View(a).nonce = chain[a].nonce
          /\ View(a).code = chain[a].code
          /\ \A s \in Slots : View(a).storage[s] = chain[a].storage[s]
      BY <2>5 DEF Overridden, View, Or
    <3> QED
      BY <2>2, <2>3, <2>5, <3>1 DEF Shows
  <2> QED
    BY <2>4, <2>5
<1> DEFINE Shown == \A c \in Clients : DumpMerge(c) /\ partial[c].at = best =>
                       \A a \in Addrs :
                          Shows(Or(dump'.accounts[a], EmptyRecord), View(a))
<1>2. TypeOK /\ CodeKept /\ ReadInv => Shown
  BY <1>1
<1> QED
  BY <1>2, HandlerInv, PTL DEF DumpShowsView

(* anvil_load_state, if no other call overlaps, leaves balance, code and   *)
(* the dumped slots of every account of the dump as they were dumped, its  *)
(* nonce no smaller, and the slots the dump does not have as they were     *)
(* before the load, with blocks mined at any moment.                       *)
THEOREM LoadTheorem == Spec => LoadRestores
<1> DEFINE Done(c) ==
             \A a \in Has(partial[c]) :
                LET r == partial[c].accounts[a]
                    v == View(a)'
                IN  /\ v.balance = r.balance /\ v.code = r.code /\ v.nonce >= r.nonce
                    /\ \A s \in Slots : v.storage[s] =
                          Or(r.storage[s], Or(before[a][s], chain[a].storage[s]))
           Restores == \A c \in Clients :
             overlapped = "no" /\ LoadWrite(c) /\ todo'[c] = {} => Done(c)
<1>1. ASSUME TypeOK, ControlInv, AloneInv, ReadInv, NEW c \in Clients, overlapped = "no",
             LoadWrite(c), todo'[c] = {}
      PROVE  Done(c)
  <2> SUFFICES ASSUME NEW a \in Has(partial[c]), NEW r, r = partial[c].accounts[a]
               PROVE  /\ View(a)'.balance = r.balance /\ View(a)'.code = r.code
                      /\ View(a)'.nonce >= r.nonce
                      /\ \A s \in Slots : View(a)'.storage[s] =
                            Or(r.storage[s], Or(before[a][s], chain[a].storage[s]))
    OBVIOUS
  <2>1. r \in Record /\ a \in Addrs /\ who[c] \in Addrs /\ read[c] \in Nat
    BY <1>1, StateAssumption DEF LoadWrite, ControlInv, Has, TypeOK, Dumps
  <2>2. /\ balance'[a] = r.balance /\ code'[a] = r.code
        /\ nonce'[a] # None /\ nonce'[a] >= r.nonce
        /\ \A s \in Slots : storage'[a][s] = Or(r.storage[s], before[a][s])
    <3>1. CASE a = who[c]
      <4>1. /\ balance'[a] = r.balance /\ nonce'[a] = read[c] /\ code'[a] = r.code
            /\ storage'[a] = [s \in Slots |-> Or(r.storage[s], storage[a][s])]
        BY <1>1, <2>1, <3>1 DEF LoadWrite, Put, PutCode, TypeOK
      <4>2. read[c] >= r.nonce
        BY <1>1, <3>1 DEF LoadWrite, ReadInv, ReadOK
      <4>3. storage[a] = before[a]
        BY <1>1, <3>1 DEF AloneInv, Knows, LoadWrite, ControlInv
      <4> QED
        BY <2>1, <4>1, <4>2, <4>3, StateAssumption
    <3>2. CASE a # who[c]
      <4>1. a \notin todo[c]
        BY <1>1, <3>2 DEF LoadWrite, TypeOK
      <4>2. Restored(c, a)
        BY <1>1, <4>1 DEF AloneInv, Knows, LoadWrite
      <4>3. /\ balance'[a] = balance[a] /\ nonce'[a] = nonce[a] /\ code'[a] = code[a]
            /\ storage'[a] = storage[a]
        BY <1>1, <2>1, <3>2 DEF LoadWrite, Put, PutCode, TypeOK
      <4> QED
        BY <4>2, <4>3 DEF Restored
    <3> QED
      BY <3>1, <3>2
  <2>3. r.balance # None /\ r.code # None
    BY <2>1, StateAssumption DEF Record, Balances, CodeHashes
  <2>4. chain' = chain
    BY <1>1 DEF LoadWrite, chainVars
  <2>5. \A s \in Slots : View(a)'.storage[s] =
            Or(r.storage[s], Or(before[a][s], chain[a].storage[s]))
    BY <2>2, <2>4 DEF View, Or
  <2> QED
    BY <2>2, <2>3, <2>5 DEF View, Or
<1>2. TypeOK /\ ControlInv /\ AloneInv /\ ReadInv => Restores
  BY <1>1
<1> QED
  BY <1>2, HandlerInv, PTL DEF LoadRestores

(* anvil_add_balance, if neither a call nor a block comes in between, adds *)
(* to the balance that eth_getBalance shows, up to U256::MAX.              *)
THEOREM AddTheorem == Spec => AddAccumulates
<1> DEFINE Adds == \A c \in Clients : \A amount \in Amounts :
             overlapped = "no" /\ AddWrite(c, amount) /\ readAt[c] = best =>
                View(who[c])'.balance = SaturatingAdd(View(who[c]).balance, amount)
<1>1. ASSUME TypeOK, ControlInv, AloneInv, NEW c \in Clients, NEW amount \in Amounts,
             overlapped = "no", AddWrite(c, amount), readAt[c] = best
      PROVE  View(who[c])'.balance = SaturatingAdd(View(who[c]).balance, amount)
  <2>1. who[c] \in Addrs /\ read[c] = View(who[c]).balance
    BY <1>1 DEF AddWrite, ControlInv, AloneInv, Knows
  <2>2. SaturatingAdd(read[c], amount) \in Balances
    BY SaturatingAddFacts, <1>1 DEF TypeOK
  <2>3. balance'[who[c]] = SaturatingAdd(read[c], amount) /\ UNCHANGED who
    BY <1>1, <2>1 DEF AddWrite, Put, TypeOK
  <2>4. balance'[who[c]] # None
    BY <2>2, <2>3, StateAssumption DEF Balances
  <2> QED
    BY <2>1, <2>3, <2>4 DEF View, Or
<1>2. TypeOK /\ ControlInv /\ AloneInv => Adds
  BY <1>1
<1> QED
  BY <1>2, HandlerInv, PTL DEF AddAccumulates

(* anvil_load_state, if neither a call nor a block comes in between, takes *)
(* no nonce back, whatever the dump says.                                  *)
THEOREM NonceTheorem == Spec => LoadKeepsNonce
<1> DEFINE Keeps == \A c \in Clients :
             overlapped = "no" /\ LoadWrite(c) /\ readAt[c] = best =>
                View(who[c])'.nonce >= View(who[c]).nonce
<1>1. ASSUME TypeOK, ControlInv, AloneInv, NEW c \in Clients, overlapped = "no",
             LoadWrite(c), readAt[c] = best
      PROVE  View(who[c])'.nonce >= View(who[c]).nonce
  <2>1. /\ who[c] \in Addrs /\ read[c] \in Nat /\ read[c] >= View(who[c]).nonce
    BY <1>1 DEF LoadWrite, ControlInv, Has, AloneInv, Knows, TypeOK
  <2>2. nonce'[who[c]] = read[c] /\ UNCHANGED who
    BY <1>1, <2>1 DEF LoadWrite, Put, TypeOK
  <2>3. nonce'[who[c]] # None
    BY <2>1, <2>2, StateAssumption
  <2> QED
    BY <2>1, <2>2, <2>3 DEF View, Or
<1>2. TypeOK /\ ControlInv /\ AloneInv => Keeps
  BY <1>1
<1> QED
  BY <1>2, HandlerInv, PTL DEF LoadKeepsNonce
=============================================================================
