------------------------------- MODULE IRLemmas -------------------------------
(***************************************************************************)
(* Lemmas about modules of the IR as data, for every set of values V: what *)
(* a well-typed one consists of, and what is left of it when the code of   *)
(* one block is exchanged.                                                 *)
(***************************************************************************)
EXTENDS IR, SequenceTheorems, TLAPS

Code(V) == Instructions(V, Nat \ {0})
Body(m, k, b) == m[k].blocks[b].insts
WithBody(m, k, b, t) == [m EXCEPT ![k].blocks[b].insts = t]

(* The types of an instruction and of a module, taken apart.               *)
LEMMA CodeShape ==
  ASSUME NEW V, NEW x \in Code(V)
  PROVE  /\ DOMAIN x.args = 1..Len(x.args)
         /\ \A a \in DOMAIN x.args : x.args[a] \in Operands(V)
         /\ DOMAIN x.targets = 1..Len(x.targets)
         /\ x.id = NoId \/ x.id \in V
  <1>1. \/ x.args = << >>
        \/ x.args \in [1..1 -> Operands(V)]
        \/ x.args \in [1..2 -> Operands(V)]
    BY DEF Code, Instructions
  <1>2. \/ x.targets = << >>
        \/ x.targets \in [1..1 -> Nat \ {0}]
        \/ x.targets \in [1..2 -> Nat \ {0}]
    BY DEF Code, Instructions
  <1>3. DOMAIN x.args = 1..Len(x.args) /\ \A a \in DOMAIN x.args : x.args[a] \in Operands(V)
    BY <1>1
  <1>4. DOMAIN x.targets = 1..Len(x.targets)
    BY <1>2
  <1>5. x.id = NoId \/ x.id \in V
    BY DEF Code, Instructions
  <1> QED BY <1>3, <1>4, <1>5

LEMMA ModuleShape ==
  ASSUME NEW V, NEW m \in Seq(Functions(V))
  PROVE  /\ DOMAIN m = 1..Len(m) /\ Len(m) \in Nat
         /\ \A k \in 1..Len(m) :
              /\ DOMAIN m[k].blocks = 1..Len(m[k].blocks) /\ Len(m[k].blocks) \in Nat
              /\ \A b \in 1..Len(m[k].blocks) :
                   /\ Body(m, k, b) \in Seq(Code(V))
                   /\ DOMAIN Body(m, k, b) = 1..Len(Body(m, k, b))
                   /\ Len(Body(m, k, b)) \in Nat
                   /\ \A j \in 1..Len(Body(m, k, b)) : Body(m, k, b)[j] \in Code(V)
  <1>1. DOMAIN m = 1..Len(m) /\ Len(m) \in Nat
    BY LenProperties
  <1>2. ASSUME NEW k \in 1..Len(m)
        PROVE  /\ DOMAIN m[k].blocks = 1..Len(m[k].blocks) /\ Len(m[k].blocks) \in Nat
               /\ \A b \in 1..Len(m[k].blocks) :
                    /\ Body(m, k, b) \in Seq(Code(V))
                    /\ DOMAIN Body(m, k, b) = 1..Len(Body(m, k, b))
                    /\ Len(Body(m, k, b)) \in Nat
                    /\ \A j \in 1..Len(Body(m, k, b)) : Body(m, k, b)[j] \in Code(V)
    <2>1. m[k] \in Functions(V)
      BY ElementOfSeq
    <2>2. m[k].blocks \in Seq(Blocks(V))
      BY <2>1 DEF Functions
    <2>3. DOMAIN m[k].blocks = 1..Len(m[k].blocks) /\ Len(m[k].blocks) \in Nat
      BY <2>2, LenProperties
    <2>4. ASSUME NEW b \in 1..Len(m[k].blocks)
          PROVE  /\ Body(m, k, b) \in Seq(Code(V))
                 /\ DOMAIN Body(m, k, b) = 1..Len(Body(m, k, b))
                 /\ Len(Body(m, k, b)) \in Nat
                 /\ \A j \in 1..Len(Body(m, k, b)) : Body(m, k, b)[j] \in Code(V)
      <3>1. m[k].blocks[b] \in Blocks(V)
        BY <2>2, ElementOfSeq
      <3>2. Body(m, k, b) \in Seq(Code(V))
        BY <3>1 DEF Blocks, Code, Body
      <3> QED BY <3>2, LenProperties, ElementOfSeq
    <2> QED BY <2>3, <2>4
  <1> QED BY <1>1, <1>2

LEMMA BodyExchanged ==
  ASSUME NEW V, NEW m \in Seq(Functions(V)),
         NEW k \in 1..Len(m), NEW b \in 1..Len(m[k].blocks),
         NEW t \in Seq(Code(V)), NEW n, n = WithBody(m, k, b, t)
  PROVE  /\ n \in Seq(Functions(V)) /\ Len(n) = Len(m)
         /\ \A f \in 1..Len(m) :
              /\ Len(n[f].blocks) = Len(m[f].blocks)
              /\ \A c \in 1..Len(m[f].blocks) :
                   Body(n, f, c) = IF f = k /\ c = b THEN t ELSE Body(m, f, c)
  <1> DEFINE blk == [m[k].blocks[b] EXCEPT !.insts = t]
             blocks == [m[k].blocks EXCEPT ![b] = blk]
             fun == [m[k] EXCEPT !.blocks = blocks]
  <1>1. m[k] \in [name : STRING, blocks : Seq(Blocks(V))]
    <2>1. m[k] \in Functions(V)
      BY ElementOfSeq
    <2> QED BY <2>1, Zenon DEF Functions
  <1>2. m[k].blocks \in Seq(Blocks(V)) /\ m[k].blocks[b] \in [name : STRING, insts : Seq(Code(V))]
    <2>1. m[k].blocks \in Seq(Blocks(V))
      BY <1>1
    <2>2. m[k].blocks[b] \in Blocks(V)
      BY <2>1, ElementOfSeq
    <2> QED BY <2>1, <2>2, Zenon DEF Blocks, Code
  <1>3. blk \in [name : STRING, insts : Seq(Code(V))] /\ blk.insts = t
    BY <1>2
  <1>4. blk \in Blocks(V)
    BY <1>3 DEF Blocks, Code
  <1>5. n = [m EXCEPT ![k] = fun]
    BY DEF WithBody
  <1> HIDE DEF blk
  <1>6. /\ blocks \in Seq(Blocks(V)) /\ Len(blocks) = Len(m[k].blocks)
        /\ \A c \in 1..Len(m[k].blocks) : blocks[c] = IF c = b THEN blk ELSE m[k].blocks[c]
    BY <1>2, <1>4, ExceptSeq
  <1> HIDE DEF blocks
  <1>7. fun \in Functions(V) /\ fun.blocks = blocks
    BY <1>1, <1>6 DEF Functions
  <1> HIDE DEF fun
  <1>8. /\ n \in Seq(Functions(V)) /\ Len(n) = Len(m)
        /\ \A f \in 1..Len(m) : n[f] = IF f = k THEN fun ELSE m[f]
    <2>1. fun \in Functions(V) /\ k \in 1..Len(m)
      BY <1>7
    <2>2. /\ [m EXCEPT ![k] = fun] \in Seq(Functions(V))
          /\ Len([m EXCEPT ![k] = fun]) = Len(m)
          /\ \A f \in 1..Len(m) : [m EXCEPT ![k] = fun][f] = IF f = k THEN fun ELSE m[f]
      BY <2>1, ExceptSeq
    <2> QED BY <1>5, <2>2, Zenon
  <1>9. ASSUME NEW f \in 1..Len(m)
        PROVE  /\ Len(n[f].blocks) = Len(m[f].blocks)
               /\ \A c \in 1..Len(m[f].blocks) :
                    Body(n, f, c) = IF f = k /\ c = b THEN t ELSE Body(m, f, c)
    BY <1>3, <1>6, <1>7, <1>8 DEF Body
  <1> QED BY <1>8, <1>9
=============================================================================
