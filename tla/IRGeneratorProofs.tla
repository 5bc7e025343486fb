-------------------------- MODULE IRGeneratorProofs --------------------------
(***************************************************************************)
(* Proofs about IRGenerator, for every set of analyzed trees that declare  *)
(* no function in a body: the visits keep to the function they are in, so  *)
(* the module they make is one that the optimizer and the back end can     *)
(* take.                                                                   *)
(***************************************************************************)
EXTENDS IRGenerator, IRLemmas, FiniteSetTheorems, WellFoundedInduction

-----------------------------------------------------------------------------
(* A module whose values are the instructions numbered below k.            *)
Below(k) == {NoId} \cup 1..(k - 1)

LEMMA OperandsGrow ==
  ASSUME NEW k \in Nat \ {0}, NEW l \in Nat, k <= l
  PROVE  Below(k) \subseteq Below(l) /\ Operands(Below(k)) \subseteq Operands(Below(l))
  <1>1. Below(k) \subseteq Below(l)
    BY DEF Below, NoId
  <1>2. ASSUME NEW o \in Operands(Below(k)) PROVE o \in Operands(Below(l))
    BY <1>1 DEF Operands
  <1> QED BY <1>1, <1>2

LEMMA CodeGrows ==
  ASSUME NEW k \in Nat \ {0}, NEW l \in Nat, k <= l
  PROVE  Code(Below(k)) \subseteq Code(Below(l))
  <1> DEFINE V == Below(k)
             W == Below(l)
             O == Operands(V)
             P == Operands(W)
             B == Nat \ {0}
  <1>1. V \subseteq W /\ O \subseteq P
    BY OperandsGrow
  <1>2. [1..1 -> O] \subseteq [1..1 -> P] /\ [1..2 -> O] \subseteq [1..2 -> P]
    <2> HIDE DEF O, P
    <2> QED BY <1>1
  <1> SUFFICES ASSUME NEW x \in Code(Below(k)) PROVE x \in Code(Below(l))
    OBVIOUS
  <1>3. \/ x \in [op : {"alloca"}, id : V, args : {<< >>}, targets : {<< >>}]
        \/ x \in [op : {"load"}, id : V, args : [1..1 -> O], targets : {<< >>}]
        \/ x \in [op : {"store"}, id : {NoId}, args : [1..2 -> O], targets : {<< >>}]
        \/ x \in [op : {"add", "sub"}, id : V, args : [1..2 -> O], targets : {<< >>}]
        \/ x \in [op : {"ret"}, id : {NoId}, args : {<< >>} \cup [1..1 -> O], targets : {<< >>}]
        \/ x \in [op : {"br"}, id : {NoId}, args : {<< >>}, targets : [1..1 -> B]]
        \/ x \in [op : {"condbr"}, id : {NoId}, args : [1..1 -> O], targets : [1..2 -> B]]
    BY DEF Code, Instructions
  <1>4. x \in Instructions(W, B)
    <2> HIDE DEF V, W, O, B
    <2>1. CASE x \in [op : {"alloca"}, id : V, args : {<< >>}, targets : {<< >>}]
      BY <1>1, <2>1 DEF Instructions
    <2>2. CASE x \in [op : {"load"}, id : V, args : [1..1 -> O], targets : {<< >>}]
      BY <1>1, <1>2, <2>2 DEF Instructions
    <2>3. CASE x \in [op : {"store"}, id : {NoId}, args : [1..2 -> O], targets : {<< >>}]
      BY <1>1, <1>2, <2>3 DEF Instructions
    <2>4. CASE x \in [op : {"add", "sub"}, id : V, args : [1..2 -> O], targets : {<< >>}]
      BY <1>1, <1>2, <2>4 DEF Instructions
    <2>5. CASE x \in [op : {"ret"}, id : {NoId}, args : {<< >>} \cup [1..1 -> O],
                      targets : {<< >>}]
      BY <1>1, <1>2, <2>5 DEF Instructions
    <2>6. CASE x \in [op : {"br"}, id : {NoId}, args : {<< >>}, targets : [1..1 -> B]]
      BY <2>6 DEF Instructions
    <2>7. CASE x \in [op : {"condbr"}, id : {NoId}, args : [1..1 -> O], targets : [1..2 -> B]]
      BY <1>1, <1>2, <2>7 DEF Instructions
    <2> QED BY <1>3, <2>1, <2>2, <2>3, <2>4, <2>5, <2>6, <2>7
  <1> QED BY <1>4 DEF Code

LEMMA FunctionsGrow ==
  ASSUME NEW k \in Nat \ {0}, NEW l \in Nat, k <= l
  PROVE  /\ Blocks(Below(k)) \subseteq Blocks(Below(l))
         /\ Functions(Below(k)) \subseteq Functions(Below(l))
         /\ Seq(Functions(Below(k))) \subseteq Seq(Functions(Below(l)))
  <1>1. ASSUME NEW S, NEW T, S \subseteq T PROVE Seq(S) \subseteq Seq(T)
    BY <1>1
  <1>2. Seq(Code(Below(k))) \subseteq Seq(Code(Below(l)))
    BY <1>1, CodeGrows
  <1>3. Blocks(Below(k)) \subseteq Blocks(Below(l))
    BY <1>2 DEF Blocks, Code
  <1>4. Seq(Blocks(Below(k))) \subseteq Seq(Blocks(Below(l)))
    BY <1>1, <1>3
  <1>5. Functions(Below(k)) \subseteq Functions(Below(l))
    BY <1>4 DEF Functions
  <1> QED BY <1>1, <1>3, <1>5

-----------------------------------------------------------------------------
(* What the generator promises of a module, and how each way of adding to  *)
(* it keeps the promise.                                                   *)
Has(m, f, v) ==
  \E b \in 1..Len(m[f].blocks) : \E j \in 1..Len(Body(m, f, b)) : Body(m, f, b)[j].id = v

Known(m, f, o) == o.imm \/ o = Null \/ Has(m, f, o.id)

OperandsKnown(m, f) ==
  \A b \in 1..Len(m[f].blocks) : \A j \in 1..Len(Body(m, f, b)) :
    \A a \in 1..Len(Body(m, f, b)[j].args) : Known(m, f, Body(m, f, b)[j].args[a])

ModuleOk(m, k) ==
  /\ m \in Seq(Functions(Below(k)))
  /\ \A f \in 1..Len(m) :
       BranchesInside(m[f]) /\ UsesFollowDefinition(m[f]) /\ OperandsKnown(m, f)

(* n has all that m has, at the same places.                               *)
Extends(m, n) ==
  /\ Len(m) <= Len(n)
  /\ \A f \in 1..Len(m) :
       /\ Len(m[f].blocks) <= Len(n[f].blocks)
       /\ \A v : Has(m, f, v) => Has(n, f, v)

LEMMA HasSmall ==
  ASSUME NEW k \in Nat \ {0}, NEW m \in Seq(Functions(Below(k))), NEW f \in 1..Len(m),
         NEW v, Has(m, f, v)
  PROVE  v \in Below(k)
  <1>0. PICK b \in 1..Len(m[f].blocks) : \E j \in 1..Len(Body(m, f, b)) : Body(m, f, b)[j].id = v
    BY DEF Has
  <1>1. PICK j \in 1..Len(Body(m, f, b)) : Body(m, f, b)[j].id = v
    BY <1>0
  <1>2. Body(m, f, b)[j] \in Code(Below(k))
    BY ModuleShape
  <1> QED BY <1>1, <1>2, CodeShape DEF Below

LEMMA UsesByBody ==
  ASSUME NEW m, NEW f,
         \A c \in 1..Len(m[f].blocks) :
           \A j \in 1..Len(Body(m, f, c)), i \in 1..Len(Body(m, f, c)) :
             \A a \in 1..Len(Body(m, f, c)[i].args) :
               Body(m, f, c)[j].id # NoId /\ Body(m, f, c)[i].args[a] = Ref(Body(m, f, c)[j].id)
                 => j < i
  PROVE  UsesFollowDefinition(m[f])
  <1> SUFFICES ASSUME NEW c \in 1..Len(m[f].blocks),
                      NEW j \in 1..Len(Body(m, f, c)), NEW i \in 1..Len(Body(m, f, c)),
                      Body(m, f, c)[j].id # NoId,
                      \E a \in 1..Len(Body(m, f, c)[i].args) :
                        Body(m, f, c)[i].args[a] = Ref(Body(m, f, c)[j].id)
               PROVE  j < i
    BY Zenon DEF UsesFollowDefinition, Body
  <1> QED OBVIOUS

LEMMA BranchesByBody ==
  ASSUME NEW m, NEW f,
         \A c \in 1..Len(m[f].blocks) : \A j \in 1..Len(Body(m, f, c)) :
           \A u \in 1..Len(Body(m, f, c)[j].targets) :
             Body(m, f, c)[j].targets[u] \in 1..Len(m[f].blocks)
  PROVE  BranchesInside(m[f])
  BY Zenon DEF BranchesInside, Body

LEMMA SameFunction ==
  ASSUME NEW m, NEW n, NEW f, n[f] = m[f]
  PROVE  /\ Len(n[f].blocks) = Len(m[f].blocks)
         /\ \A v : Has(m, f, v) => Has(n, f, v)
         /\ BranchesInside(m[f]) => BranchesInside(n[f])
         /\ UsesFollowDefinition(m[f]) => UsesFollowDefinition(n[f])
         /\ OperandsKnown(m, f) => OperandsKnown(n, f)
  <1>1. \A b : Body(n, f, b) = Body(m, f, b)
    BY DEF Body
  <1>2. \A v : Has(m, f, v) <=> Has(n, f, v)
    BY <1>1 DEF Has
  <1>3. \A o : Known(m, f, o) <=> Known(n, f, o)
    BY <1>2 DEF Known
  <1>4. OperandsKnown(m, f) => OperandsKnown(n, f)
    BY <1>1, <1>3 DEF OperandsKnown
  <1> QED BY <1>2, <1>4

(* One more instruction at the end of a block.                             *)
LEMMA Appended ==
  ASSUME NEW k \in Nat \ {0}, NEW l \in Nat \ {0}, k <= l,
         NEW m, ModuleOk(m, k), NEW f \in 1..Len(m), NEW b \in 1..Len(m[f].blocks),
         NEW x \in Code(Below(l)), x.id = NoId \/ x.id \notin Below(k),
         \A a \in 1..Len(x.args) : Known(m, f, x.args[a]),
         \A t \in 1..Len(x.targets) : x.targets[t] \in 1..Len(m[f].blocks),
         NEW n, n = WithBody(m, f, b, Append(Body(m, f, b), x))
  PROVE  ModuleOk(n, l) /\ Len(n) = Len(m) /\ Extends(m, n) /\ Has(n, f, x.id)
  <1> DEFINE s == Body(m, f, b)
             t == Append(s, x)
  <1>1. m \in Seq(Functions(Below(l))) /\ m \in Seq(Functions(Below(k)))
    BY FunctionsGrow DEF ModuleOk
  <1>2. /\ s \in Seq(Code(Below(l))) /\ Len(s) \in Nat
        /\ t \in Seq(Code(Below(l))) /\ Len(t) = Len(s) + 1
        /\ \A j \in 1..Len(s) : t[j] = s[j]
        /\ t[Len(s) + 1] = x
    <2>1. s \in Seq(Code(Below(l))) /\ Len(s) \in Nat
      BY <1>1, ModuleShape
    <2> HIDE DEF s
    <2> QED BY <2>1, AppendProperties
  <1>3. n = WithBody(m, f, b, t)
    OBVIOUS
  <1> HIDE DEF t
  <1>4. /\ n \in Seq(Functions(Below(l))) /\ Len(n) = Len(m)
        /\ \A g \in 1..Len(m) :
             /\ Len(n[g].blocks) = Len(m[g].blocks)
             /\ \A c \in 1..Len(m[g].blocks) :
                  Body(n, g, c) = IF g = f /\ c = b THEN t ELSE Body(m, g, c)
    BY <1>1, <1>2, <1>3, BodyExchanged, SMTT(30)
  <1> HIDE DEF s
  <1>5. \A j \in 1..Len(t) : j \in 1..Len(s) \/ j = Len(s) + 1
    BY <1>2
  <1>6. ASSUME NEW g \in 1..Len(m), NEW c \in 1..Len(m[g].blocks), NEW j \in 1..Len(Body(n, g, c))
        PROVE  \/ j \in 1..Len(Body(m, g, c)) /\ Body(n, g, c)[j] = Body(m, g, c)[j]
               \/ g = f /\ c = b /\ j = Len(s) + 1 /\ Body(n, g, c)[j] = x
    <2>1. CASE g = f /\ c = b
      <3>1. Body(n, g, c) = t /\ Body(m, g, c) = s
        BY <1>4, <2>1 DEF s
      <3> QED BY <1>2, <1>5, <2>1, <3>1
    <2>2. CASE ~(g = f /\ c = b)
      <3>1. Body(n, g, c) = Body(m, g, c)
        BY <1>4, <2>2
      <3> QED BY <3>1
    <2> QED BY <2>1, <2>2
  <1>7. ASSUME NEW g \in 1..Len(m), NEW c \in 1..Len(m[g].blocks), NEW j \in 1..Len(Body(m, g, c))
        PROVE  j \in 1..Len(Body(n, g, c)) /\ Body(n, g, c)[j] = Body(m, g, c)[j]
    <2>1. CASE g = f /\ c = b
      <3>1. Body(n, g, c) = t /\ Body(m, g, c) = s
        BY <1>4, <2>1 DEF s
      <3> QED BY <1>2, <3>1
    <2>2. CASE ~(g = f /\ c = b)
      BY <1>4, <2>2
    <2> QED BY <2>1, <2>2
  <1>8. ASSUME NEW g \in 1..Len(m), NEW v, Has(m, g, v)
        PROVE  Has(n, g, v)
    <2>1. PICK c \in 1..Len(m[g].blocks) : \E j \in 1..Len(Body(m, g, c)) : Body(m, g, c)[j].id = v
      BY <1>8 DEF Has
    <2>2. PICK j \in 1..Len(Body(m, g, c)) : Body(m, g, c)[j].id = v
      BY <2>1
    <2> QED BY <1>4, <1>7, <2>2 DEF Has
  <1>9. Has(n, f, x.id)
    <2>1. Body(n, f, b) = t /\ b \in 1..Len(n[f].blocks)
      BY <1>4
    <2>2. Len(s) + 1 \in 1..Len(t)
      BY <1>2
    <2> QED BY <1>2, <2>1, <2>2 DEF Has
  <1>10. Extends(m, n)
    <2>1. ASSUME NEW g \in 1..Len(m) PROVE Len(m[g].blocks) \in Nat /\ Len(m) \in Nat
      BY <1>1, ModuleShape
    <2>2. Len(m) \in Nat
      BY <1>1, ModuleShape
    <2> QED BY <1>4, <1>8, <2>1, <2>2 DEF Extends
  <1>11. ASSUME NEW g \in 1..Len(m), NEW o, Known(m, g, o)
         PROVE  Known(n, g, o)
    BY <1>8, <1>11 DEF Known
  <1>12. ASSUME NEW g \in 1..Len(n)
         PROVE  BranchesInside(n[g]) /\ UsesFollowDefinition(n[g]) /\ OperandsKnown(n, g)
    <2>1. /\ g \in 1..Len(m) /\ Len(n[g].blocks) = Len(m[g].blocks)
          /\ BranchesInside(m[g]) /\ UsesFollowDefinition(m[g]) /\ OperandsKnown(m, g)
      BY <1>4 DEF ModuleOk
    <2>2. BranchesInside(n[g])
      <3> SUFFICES ASSUME NEW c \in 1..Len(n[g].blocks), NEW j \in 1..Len(Body(n, g, c)),
                          NEW u \in 1..Len(Body(n, g, c)[j].targets)
                   PROVE  Body(n, g, c)[j].targets[u] \in 1..Len(n[g].blocks)
        BY DEF BranchesInside, Body
      <3>1. CASE j \in 1..Len(Body(m, g, c)) /\ Body(n, g, c)[j] = Body(m, g, c)[j]
        BY <2>1, <3>1 DEF BranchesInside, Body
      <3>2. CASE g = f /\ Body(n, g, c)[j] = x
        BY <2>1, <3>2
      <3> QED BY <1>6, <2>1, <3>1, <3>2
    <2>3. UsesFollowDefinition(n[g])
      <3> SUFFICES ASSUME NEW c \in 1..Len(n[g].blocks),
                          NEW j \in 1..Len(Body(n, g, c)), NEW i \in 1..Len(Body(n, g, c)),
                          Body(n, g, c)[j].id # NoId,
                          NEW a \in 1..Len(Body(n, g, c)[i].args),
                          Body(n, g, c)[i].args[a] = Ref(Body(n, g, c)[j].id)
                   PROVE  j < i
        BY UsesByBody
      <3>1. c \in 1..Len(m[g].blocks)
        BY <2>1
      <3>2. Known(m, g, Body(n, g, c)[i].args[a])
        <4>1. CASE i \in 1..Len(Body(m, g, c)) /\ Body(n, g, c)[i] = Body(m, g, c)[i]
          BY <2>1, <3>1, <4>1 DEF OperandsKnown
        <4>2. CASE g = f /\ Body(n, g, c)[i] = x
          BY <4>2
        <4> QED BY <1>6, <2>1, <3>1, <4>1, <4>2
      <3>3. Has(m, g, Body(n, g, c)[j].id)
        BY <3>2, SMTT(30) DEF Known, Ref, Null
      <3>4. Body(n, g, c)[j].id \in Below(k)
        BY <1>1, <2>1, <3>3, HasSmall
      <3>5. j \in 1..Len(Body(m, g, c)) /\ Body(n, g, c)[j] = Body(m, g, c)[j]
        <4>1. Body(n, g, c)[j] # x
          BY <3>4
        <4> QED BY <1>6, <2>1, <3>1, <4>1
      <3>6. CASE i \in 1..Len(Body(m, g, c)) /\ Body(n, g, c)[i] = Body(m, g, c)[i]
        BY <2>1, <3>1, <3>5, <3>6 DEF UsesFollowDefinition, Body
      <3>7. CASE g = f /\ c = b /\ i = Len(s) + 1
        <4>1. Body(m, g, c) = s
          BY <3>7 DEF s
        <4> QED BY <1>2, <3>5, <3>7, <4>1
      <3> QED BY <1>6, <2>1, <3>1, <3>6, <3>7
    <2>4. OperandsKnown(n, g)
      <3> SUFFICES ASSUME NEW c \in 1..Len(n[g].blocks), NEW j \in 1..Len(Body(n, g, c)),
                          NEW a \in 1..Len(Body(n, g, c)[j].args)
                   PROVE  Known(n, g, Body(n, g, c)[j].args[a])
        BY DEF OperandsKnown
      <3>1. CASE j \in 1..Len(Body(m, g, c)) /\ Body(n, g, c)[j] = Body(m, g, c)[j]
        BY <1>11, <2>1, <3>1 DEF OperandsKnown
      <3>2. CASE g = f /\ Body(n, g, c)[j] = x
        BY <1>11, <2>1, <3>2
      <3> QED BY <1>6, <2>1, <3>1, <3>2
    <2> QED BY <2>2, <2>3, <2>4
  <1>13. ModuleOk(n, l)
    BY <1>4, <1>12 DEF ModuleOk
  <1> QED BY <1>4, <1>9, <1>10, <1>13

(* New blocks are empty, and come behind those that there are.             *)
LEMMA BlocksCreated ==
  ASSUME NEW k \in Nat \ {0}, NEW m, ModuleOk(m, k), NEW f \in 1..Len(m),
         NEW names \in Seq(STRING), NEW n, n = CreateBlocks(m, f, names)
  PROVE  /\ ModuleOk(n, k) /\ Len(n) = Len(m) /\ Extends(m, n)
         /\ Len(n[f].blocks) = Len(m[f].blocks) + Len(names)
         /\ \A g \in 1..Len(m) : g # f => n[g] = m[g]
         /\ \A b \in 1..Len(m[f].blocks) : Body(n, f, b) = Body(m, f, b)
         /\ \A b \in (Len(m[f].blocks) + 1)..Len(n[f].blocks) : Body(n, f, b) = << >>
  <1> DEFINE new == [q \in DOMAIN names |-> Block(names[q], << >>)]
             blocks == m[f].blocks \o new
             fun == [m[f] EXCEPT !.blocks = blocks]
  <1>1. /\ m \in Seq(Functions(Below(k))) /\ m[f] \in Functions(Below(k))
        /\ m[f].blocks \in Seq(Blocks(Below(k))) /\ Len(m[f].blocks) \in Nat
    <2>1. m \in Seq(Functions(Below(k))) /\ m[f] \in Functions(Below(k))
      BY ElementOfSeq DEF ModuleOk
    <2>2. m[f].blocks \in Seq(Blocks(Below(k)))
      BY <2>1 DEF Functions
    <2> QED BY <2>1, <2>2, LenProperties
  <1>2. /\ new \in Seq(Blocks(Below(k))) /\ Len(new) = Len(names)
        /\ \A q \in 1..Len(names) : new[q].insts = << >>
    <2>1. ASSUME NEW q \in DOMAIN names
          PROVE  Block(names[q], << >>) \in Blocks(Below(k))
      <3>1. names[q] \in STRING /\ << >> \in Seq(Code(Below(k)))
        OBVIOUS
      <3> QED BY <3>1 DEF Block, Blocks, Code
    <2>2. DOMAIN names = 1..Len(names) /\ Len(names) \in Nat
      OBVIOUS
    <2>3. \A q \in 1..Len(names) : new[q].insts = << >>
      BY <2>2 DEF Block
    <2>4. new \in [1..Len(names) -> Blocks(Below(k))]
      BY <2>1, <2>2
    <2> HIDE DEF new
    <2> QED BY <2>2, <2>3, <2>4
  <1>3. n = [m EXCEPT ![f] = fun]
    BY DEF CreateBlocks
  <1> HIDE DEF new
  <1>4. /\ blocks \in Seq(Blocks(Below(k))) /\ Len(blocks) = Len(m[f].blocks) + Len(names)
        /\ \A b \in 1..Len(m[f].blocks) : blocks[b] = m[f].blocks[b]
        /\ \A b \in (Len(m[f].blocks) + 1)..Len(blocks) : blocks[b].insts = << >>
    <2> DEFINE old == m[f].blocks
    <2>0. old \in Seq(Blocks(Below(k))) /\ new \in Seq(Blocks(Below(k))) /\ blocks = old \o new
      BY <1>1, <1>2
    <2> HIDE DEF old, blocks
    <2>1. /\ blocks \in Seq(Blocks(Below(k))) /\ Len(blocks) = Len(old) + Len(new)
          /\ \A b \in 1..(Len(old) + Len(new)) :
               blocks[b] = IF b <= Len(old) THEN old[b] ELSE new[b - Len(old)]
      BY <2>0, ConcatProperties
    <2> USE DEF old
    <2>2. Len(names) \in Nat
      OBVIOUS
    <2>3. ASSUME NEW b \in 1..Len(m[f].blocks)
          PROVE  blocks[b] = m[f].blocks[b]
      <3>1. b \in 1..(Len(old) + Len(new)) /\ b <= Len(old)
        BY <1>1, <1>2, <2>2
      <3> QED BY <2>1, <3>1
    <2>4. ASSUME NEW b \in (Len(m[f].blocks) + 1)..Len(blocks)
          PROVE  blocks[b].insts = << >>
      <3>1. b - Len(m[f].blocks) \in 1..Len(names) /\ ~(b <= Len(m[f].blocks))
        BY <1>1, <1>2, <2>1, <2>2
      <3>2. blocks[b] = new[b - Len(m[f].blocks)]
        BY <1>1, <1>2, <2>1, <2>2, <3>1
      <3> QED BY <1>2, <3>1, <3>2
    <2> QED BY <1>2, <2>1, <2>3, <2>4
  <1> HIDE DEF blocks
  <1>5. fun \in Functions(Below(k)) /\ fun.blocks = blocks
    BY <1>1, <1>4 DEF Functions
  <1> HIDE DEF fun
  <1>6. /\ n \in Seq(Functions(Below(k))) /\ Len(n) = Len(m)
        /\ \A g \in 1..Len(m) : n[g] = IF g = f THEN fun ELSE m[g]
    BY <1>1, <1>3, <1>5, ExceptSeq
  <1>7. /\ n[f].blocks = blocks
        /\ \A g \in 1..Len(m) : g # f => n[g] = m[g]
    BY <1>5, <1>6
  <1>8. \A b \in 1..Len(m[f].blocks) : b \in 1..Len(blocks) /\ Body(n, f, b) = Body(m, f, b)
    BY <1>1, <1>4, <1>7 DEF Body
  <1>9. ASSUME NEW b \in 1..Len(blocks)
        PROVE  b \in 1..Len(m[f].blocks) \/ Body(n, f, b) = << >>
    <2>1. CASE b \in (Len(m[f].blocks) + 1)..Len(blocks)
      BY <1>4, <1>7, <2>1 DEF Body
    <2>2. CASE b \notin (Len(m[f].blocks) + 1)..Len(blocks)
      BY <1>1, <1>4, <2>2
    <2> QED BY <2>1, <2>2
  <1>10. ASSUME NEW v, Has(m, f, v)
         PROVE  Has(n, f, v)
    <2>1. PICK c \in 1..Len(m[f].blocks) : \E j \in 1..Len(Body(m, f, c)) : Body(m, f, c)[j].id = v
      BY <1>10 DEF Has
    <2>2. c \in 1..Len(n[f].blocks) /\ Body(n, f, c) = Body(m, f, c)
      BY <1>7, <1>8
    <2> QED BY <2>1, <2>2 DEF Has
  <1>11. ASSUME NEW g \in 1..Len(m), g # f
         PROVE  /\ Len(n[g].blocks) = Len(m[g].blocks)
                /\ \A v : Has(m, g, v) => Has(n, g, v)
                /\ BranchesInside(n[g]) /\ UsesFollowDefinition(n[g]) /\ OperandsKnown(n, g)
    <2>1. n[g] = m[g]
      BY <1>7, <1>11
    <2>2. BranchesInside(m[g]) /\ UsesFollowDefinition(m[g]) /\ OperandsKnown(m, g)
      BY DEF ModuleOk
    <2> QED BY <2>1, <2>2, SameFunction
  <1>12. Extends(m, n)
    <2>1. /\ Len(m) <= Len(n) /\ Len(m[f].blocks) <= Len(n[f].blocks)
          /\ \A g \in 1..Len(m) : Len(m[g].blocks) <= Len(m[g].blocks)
      <3>1. Len(m) \in Nat /\ \A g \in 1..Len(m) : Len(m[g].blocks) \in Nat
        BY <1>1, ModuleShape
      <3>2. Len(blocks) >= Len(m[f].blocks)
        BY <1>1, <1>4
      <3> QED BY <1>1, <1>6, <1>7, <3>1, <3>2
    <2> QED BY <1>10, <1>11, <2>1 DEF Extends
  <1>13. Len(blocks) \in Nat /\ Len(m[f].blocks) <= Len(blocks)
    BY <1>1, <1>4
  <1>14. BranchesInside(n[f]) /\ UsesFollowDefinition(n[f]) /\ OperandsKnown(n, f)
    <2>1. BranchesInside(m[f]) /\ UsesFollowDefinition(m[f]) /\ OperandsKnown(m, f)
      BY DEF ModuleOk
    <2>2. BranchesInside(n[f])
      <3> SUFFICES ASSUME NEW c \in 1..Len(blocks), NEW j \in 1..Len(Body(n, f, c)),
                          NEW u \in 1..Len(Body(n, f, c)[j].targets)
                   PROVE  Body(n, f, c)[j].targets[u] \in 1..Len(blocks)
        BY <1>7, BranchesByBody
      <3>1. c \in 1..Len(m[f].blocks) /\ Body(n, f, c) = Body(m, f, c)
        BY <1>8, <1>9
      <3>2. Body(m, f, c)[j].targets[u] \in 1..Len(m[f].blocks)
        BY <2>1, <3>1 DEF BranchesInside, Body
      <3> QED BY <1>1, <1>13, <3>1, <3>2, SMTT(30)
    <2>3. UsesFollowDefinition(n[f])
      <3> SUFFICES ASSUME NEW c \in 1..Len(blocks),
                          NEW j \in 1..Len(Body(n, f, c)), NEW i \in 1..Len(Body(n, f, c)),
                          NEW a \in 1..Len(Body(n, f, c)[i].args),
                          Body(n, f, c)[j].id # NoId,
                          Body(n, f, c)[i].args[a] = Ref(Body(n, f, c)[j].id)
                   PROVE  j < i
        BY <1>7, UsesByBody
      <3>1. c \in 1..Len(m[f].blocks) /\ Body(n, f, c) = Body(m, f, c)
        BY <1>8, <1>9
      <3> QED BY <2>1, <3>1 DEF UsesFollowDefinition, Body
    <2>4. OperandsKnown(n, f)
      <3> SUFFICES ASSUME NEW c \in 1..Len(blocks), NEW j \in 1..Len(Body(n, f, c)),
                          NEW a \in 1..Len(Body(n, f, c)[j].args)
                   PROVE  Known(n, f, Body(n, f, c)[j].args[a])
        BY <1>7 DEF OperandsKnown
      <3>1. c \in 1..Len(m[f].blocks) /\ Body(n, f, c) = Body(m, f, c)
        BY <1>8, <1>9
      <3>2. Known(m, f, Body(n, f, c)[j].args[a])
        BY <2>1, <3>1 DEF OperandsKnown
      <3> QED BY <1>10, <3>2 DEF Known
    <2> QED BY <2>2, <2>3, <2>4
  <1>15. ModuleOk(n, k)
    BY <1>6, <1>11, <1>14 DEF ModuleOk
  <1>16. \A b \in (Len(m[f].blocks) + 1)..Len(blocks) : Body(n, f, b) = << >>
    BY <1>4, <1>7 DEF Body
  <1> QED BY <1>4, <1>6, <1>7, <1>8, <1>12, <1>15, <1>16

(* A function begins without a branch or an operand.                       *)
Plain(fun) ==
  \A b \in 1..Len(fun.blocks) : \A j \in 1..Len(fun.blocks[b].insts) :
    fun.blocks[b].insts[j].args = << >> /\ fun.blocks[b].insts[j].targets = << >>

WithFunction(m, fun) == Append(m, fun)

LEMMA FunctionAppended ==
  ASSUME NEW k \in Nat \ {0}, NEW l \in Nat \ {0}, k <= l, NEW m, ModuleOk(m, k),
         NEW fun \in Functions(Below(l)), Plain(fun),
         NEW n, n = WithFunction(m, fun)
  PROVE  /\ ModuleOk(n, l) /\ Len(n) = Len(m) + 1 /\ Extends(m, n)
         /\ n[Len(m) + 1] = fun
  <1>1. m \in Seq(Functions(Below(l))) /\ Len(m) \in Nat
    BY FunctionsGrow, LenProperties DEF ModuleOk
  <1>2. /\ n \in Seq(Functions(Below(l))) /\ Len(n) = Len(m) + 1
        /\ \A f \in 1..Len(m) : n[f] = m[f]
        /\ n[Len(m) + 1] = fun
    BY <1>1, AppendProperties DEF WithFunction
  <1>3. ASSUME NEW f \in 1..Len(m)
        PROVE  /\ Len(n[f].blocks) = Len(m[f].blocks) /\ Len(m[f].blocks) \in Nat
               /\ \A v : Has(m, f, v) => Has(n, f, v)
               /\ BranchesInside(n[f]) /\ UsesFollowDefinition(n[f]) /\ OperandsKnown(n, f)
    <2>1. n[f] = m[f] /\ Len(m[f].blocks) \in Nat
      BY <1>1, <1>2, ModuleShape
    <2>2. BranchesInside(m[f]) /\ UsesFollowDefinition(m[f]) /\ OperandsKnown(m, f)
      BY DEF ModuleOk
    <2> QED BY <2>1, <2>2, SameFunction
  <1>4. Extends(m, n)
    <2>1. \A f \in 1..Len(m) : Len(m[f].blocks) <= Len(n[f].blocks)
      BY <1>3
    <2>2. Len(m) <= Len(n)
      BY <1>1, <1>2
    <2> QED BY <1>3, <2>1, <2>2 DEF Extends
  <1>5. ASSUME NEW f, f = Len(m) + 1
        PROVE  BranchesInside(n[f]) /\ UsesFollowDefinition(n[f]) /\ OperandsKnown(n, f)
    <2>1. n[f] = fun
      BY <1>2, <1>5
    <2>2. \A c \in 1..Len(n[f].blocks) : \A j \in 1..Len(Body(n, f, c)) :
            /\ 1..Len(Body(n, f, c)[j].args) = {}
            /\ 1..Len(Body(n, f, c)[j].targets) = {}
      BY <2>1, SMTT(30) DEF Body, Plain
    <2>3. BranchesInside(n[f])
      BY <2>2, BranchesByBody
    <2>4. UsesFollowDefinition(n[f])
      BY <2>2, UsesByBody
    <2>5. OperandsKnown(n, f)
      BY <2>2 DEF OperandsKnown
    <2> QED BY <2>3, <2>4, <2>5
  <1>6. \A f \in 1..Len(n) : f \in 1..Len(m) \/ f = Len(m) + 1
    BY <1>1, <1>2
  <1> QED BY <1>2, <1>3, <1>4, <1>5, <1>6 DEF ModuleOk

-----------------------------------------------------------------------------
(* The insertion point.  Without one, nothing is inserted.                 *)
PlaceOk(m, at) ==
  at = NoBlock \/ \E f \in 1..Len(m) : \E b \in 1..Len(m[f].blocks) : at = <<f, b>>

Good(m, at, o) == at = NoBlock \/ Known(m, at[1], o)

LEMMA Inserted ==
  ASSUME NEW k \in Nat \ {0}, NEW l \in Nat \ {0}, k <= l,
         NEW m, ModuleOk(m, k), NEW at, PlaceOk(m, at),
         NEW x \in Code(Below(l)), x.id = NoId \/ x.id \notin Below(k),
         \A a \in 1..Len(x.args) : Good(m, at, x.args[a]),
         \A t \in 1..Len(x.targets) :
           at # NoBlock => x.targets[t] \in 1..Len(m[at[1]].blocks),
         NEW n, n = Insert(m, at, <<x>>)
  PROVE  ModuleOk(n, l) /\ Len(n) = Len(m) /\ Extends(m, n) /\ Good(n, at, Ref(x.id))
  <1>1. CASE at = NoBlock
    <2>1. n = m
      BY <1>1 DEF Insert
    <2>2. ModuleOk(m, l)
      BY FunctionsGrow DEF ModuleOk
    <2>3. Extends(m, m)
      <3>1. Len(m) \in Nat /\ \A f \in 1..Len(m) : Len(m[f].blocks) \in Nat
        BY ModuleShape DEF ModuleOk
      <3> QED BY <3>1 DEF Extends
    <2> QED BY <1>1, <2>1, <2>2, <2>3 DEF Good
  <1>2. CASE at # NoBlock
    <2>1. PICK f \in 1..Len(m) : \E b \in 1..Len(m[f].blocks) : at = <<f, b>>
      BY <1>2 DEF PlaceOk
    <2>2. PICK b \in 1..Len(m[f].blocks) : at = <<f, b>>
      BY <2>1
    <2>3. at[1] = f /\ at[2] = b
      BY <2>2
    <2>4. n = WithBody(m, f, b, Body(m, f, b) \o <<x>>)
      BY <1>2, <2>3, Zenon DEF Insert, WithBody, Body
    <2>5. Body(m, f, b) \in Seq(Code(Below(l)))
      <3>1. m \in Seq(Functions(Below(l)))
        BY FunctionsGrow DEF ModuleOk
      <3> QED BY <3>1, ModuleShape
    <2>6. Body(m, f, b) \o <<x>> = Append(Body(m, f, b), x)
      BY <2>5, AppendIsConcat
    <2>7. n = WithBody(m, f, b, Append(Body(m, f, b), x))
      BY <2>4, <2>6, Zenon
    <2>8. \A a \in 1..Len(x.args) : Known(m, f, x.args[a])
      BY <1>2, <2>3 DEF Good
    <2>9. \A t \in 1..Len(x.targets) : x.targets[t] \in 1..Len(m[f].blocks)
      BY <1>2, <2>3
    <2>10. ModuleOk(n, l) /\ Len(n) = Len(m) /\ Extends(m, n) /\ Has(n, f, x.id)
      BY <2>7, <2>8, <2>9, Appended
    <2>11. Good(n, at, Ref(x.id))
      BY <2>3, <2>10 DEF Good, Known, Ref
    <2> QED BY <2>10, <2>11
  <1> QED BY <1>1, <1>2

LEMMA ExtendsKeeps ==
  ASSUME NEW k \in Nat \ {0}, NEW l \in Nat \ {0}, NEW m, ModuleOk(m, k), NEW n, ModuleOk(n, l),
         Extends(m, n), NEW at, PlaceOk(m, at)
  PROVE  /\ PlaceOk(n, at)
         /\ \A o : Good(m, at, o) => Good(n, at, o)
  <1>1. CASE at = NoBlock
    BY <1>1 DEF PlaceOk, Good
  <1>2. CASE at # NoBlock
    <2>1. PICK f \in 1..Len(m) : \E b \in 1..Len(m[f].blocks) : at = <<f, b>>
      BY <1>2 DEF PlaceOk
    <2>2. PICK b \in 1..Len(m[f].blocks) : at = <<f, b>>
      BY <2>1
    <2>3. f \in 1..Len(n) /\ b \in 1..Len(n[f].blocks)
      <3>1. Len(m) \in Nat /\ Len(n) \in Nat
        BY ModuleShape DEF ModuleOk
      <3>2. f \in 1..Len(n)
        BY <3>1 DEF Extends
      <3>3. Len(m[f].blocks) \in Nat /\ Len(n[f].blocks) \in Nat
        BY <3>2, ModuleShape DEF ModuleOk
      <3> QED BY <3>2, <3>3 DEF Extends
    <2>4. PlaceOk(n, at)
      BY <2>2, <2>3 DEF PlaceOk
    <2>5. ASSUME NEW o, Good(m, at, o) PROVE Good(n, at, o)
      <3>1. Known(m, f, o) /\ at[1] = f
        BY <1>2, <2>2, <2>5 DEF Good
      <3> QED BY <3>1 DEF Good, Known, Extends
    <2> QED BY <2>4, <2>5
  <1> QED BY <1>1, <1>2

LEMMA ExtendsTwice ==
  ASSUME NEW m, NEW n, NEW r, Extends(m, n), Extends(n, r), Len(m) \in Nat, Len(n) = Len(m),
         Len(r) = Len(n),
         \A f \in 1..Len(m) : /\ Len(m[f].blocks) \in Nat /\ Len(n[f].blocks) \in Nat
                              /\ Len(r[f].blocks) \in Nat
  PROVE  Extends(m, r)
  <1>1. \A f \in 1..Len(m) : Len(m[f].blocks) <= Len(r[f].blocks)
    BY DEF Extends
  <1>2. \A f \in 1..Len(m) : \A v : Has(m, f, v) => Has(r, f, v)
    BY DEF Extends
  <1> QED BY <1>1, <1>2 DEF Extends

-----------------------------------------------------------------------------
(* The tree, and the list of tasks.                                        *)
OpenKinds == {"unit", "function", "method", "record"}
KindOf(a, t) == a[t.node].kind
Opens(a, t) == t.do = "visit" /\ KindOf(a, t) \in OpenKinds
Declares(a, t) == t.do = "visit" /\ KindOf(a, t) \in DeclKinds
InBody(a, t) == t.blocks # << >> \/ (t.do = "visit" /\ KindOf(a, t) \in StmtKinds)

(* Which tasks read lastValue, and which leave it as the value of an       *)
(* expression.                                                             *)
Reads(t) == t.do \in {"store", "ret", "branch", "loop", "offset", "assign", "rhs", "combine"}
Yields(a, t) ==
  \/ t.do \in {"offset", "assign", "rhs", "combine"}
  \/ t.do = "visit" /\ KindOf(a, t) \in ExprKinds

TaskSet(a) ==
  [do : {"visit", "store", "ret", "branch", "endThen", "endElse", "loop", "endBody",
         "offset", "assign", "rhs", "combine"},
   node : DOMAIN a, val : Operands(Nat), func : Nat, blocks : Seq(Nat \ {0})]

TaskOk(a, t) ==
  /\ t.do = "visit" => t.val = Null
  /\ t.blocks = << >> => t.func = 0
  /\ t.do \notin {"branch", "endThen", "endElse", "loop", "endBody"} => t.blocks = << >>
  /\ t.do \in {"branch", "endThen", "endElse"} =>
       KindOf(a, t) = "if" /\ Len(t.blocks) = Len(a[t.node].kids)
  /\ t.do \in {"loop", "endBody"} => KindOf(a, t) = "while" /\ Len(t.blocks) = 3
  /\ t.do \in {"assign", "rhs", "combine"} => KindOf(a, t) = "binary"

(* What declares comes behind what opens a function; what reads a value    *)
(* comes behind what yields it.                                            *)
Line(a, ts) ==
  /\ ts \in Seq(TaskSet(a))
  /\ \A p \in 1..Len(ts) : TaskOk(a, ts[p])
  /\ \A p, q \in 1..Len(ts) : p < q /\ Opens(a, ts[p]) => Declares(a, ts[q])
  /\ \A p \in 2..Len(ts) : Reads(ts[p]) => Yields(a, ts[p - 1])

(* The first task gives way to others.                                     *)
LEMMA Replaced ==
  ASSUME NEW a, NEW ts, Line(a, ts), ts # << >>, NEW new, Line(a, new),
         \A p \in 1..Len(new) : Opens(a, new[p]) => Opens(a, Head(ts)),
         new # << >> /\ Yields(a, Head(ts)) => Yields(a, new[Len(new)]),
         NEW next, next = new \o Tail(ts)
  PROVE  /\ Line(a, next)
         /\ \A p \in 1..Len(next) :
              \/ \E q \in 1..Len(new) : next[p] = new[q]
              \/ \E q \in 2..Len(ts) : next[p] = ts[q]
         /\ next # << >> /\ Reads(next[1]) =>
              \/ new # << >> /\ next[1] = new[1]
              \/ new = << >> /\ Yields(a, Head(ts))
  <1> DEFINE S == TaskSet(a)
             tl == Tail(ts)
  <1>1. /\ ts \in Seq(S) /\ new \in Seq(S) /\ Len(ts) \in Nat /\ Len(ts) >= 1 /\ Len(new) \in Nat
        /\ Head(ts) = ts[1]
    <2>1. ts \in Seq(S) /\ new \in Seq(S)
      BY DEF Line
    <2> HIDE DEF S
    <2> QED BY <2>1, EmptySeq
  <1> HIDE DEF S
  <1>2. /\ tl \in Seq(S) /\ Len(tl) = Len(ts) - 1
        /\ \A p \in 1..(Len(ts) - 1) : tl[p] = ts[p + 1]
    BY <1>1, HeadTailProperties
  <1> HIDE DEF tl
  <1>3. /\ next \in Seq(S) /\ Len(next) = Len(new) + (Len(ts) - 1)
        /\ \A p \in 1..(Len(new) + Len(tl)) :
             next[p] = IF p <= Len(new) THEN new[p] ELSE tl[p - Len(new)]
    <2>1. next = new \o tl
      BY DEF tl
    <2>2. new \in Seq(S) /\ tl \in Seq(S) /\ Len(tl) = Len(ts) - 1
      BY <1>1, <1>2
    <2>3. /\ next \in Seq(S) /\ Len(next) = Len(new) + Len(tl)
          /\ \A p \in 1..(Len(new) + Len(tl)) :
               next[p] = IF p <= Len(new) THEN new[p] ELSE tl[p - Len(new)]
      BY ONLY <2>1, <2>2, ConcatProperties
    <2> QED BY <2>2, <2>3
  <1>4. ASSUME NEW p \in 1..Len(next)
        PROVE  \/ p \in 1..Len(new) /\ next[p] = new[p]
               \/ /\ p > Len(new) /\ p - Len(new) + 1 \in 2..Len(ts)
                  /\ next[p] = ts[p - Len(new) + 1]
    <2>1. CASE p <= Len(new)
      <3>1. p \in 1..Len(new) /\ p \in 1..(Len(new) + Len(tl))
        BY <1>1, <1>2, <1>3, <2>1
      <3>2. next[p] = new[p]
        BY <1>3, <2>1, <3>1
      <3> QED BY <3>1, <3>2
    <2>2. CASE p > Len(new)
      <3>1. /\ p \in 1..(Len(new) + Len(tl)) /\ ~(p <= Len(new))
            /\ p - Len(new) \in 1..(Len(ts) - 1)
            /\ p - Len(new) + 1 \in 2..Len(ts)
        BY <1>1, <1>2, <1>3, <2>2
      <3>2. next[p] = tl[p - Len(new)]
        BY <1>3, <3>1
      <3>3. tl[p - Len(new)] = ts[p - Len(new) + 1]
        BY <1>2, <3>1
      <3>4. next[p] = ts[p - Len(new) + 1]
        BY <3>2, <3>3, Zenon
      <3> QED BY <2>2, <3>1, <3>4
    <2> QED BY <1>1, <1>3, <2>1, <2>2
  <1>5. \A p \in 1..Len(next) : TaskOk(a, next[p])
    <2> SUFFICES ASSUME NEW p \in 1..Len(next) PROVE TaskOk(a, next[p])
      OBVIOUS
    <2>1. CASE p \in 1..Len(new) /\ next[p] = new[p]
      BY <2>1 DEF Line
    <2>2. CASE p - Len(new) + 1 \in 2..Len(ts) /\ next[p] = ts[p - Len(new) + 1]
      <3>1. p - Len(new) + 1 \in 1..Len(ts)
        BY <1>1, <2>2
      <3> QED BY <2>2, <3>1 DEF Line
    <2> QED BY <1>4, <2>1, <2>2
  <1>6. ASSUME NEW p \in 1..Len(next), NEW q \in 1..Len(next), p < q, Opens(a, next[p])
        PROVE  Declares(a, next[q])
    <2>1. CASE q \in 1..Len(new) /\ next[q] = new[q]
      <3>1. p \in 1..Len(new)
        BY <1>1, <1>6, <2>1
      <3>2. next[p] = new[p]
        BY <1>4, <3>1
      <3> QED BY <1>6, <2>1, <3>1, <3>2 DEF Line
    <2>2. CASE /\ q > Len(new) /\ q - Len(new) + 1 \in 2..Len(ts)
               /\ next[q] = ts[q - Len(new) + 1]
      <3> DEFINE s == q - Len(new) + 1
      <3>1. s \in 1..Len(ts) /\ 1 \in 1..Len(ts) /\ 1 < s
        BY <1>1, <2>2
      <3>2. CASE p \in 1..Len(new) /\ next[p] = new[p]
        <4>1. Opens(a, ts[1])
          BY <1>1, <1>6, <3>2
        <4>2. Declares(a, ts[s])
          BY <3>1, <4>1 DEF Line
        <4> QED BY <2>2, <4>2
      <3>3. CASE p - Len(new) + 1 \in 2..Len(ts) /\ next[p] = ts[p - Len(new) + 1]
        <4> DEFINE r == p - Len(new) + 1
        <4>1. r \in 1..Len(ts) /\ r < s
          BY <1>1, <1>6, <2>2, <3>3
        <4>2. Opens(a, ts[r])
          BY <1>6, <3>3
        <4> HIDE DEF r, s
        <4>3. Declares(a, ts[s])
          BY <3>1, <4>1, <4>2 DEF Line
        <4> QED BY <2>2, <4>3 DEF s
      <3> QED BY <1>4, <3>2, <3>3
    <2> QED BY <1>4, <2>1, <2>2
  <1>7. ASSUME NEW p \in 2..Len(next), Reads(next[p])
        PROVE  Yields(a, next[p - 1])
    <2>0. p \in 1..Len(next) /\ p - 1 \in 1..Len(next)
      BY <1>1, <1>3
    <2>1. CASE p \in 1..Len(new) /\ next[p] = new[p]
      <3>1. p \in 2..Len(new) /\ p - 1 \in 1..Len(new) /\ ~(p - 1 > Len(new))
        BY <1>1, <2>1
      <3>2. next[p - 1] = new[p - 1]
        BY <1>4, <2>0, <3>1
      <3> QED BY <1>7, <2>1, <3>1, <3>2 DEF Line
    <2>2. CASE /\ p > Len(new) /\ p - Len(new) + 1 \in 2..Len(ts)
               /\ next[p] = ts[p - Len(new) + 1]
      <3> DEFINE s == p - Len(new) + 1
      <3>1. s \in 2..Len(ts) /\ s - 1 = p - 1 - Len(new) + 1 /\ s - 1 >= 1
        BY <1>1, <2>2
      <3>2. Yields(a, ts[s - 1])
        <4>1. Reads(ts[s])
          BY <1>7, <2>2
        <4> HIDE DEF s
        <4> QED BY <3>1, <4>1 DEF Line
      <3>3. CASE p - 1 > Len(new)
        <4>1. ~(p - 1 \in 1..Len(new))
          BY <1>1, <3>3
        <4>2. next[p - 1] = ts[p - 1 - Len(new) + 1]
          BY <1>4, <2>0, <4>1
        <4> QED BY <3>1, <3>2, <4>2
      <3>4. CASE p - 1 = Len(new)
        <4>1. s - 1 = 1 /\ p - 1 \in 1..Len(new) /\ new # << >>
          <5>1. s - 1 = 1 /\ Len(new) >= 1
            BY <1>1, <2>0, <3>1, <3>4
          <5>2. new # << >>
            BY <1>1, <5>1, EmptySeq
          <5> QED BY <1>1, <2>0, <3>4, <5>1, <5>2
        <4>2. next[p - 1] = new[p - 1] /\ p - 1 = Len(new)
          BY <1>4, <2>0, <3>4, <4>1
        <4>3. Yields(a, Head(ts))
          BY <1>1, <3>2, <4>1
        <4> QED BY <4>1, <4>2, <4>3
      <3>5. p - 1 > Len(new) \/ p - 1 = Len(new)
        BY <1>1, <2>2
      <3> QED BY <3>3, <3>4, <3>5
    <2> QED BY <1>4, <2>0, <2>1, <2>2
  <1>8. Line(a, next)
    BY <1>3, <1>5, <1>6, <1>7 DEF Line, S
  <1>9. ASSUME next # << >>, Reads(next[1])
        PROVE  \/ new # << >> /\ next[1] = new[1]
               \/ new = << >> /\ Yields(a, Head(ts))
    <2>1. 1 \in 1..Len(next) /\ Len(next) >= 1
      BY <1>1, <1>3, <1>9, EmptySeq
    <2>2. CASE new = << >>
      <3>1. Len(new) = 0
        BY <2>2
      <3>2. 1 - Len(new) + 1 = 2 /\ 2 \in 2..Len(ts) /\ ~(1 \in 1..Len(new))
        BY <1>1, <1>3, <2>1, <3>1
      <3>3. next[1] = ts[2]
        BY <1>4, <2>1, <3>2
      <3>4. Yields(a, ts[2 - 1])
        BY <1>9, <3>2, <3>3 DEF Line
      <3> QED BY <1>1, <2>2, <3>4
    <2>3. CASE new # << >>
      <3>1. 1 \in 1..Len(new) /\ ~(1 > Len(new))
        BY <1>1, <2>3, EmptySeq
      <3> QED BY <1>4, <2>1, <2>3, <3>1
    <2> QED BY <2>2, <2>3
  <1>10. \A p \in 1..Len(next) :
           \/ \E q \in 1..Len(new) : next[p] = new[q]
           \/ \E q \in 2..Len(ts) : next[p] = ts[q]
    BY <1>4
  <1> QED BY <1>8, <1>9, <1>10

-----------------------------------------------------------------------------
(* The inductive invariant, of a state given by its parts: the operands in *)
(* hand belong to the function that is being built, as long as anything    *)
(* will read them.                                                         *)
Fits(a, t, m, f, at, k) ==
  /\ t.val \in Operands(Below(k)) /\ Good(m, at, t.val)
  /\ \A p \in 1..Len(t.blocks) : t.blocks[p] \in 1..Len(m[f].blocks)
  /\ t.blocks # << >> => t.func = f
  /\ InBody(a, t) => at # NoBlock /\ at[1] = f

NamesGood(m, at, nv, k) ==
  nv \in [Names -> Below(k)] /\ \A x \in Names : Good(m, at, Ref(nv[x]))

State(a, ts, m, f, at, nv, lv, k) ==
  /\ Line(a, ts) /\ \A p \in 1..Len(ts) : Fits(a, ts[p], m, f, at, k)
  /\ k \in Nat \ {0} /\ ModuleOk(m, k) /\ f \in 0..Len(m) /\ PlaceOk(m, at)
  /\ NamesGood(m, at, nv, k)
  /\ lv \in Operands(Below(k)) /\ (ts # << >> /\ Reads(ts[1]) => Good(m, at, lv))

TreeOk(a) ==
  /\ a \in Trees(Names)
  /\ \A n \in DOMAIN a : a[n].kind = "declstmt" => KindsOfKids(a, n) = {"vardecl"}

IInv ==
  /\ TreeOk(ast)
  /\ State(ast, tasks, module, currentFunction, insertBlock, namedValues, lastValue, nextId)
  /\ crashed \in BOOLEAN
-----------------------------------------------------------------------------
(* The tree.                                                               *)
LEMMA TreeShape ==
  ASSUME NEW a, TreeOk(a)
  PROVE  /\ DOMAIN a = 1..Len(a) /\ 1 \in DOMAIN a /\ a[1].kind = "unit"
         /\ \A n \in DOMAIN a :
              /\ a[n].kind \in Kinds /\ a[n].name \in Names /\ a[n].num \in Int
              /\ a[n].kids \in Seq(DOMAIN a)
              /\ DOMAIN a[n].kids = 1..Len(a[n].kids) /\ Len(a[n].kids) \in Nat
              /\ \A k \in 1..Len(a[n].kids) :
                   a[n].kids[k] \in DOMAIN a /\ a[a[n].kids[k]].kind \in KindsOfKids(a, n)
              /\ WellShaped(a, n)
  <1> DEFINE N == Nodes(Names)
  <1>1. a \in Seq(N) /\ IsTree(a)
    BY DEF TreeOk, Trees
  <1>2. \A n \in DOMAIN a : \A k \in DOMAIN a[n].kids : a[n].kids[k] \in (n + 1)..Len(a)
    BY <1>1, Zenon DEF IsTree, Kid
  <1>3. a # << >> /\ a[1].kind = "unit" /\ \A n \in DOMAIN a : WellShaped(a, n)
    BY <1>1, Zenon DEF IsTree
  <1>4. DOMAIN a = 1..Len(a) /\ Len(a) \in Nat /\ 1 \in DOMAIN a
    <2> HIDE DEF N
    <2> QED BY <1>1, <1>3, EmptySeq, LenProperties
  <1>5. ASSUME NEW n \in DOMAIN a
        PROVE  /\ a[n].kind \in Kinds /\ a[n].name \in Names /\ a[n].num \in Int
               /\ a[n].kids \in Seq(DOMAIN a)
               /\ DOMAIN a[n].kids = 1..Len(a[n].kids) /\ Len(a[n].kids) \in Nat
               /\ \A k \in 1..Len(a[n].kids) :
                    a[n].kids[k] \in DOMAIN a /\ a[a[n].kids[k]].kind \in KindsOfKids(a, n)
    <2>1. a[n] \in N
      <3> HIDE DEF N
      <3> QED BY <1>1, <1>4, ElementOfSeq
    <2>2. /\ a[n].kind \in Kinds /\ a[n].name \in Names /\ a[n].num \in Int
          /\ a[n].kids \in Seq(Nat \ {0})
      BY <2>1 DEF Nodes
    <2>3. DOMAIN a[n].kids = 1..Len(a[n].kids) /\ Len(a[n].kids) \in Nat
      BY <2>2, LenProperties
    <2>4. \A k \in 1..Len(a[n].kids) : a[n].kids[k] \in DOMAIN a
      BY <1>2, <1>4, <2>3
    <2>5. a[n].kids \in Seq(DOMAIN a)
      BY <2>2, <2>4
    <2>6. \A k \in 1..Len(a[n].kids) : a[a[n].kids[k]].kind \in KindsOfKids(a, n)
      BY <2>3, Zenon DEF KindsOfKids, KidsOf
    <2> QED BY <2>2, <2>3, <2>4, <2>5, <2>6
  <1> QED BY <1>3, <1>4, <1>5

LEMMA KidsShape ==
  ASSUME NEW a, TreeOk(a), NEW n \in DOMAIN a, NEW kind, a[n].kind = kind,
         NEW kids, kids = a[n].kids
  PROVE  /\ kind \in {"unit", "record"} =>
              \A k \in 1..Len(kids) : a[kids[k]].kind \in DeclKinds
         /\ kind \in {"function", "method"} =>
              Len(kids) <= 1 /\ \A k \in 1..Len(kids) : a[kids[k]].kind = "compound"
         /\ kind = "declstmt" => \A k \in 1..Len(kids) : a[kids[k]].kind = "vardecl"
         /\ kind = "compound" => \A k \in 1..Len(kids) : a[kids[k]].kind \in StmtKinds
         /\ kind \in {"vardecl", "return", "exprstmt"} =>
              Len(kids) <= 1 /\ \A k \in 1..Len(kids) : a[kids[k]].kind \in ExprKinds
         /\ kind = "if" =>
              /\ Len(kids) \in 2..3 /\ a[kids[1]].kind \in ExprKinds
              /\ \A k \in 2..Len(kids) : a[kids[k]].kind \in StmtKinds
         /\ kind = "while" =>
              Len(kids) = 2 /\ a[kids[1]].kind \in ExprKinds /\ a[kids[2]].kind \in StmtKinds
         /\ kind = "binary" =>
              Len(kids) = 2 /\ a[kids[1]].kind \in ExprKinds /\ a[kids[2]].kind \in ExprKinds
         /\ kind = "member" => Len(kids) = 1 /\ a[kids[1]].kind \in ExprKinds
  <1> DEFINE Are(K) == KindsOfKids(a, n) \subseteq K
  <1>1. \A k \in 1..Len(kids) : a[kids[k]].kind \in KindsOfKids(a, n)
    BY TreeShape
  <1>2. WellShaped(a, n)
    BY TreeShape
  <1>3. /\ kind = "unit" => Are({"function", "vardecl", "record"})
        /\ kind = "record" => Are({"field", "method"})
        /\ kind \in {"function", "method"} => Len(kids) <= 1 /\ Are({"compound"})
        /\ kind \in {"vardecl", "return"} => Len(kids) <= 1 /\ Are(ExprKinds)
        /\ kind = "compound" => Are(StmtKinds)
        /\ kind = "exprstmt" => Len(kids) = 1 /\ Are(ExprKinds)
        /\ kind = "if" =>
             /\ Len(kids) \in 2..3 /\ a[kids[1]].kind \in ExprKinds
             /\ \A k \in 2..Len(kids) : a[kids[k]].kind \in StmtKinds
        /\ kind = "while" =>
             Len(kids) = 2 /\ a[kids[1]].kind \in ExprKinds /\ a[kids[2]].kind \in StmtKinds
        /\ kind = "binary" => Len(kids) = 2 /\ Are(ExprKinds)
        /\ kind = "member" => Len(kids) = 1 /\ Are(ExprKinds)
    BY <1>2 DEF WellShaped, Kid
  <1>4. kind = "declstmt" => Are({"vardecl"})
    BY DEF TreeOk
  <1>5. {"function", "vardecl", "record"} \subseteq DeclKinds /\ {"field", "method"} \subseteq DeclKinds
    BY DEF DeclKinds
  <1>6. Len(kids) \in Nat
    BY TreeShape
  <1> QED BY <1>1, <1>3, <1>4, <1>5, <1>6

-----------------------------------------------------------------------------
(* Tasks that a visit puts in its place.                                   *)
LEMMA NullFits ==
  ASSUME NEW k \in Nat \ {0}
  PROVE  /\ Null \in Operands(Below(k)) /\ Null \in Operands(Nat)
         /\ \A m, at : Good(m, at, Null)
  <1>1. Null = [imm |-> FALSE, id |-> 0] /\ 0 \in Below(k)
    BY DEF Null, Ref, NoId, Below
  <1> QED BY <1>1 DEF Operands, Good, Known

LEMMA VisitShape ==
  ASSUME NEW a, NEW n \in DOMAIN a
  PROVE  /\ Visit(n) \in TaskSet(a) /\ TaskOk(a, Visit(n))
         /\ Visit(n).do = "visit" /\ Visit(n).node = n /\ Visit(n).val = Null
         /\ Visit(n).blocks = << >> /\ Visit(n).func = 0
         /\ KindOf(a, Visit(n)) = a[n].kind
  <1>1. /\ Visit(n).do = "visit" /\ Visit(n).node = n /\ Visit(n).val = Null
        /\ Visit(n).blocks = << >> /\ Visit(n).func = 0
    BY DEF Visit, Task
  <1>2. Visit(n) \in TaskSet(a)
    <2>1. Null \in Operands(Nat)
      BY NullFits
    <2>2. << >> \in Seq(Nat \ {0})
      OBVIOUS
    <2> QED BY <2>1, <2>2 DEF Visit, Task, TaskSet
  <1>3. TaskOk(a, Visit(n))
    BY <1>1 DEF TaskOk
  <1> QED BY <1>1, <1>2, <1>3 DEF KindOf

LEMMA VisitFits ==
  ASSUME NEW a, NEW n \in DOMAIN a, NEW k \in Nat \ {0}, NEW m, NEW f, NEW at,
         a[n].kind \in StmtKinds => at # NoBlock /\ at[1] = f
  PROVE  Fits(a, Visit(n), m, f, at, k)
  <1>1. Visit(n).blocks = << >> /\ 1..Len(Visit(n).blocks) = {} /\ Visit(n).val = Null
    BY VisitShape
  <1>2. InBody(a, Visit(n)) => at # NoBlock /\ at[1] = f
    BY <1>1, VisitShape DEF InBody
  <1> QED BY <1>1, <1>2, NullFits DEF Fits

LEMMA LineNone ==
  ASSUME NEW a
  PROVE  Line(a, << >>)
  <1>1. << >> \in Seq(TaskSet(a)) /\ 1..Len(<< >>) = {} /\ 2..Len(<< >>) = {}
    BY EmptySeq
  <1> QED BY <1>1 DEF Line

LEMMA LineOne ==
  ASSUME NEW a, NEW x \in TaskSet(a), TaskOk(a, x)
  PROVE  Line(a, <<x>>)
  <1> DEFINE S == TaskSet(a)
             ts == <<x>>
  <1>1. ts \in Seq(S) /\ Len(ts) = 1 /\ ts[1] = x
    <2>1. x \in S
      OBVIOUS
    <2> HIDE DEF S
    <2> QED BY <2>1
  <1> HIDE DEF ts
  <1>2. \A p \in 1..Len(ts) : p = 1
    BY <1>1
  <1>3. \A p \in 2..Len(ts) : FALSE
    BY <1>1
  <1>4. Line(a, ts)
    BY <1>1, <1>2, <1>3 DEF Line
  <1> QED BY <1>4 DEF ts

LEMMA LineTwo ==
  ASSUME NEW a, NEW x \in TaskSet(a), TaskOk(a, x), NEW y \in TaskSet(a), TaskOk(a, y),
         ~Opens(a, x), Reads(y) => Yields(a, x)
  PROVE  Line(a, <<x, y>>)
  <1> DEFINE S == TaskSet(a)
             ts == <<x, y>>
  <1>1. ts \in Seq(S) /\ Len(ts) = 2 /\ ts[1] = x /\ ts[2] = y
    <2>1. x \in S /\ y \in S
      OBVIOUS
    <2> HIDE DEF S
    <2> QED BY <2>1
  <1> HIDE DEF ts
  <1>2. \A p \in 1..Len(ts) : p = 1 \/ p = 2
    BY <1>1
  <1>3. \A p \in 2..Len(ts) : p = 2 /\ p - 1 = 1
    BY <1>1
  <1>4. \A p \in 1..Len(ts), q \in 1..Len(ts) : p < q => p = 1
    BY <1>1
  <1>5. \A p \in 1..Len(ts) : TaskOk(a, ts[p])
    BY <1>1, <1>2
  <1>6. \A p, q \in 1..Len(ts) : p < q /\ Opens(a, ts[p]) => Declares(a, ts[q])
    BY <1>1, <1>4
  <1>7. \A p \in 2..Len(ts) : Reads(ts[p]) => Yields(a, ts[p - 1])
    BY <1>1, <1>3
  <1>8. Line(a, ts)
    BY <1>1, <1>5, <1>6, <1>7 DEF Line
  <1> QED BY <1>8 DEF ts

LEMMA LineVisits ==
  ASSUME NEW a, NEW ns \in Seq(DOMAIN a),
         \/ \A k \in 1..Len(ns) : a[ns[k]].kind \in DeclKinds
         \/ \A k \in 1..Len(ns) : a[ns[k]].kind \notin OpenKinds,
         NEW ts, ts = VisitAll(ns)
  PROVE  /\ Line(a, ts) /\ Len(ts) = Len(ns)
         /\ \A p \in 1..Len(ns) : ts[p] = Visit(ns[p]) /\ ns[p] \in DOMAIN a
  <1>1. Len(ns) \in Nat /\ DOMAIN ns = 1..Len(ns) /\ \A p \in 1..Len(ns) : ns[p] \in DOMAIN a
    BY LenProperties, ElementOfSeq
  <1>2. ts = [p \in 1..Len(ns) |-> Visit(ns[p])]
    BY <1>1 DEF VisitAll
  <1>3. \A p \in 1..Len(ns) : ts[p] = Visit(ns[p]) /\ Visit(ns[p]) \in TaskSet(a)
    BY <1>1, <1>2, VisitShape
  <1>4. ts \in Seq(TaskSet(a)) /\ Len(ts) = Len(ns)
    <2> DEFINE S == TaskSet(a)
    <2>1. ts \in [1..Len(ns) -> S]
      BY <1>2, <1>3
    <2> HIDE DEF S
    <2>2. ts \in Seq(S) /\ Len(ts) = Len(ns)
      BY <1>1, <2>1
    <2> QED BY <2>2 DEF S
  <1>5. \A p \in 1..Len(ns) :
          /\ TaskOk(a, ts[p]) /\ ts[p].do = "visit" /\ KindOf(a, ts[p]) = a[ns[p]].kind
    BY <1>1, <1>3, VisitShape
  <1>6. \A p \in 1..Len(ns) : ~Reads(ts[p])
    BY <1>5 DEF Reads
  <1>7. \A p, q \in 1..Len(ns) : Opens(a, ts[p]) => Declares(a, ts[q])
    BY <1>5 DEF Opens, Declares
  <1>8. \A p \in 2..Len(ns) : p \in 1..Len(ns)
    BY <1>1
  <1>9. Line(a, ts)
    BY <1>4, <1>5, <1>6, <1>7, <1>8 DEF Line
  <1> QED BY <1>1, <1>3, <1>4, <1>9

(* The first task is replaced, and the module grows, if at all.            *)
LEMMA Advance ==
  ASSUME NEW a, NEW ts, ts # << >>, NEW m, NEW f, NEW at, NEW nv, NEW lv, NEW k,
         State(a, ts, m, f, at, nv, lv, k),
         NEW new, Line(a, new),
         \A p \in 1..Len(new) : Opens(a, new[p]) => Opens(a, Head(ts)),
         new # << >> /\ Yields(a, Head(ts)) => Yields(a, new[Len(new)]),
         NEW n, NEW l \in Nat \ {0}, k <= l, ModuleOk(n, l), Extends(m, n),
         NEW to, PlaceOk(n, to), to = at \/ (at # NoBlock /\ to # NoBlock /\ to[1] = at[1]),
         NEW ov, NamesGood(n, to, ov, l),
         NEW rv \in Operands(Below(l)),
         \A p \in 1..Len(new) : Fits(a, new[p], n, f, to, l),
         new # << >> /\ Reads(new[1]) => Good(n, to, rv),
         new = << >> /\ Yields(a, Head(ts)) => Good(n, to, rv),
         NEW next, next = new \o Tail(ts)
  PROVE  State(a, next, n, f, to, ov, rv, l)
  <1>1. Line(a, ts) /\ ModuleOk(m, k) /\ k \in Nat \ {0} /\ PlaceOk(m, at) /\ f \in 0..Len(m)
    BY DEF State
  <1>2. /\ Line(a, next)
        /\ \A p \in 1..Len(next) :
             \/ \E q \in 1..Len(new) : next[p] = new[q]
             \/ \E q \in 2..Len(ts) : next[p] = ts[q]
        /\ next # << >> /\ Reads(next[1]) =>
             \/ new # << >> /\ next[1] = new[1]
             \/ new = << >> /\ Yields(a, Head(ts))
    <2>1. Line(a, ts) /\ ts # << >> /\ Line(a, new) /\ next = new \o Tail(ts)
      BY <1>1
    <2>2. \A p \in 1..Len(new) : Opens(a, new[p]) => Opens(a, Head(ts))
      OBVIOUS
    <2>3. new # << >> /\ Yields(a, Head(ts)) => Yields(a, new[Len(new)])
      OBVIOUS
    <2>4. Line(a, next)
      BY ONLY <2>1, <2>2, <2>3, Replaced
    <2>5. \A p \in 1..Len(next) :
             \/ \E q \in 1..Len(new) : next[p] = new[q]
             \/ \E q \in 2..Len(ts) : next[p] = ts[q]
      BY ONLY <2>1, <2>2, <2>3, Replaced
    <2>6. next # << >> /\ Reads(next[1]) =>
             \/ new # << >> /\ next[1] = new[1]
             \/ new = << >> /\ Yields(a, Head(ts))
      BY ONLY <2>1, <2>2, <2>3, Replaced
    <2> QED BY <2>4, <2>5, <2>6
  <1>3. next # << >> /\ Reads(next[1]) => Good(n, to, rv)
    BY <1>2
  <1>4. f \in 0..Len(n)
    <2>1. Len(m) \in Nat /\ Len(n) \in Nat
      BY <1>1, ModuleShape DEF ModuleOk
    <2> QED BY <1>1, <2>1 DEF Extends
  <1>5. ASSUME NEW q \in 2..Len(ts)
        PROVE  Fits(a, ts[q], n, f, to, l)
    <2>1. Fits(a, ts[q], m, f, at, k)
      <3>1. Len(ts) \in Nat
        BY <1>1, LenProperties DEF Line
      <3> QED BY <3>1 DEF State
    <2>2. ts[q].val \in Operands(Below(l))
      BY <1>1, <2>1, OperandsGrow DEF Fits
    <2>3. Good(n, at, ts[q].val)
      BY <1>1, <2>1, ExtendsKeeps DEF Fits
    <2>4. Good(n, to, ts[q].val)
      <3>1. CASE to = at
        BY <2>3, <3>1
      <3>2. CASE at # NoBlock /\ to # NoBlock /\ to[1] = at[1]
        BY <2>3, <3>2 DEF Good
      <3> QED BY <3>1, <3>2
    <2>5. InBody(a, ts[q]) => to # NoBlock /\ to[1] = f
      BY <2>1 DEF Fits
    <2>6. ASSUME NEW p \in 1..Len(ts[q].blocks)
          PROVE  ts[q].blocks[p] \in 1..Len(n[f].blocks)
      <3>1. ts[q].blocks[p] \in 1..Len(m[f].blocks)
        BY <2>1 DEF Fits
      <3>2. ts[q].blocks # << >>
        BY EmptySeq
      <3>3. at # NoBlock /\ at[1] = f
        BY <2>1, <3>2 DEF Fits, InBody
      <3>4. f \in 1..Len(m)
        <4>1. PICK g \in 1..Len(m) : \E b \in 1..Len(m[g].blocks) : at = <<g, b>>
          BY <1>1, <3>3 DEF PlaceOk
        <4> QED BY <3>3, <4>1
      <3>5. Len(m) \in Nat /\ Len(n) \in Nat /\ Len(m) <= Len(n)
        BY <1>1, ModuleShape DEF ModuleOk, Extends
      <3>6. f \in 1..Len(n)
        BY <3>4, <3>5
      <3>7. Len(m[f].blocks) \in Nat /\ Len(n[f].blocks) \in Nat
        BY <1>1, <3>4, <3>6, ModuleShape DEF ModuleOk
      <3>8. Len(m[f].blocks) <= Len(n[f].blocks)
        BY <3>4 DEF Extends
      <3>9. 1..Len(m[f].blocks) \subseteq 1..Len(n[f].blocks)
        BY <3>7, <3>8
      <3> QED BY <3>1, <3>9
    <2>7. ts[q].blocks # << >> => ts[q].func = f
      BY <2>1 DEF Fits
    <2> QED BY <2>2, <2>4, <2>5, <2>6, <2>7 DEF Fits
  <1>6. \A p \in 1..Len(next) : Fits(a, next[p], n, f, to, l)
    BY <1>2, <1>5
  <1> QED BY <1>2, <1>3, <1>4, <1>6 DEF State

-----------------------------------------------------------------------------
(* Instructions over the values below k, and what they take and give.      *)
LEMMA InstructionTypes ==
  ASSUME NEW V, NEW v \in V, NEW x \in Operands(V), NEW y \in Operands(V),
         NEW b \in Nat \ {0}, NEW c \in Nat \ {0}
  PROVE  /\ Alloca(v) \in Code(V) /\ Load(v, x) \in Code(V) /\ Store(x, y) \in Code(V)
         /\ AddInst(v, x, y) \in Code(V) /\ SubInst(v, x, y) \in Code(V)
         /\ Ret(x) \in Code(V) /\ RetVoid \in Code(V)
         /\ Br(b) \in Code(V) /\ CondBr(x, b, c) \in Code(V)
  <1> DEFINE O == Operands(V)
             B == Nat \ {0}
  <1>1. <<x>> \in [1..1 -> O] /\ <<x, y>> \in [1..2 -> O]
    <2>1. x \in O /\ y \in O
      OBVIOUS
    <2> HIDE DEF O
    <2> QED BY <2>1
  <1>2. <<b>> \in [1..1 -> B] /\ <<b, c>> \in [1..2 -> B]
    OBVIOUS
  <1> HIDE DEF O, B
  <1>3. Code(V) = [op : {"alloca"}, id : V, args : {<< >>}, targets : {<< >>}]
              \cup [op : {"load"}, id : V, args : [1..1 -> O], targets : {<< >>}]
              \cup [op : {"store"}, id : {NoId}, args : [1..2 -> O], targets : {<< >>}]
              \cup [op : {"add", "sub"}, id : V, args : [1..2 -> O], targets : {<< >>}]
              \cup [op : {"ret"}, id : {NoId}, args : {<< >>} \cup [1..1 -> O], targets : {<< >>}]
              \cup [op : {"br"}, id : {NoId}, args : {<< >>}, targets : [1..1 -> B]]
              \cup [op : {"condbr"}, id : {NoId}, args : [1..1 -> O], targets : [1..2 -> B]]
    BY Zenon DEF Code, Instructions, O, B
  <1>4. Alloca(v) \in Code(V) /\ Load(v, x) \in Code(V) /\ Store(x, y) \in Code(V)
    BY <1>1, <1>3 DEF Alloca, Load, Store, Instr
  <1>5. AddInst(v, x, y) \in Code(V) /\ SubInst(v, x, y) \in Code(V)
    BY <1>1, <1>3 DEF AddInst, SubInst, Instr
  <1>6. Ret(x) \in Code(V) /\ RetVoid \in Code(V)
    BY <1>1, <1>3 DEF Ret, RetVoid, Instr
  <1>7. Br(b) \in Code(V) /\ CondBr(x, b, c) \in Code(V)
    BY <1>1, <1>2, <1>3 DEF Br, CondBr, Instr
  <1> QED BY <1>4, <1>5, <1>6, <1>7

LEMMA FreshValue ==
  ASSUME NEW k \in Nat \ {0}
  PROVE  /\ k + 1 \in Nat \ {0} /\ k <= k + 1
         /\ k \in Below(k + 1) /\ k \notin Below(k) /\ Ref(k) \in Operands(Below(k + 1))
         /\ Null \in Operands(Below(k))
         /\ \A n \in Int : Const(n) \in Operands(Below(k))
         /\ \A m, at : \A n \in Int : Good(m, at, Const(n))
  <1>1. k \in Below(k + 1) /\ k \notin Below(k)
    BY DEF Below, NoId
  <1>2. \A m, at : \A n \in Int : Good(m, at, Const(n))
    BY DEF Good, Known, Const
  <1>3. Ref(k) \in Operands(Below(k + 1))
    BY <1>1 DEF Operands, Ref
  <1>4. \A n \in Int : Const(n) \in Operands(Below(k))
    BY DEF Operands, Const
  <1>5. k + 1 \in Nat \ {0} /\ k <= k + 1
    OBVIOUS
  <1> QED BY <1>1, <1>2, <1>3, <1>4, <1>5, NullFits

-----------------------------------------------------------------------------
(* A state of the generator and a step from it.                            *)
LEMMA ExtendsSelf ==
  ASSUME NEW k, NEW m, ModuleOk(m, k)
  PROVE  Extends(m, m)
  <1>1. Len(m) \in Nat /\ \A f \in 1..Len(m) : Len(m[f].blocks) \in Nat
    BY ModuleShape DEF ModuleOk
  <1> QED BY <1>1 DEF Extends

LEMMA TopShape ==
  ASSUME IInv, tasks # << >>
  PROVE  /\ TreeOk(ast) /\ crashed \in BOOLEAN
         /\ top = tasks[1] /\ top = Head(tasks)
         /\ top \in TaskSet(ast) /\ TaskOk(ast, top) /\ top.node \in DOMAIN ast
         /\ Fits(ast, top, module, currentFunction, insertBlock, nextId)
         /\ Reads(top) => Good(module, insertBlock, lastValue)
         /\ lastValue \in Operands(Below(nextId))
         /\ nextId \in Nat \ {0} /\ ModuleOk(module, nextId) /\ PlaceOk(module, insertBlock)
         /\ NamesGood(module, insertBlock, namedValues, nextId)
         /\ currentFunction \in 0..Len(module) /\ Len(module) \in Nat
  <1>1. State(ast, tasks, module, currentFunction, insertBlock, namedValues, lastValue, nextId)
    BY DEF IInv
  <1>2. tasks \in Seq(TaskSet(ast)) /\ \A p \in 1..Len(tasks) : TaskOk(ast, tasks[p])
    BY <1>1 DEF State, Line
  <1>3. 1 \in 1..Len(tasks) /\ top = tasks[1] /\ top = Head(tasks) /\ tasks[1] \in TaskSet(ast)
    <2> DEFINE S == TaskSet(ast)
    <2>1. tasks \in Seq(S)
      BY <1>2
    <2> HIDE DEF S
    <2>2. 1 \in 1..Len(tasks) /\ Head(tasks) = tasks[1] /\ tasks[1] \in S
      BY <2>1, EmptySeq
    <2> QED BY <2>2 DEF S, top
  <1>4. top \in TaskSet(ast) /\ TaskOk(ast, top)
    BY <1>2, <1>3
  <1>5. top.node \in DOMAIN ast
    BY <1>4 DEF TaskSet
  <1>6. /\ Fits(ast, top, module, currentFunction, insertBlock, nextId)
        /\ Reads(top) => Good(module, insertBlock, lastValue)
        /\ lastValue \in Operands(Below(nextId))
        /\ nextId \in Nat \ {0} /\ ModuleOk(module, nextId) /\ PlaceOk(module, insertBlock)
        /\ NamesGood(module, insertBlock, namedValues, nextId)
        /\ currentFunction \in 0..Len(module)
    BY <1>1, <1>3 DEF State
  <1>7. Len(module) \in Nat
    BY <1>6, ModuleShape DEF ModuleOk
  <1> QED BY <1>3, <1>4, <1>5, <1>6, <1>7 DEF IInv

(* What every action but the one that opens a function does to the rest of *)
(* the state.                                                              *)
Advances ==
  /\ ast' = ast /\ currentFunction' = currentFunction /\ crashed' \in BOOLEAN
  /\ nextId' \in Nat \ {0} /\ nextId <= nextId'
  /\ ModuleOk(module', nextId') /\ Extends(module, module') /\ PlaceOk(module', insertBlock')
  /\ \/ insertBlock' = insertBlock
     \/ insertBlock # NoBlock /\ insertBlock' # NoBlock /\ insertBlock'[1] = insertBlock[1]
  /\ \/ namedValues' = namedValues
     \/ NamesGood(module', insertBlock', namedValues', nextId')
  /\ lastValue' \in Operands(Below(nextId'))

LEMMA Step ==
  ASSUME IInv, tasks # << >>, Advances, NEW new, Line(ast, new),
         \A p \in 1..Len(new) : Opens(ast, new[p]) => Opens(ast, top),
         new # << >> /\ Yields(ast, top) => Yields(ast, new[Len(new)]),
         tasks' = new \o Tail(tasks),
         \A p \in 1..Len(new) :
           Fits(ast, new[p], module', currentFunction, insertBlock', nextId'),
         new # << >> /\ Reads(new[1]) => Good(module', insertBlock', lastValue'),
         new = << >> /\ Yields(ast, top) => Good(module', insertBlock', lastValue')
  PROVE  IInv'
  <1>1. /\ nextId \in Nat \ {0} /\ ModuleOk(module, nextId) /\ PlaceOk(module, insertBlock)
        /\ NamesGood(module, insertBlock, namedValues, nextId)
        /\ top = Head(tasks) /\ TreeOk(ast)
    BY TopShape
  <1>2. \A o : Good(module, insertBlock, o) => Good(module', insertBlock', o)
    <2>1. \A o : Good(module, insertBlock, o) => Good(module', insertBlock, o)
      BY <1>1, ExtendsKeeps DEF Advances
    <2>2. \A o : Good(module', insertBlock, o) => Good(module', insertBlock', o)
      BY DEF Good, Advances
    <2> QED BY <2>1, <2>2
  <1>3. NamesGood(module', insertBlock', namedValues', nextId')
    <2>1. CASE namedValues' = namedValues
      <3>1. Below(nextId) \subseteq Below(nextId')
        BY <1>1, OperandsGrow DEF Advances
      <3>2. namedValues' \in [Names -> Below(nextId')]
        BY <1>1, <2>1, <3>1 DEF NamesGood
      <3>3. \A x \in Names : Good(module', insertBlock', Ref(namedValues'[x]))
        BY <1>1, <1>2, <2>1 DEF NamesGood
      <3> QED BY <3>2, <3>3 DEF NamesGood
    <2> QED BY <2>1 DEF Advances
  <1>4. State(ast, tasks, module, currentFunction, insertBlock, namedValues, lastValue, nextId)
    BY DEF IInv
  <1>5. State(ast, tasks', module', currentFunction, insertBlock', namedValues', lastValue', nextId')
    BY <1>1, <1>3, <1>4, Advance DEF Advances
  <1> QED BY <1>1, <1>5 DEF IInv, Advances

(* The ways in which actions replace the first task: by nothing, by visits *)
(* of all the children, by the visit of one child and what follows on it.  *)
LEMMA StepNone ==
  ASSUME IInv, tasks # << >>, Advances, tasks' = << >> \o Tail(tasks),
         Yields(ast, top) => Good(module', insertBlock', lastValue')
  PROVE  IInv'
  <1>1. Line(ast, << >>) /\ 1..Len(<< >>) = {}
    BY LineNone
  <1> QED BY <1>1, Step

LEMMA StepThen ==
  ASSUME IInv, tasks # << >>, Advances,
         NEW c \in DOMAIN ast, NEW y \in TaskSet(ast), TaskOk(ast, y),
         ast[c].kind \notin OpenKinds, y.do # "visit", Reads(y) => ast[c].kind \in ExprKinds,
         ast[c].kind \in StmtKinds =>
           insertBlock' # NoBlock /\ insertBlock'[1] = currentFunction,
         Fits(ast, y, module', currentFunction, insertBlock', nextId'),
         Yields(ast, top) => Yields(ast, y),
         tasks' = <<Visit(c), y>> \o Tail(tasks)
  PROVE  IInv'
  <1> DEFINE new == <<Visit(c), y>>
  <1>1. /\ Visit(c) \in TaskSet(ast) /\ TaskOk(ast, Visit(c)) /\ Visit(c).do = "visit"
        /\ KindOf(ast, Visit(c)) = ast[c].kind
    BY VisitShape
  <1>2. /\ ~Opens(ast, Visit(c)) /\ ~Opens(ast, y) /\ ~Reads(Visit(c))
        /\ Reads(y) => Yields(ast, Visit(c))
    BY <1>1 DEF Opens, Reads, Yields
  <1>3. Line(ast, new)
    BY <1>1, <1>2, LineTwo
  <1>4. Fits(ast, Visit(c), module', currentFunction, insertBlock', nextId')
    BY VisitFits DEF Advances
  <1>5. new # << >> /\ Len(new) = 2 /\ new[1] = Visit(c) /\ new[2] = y
    OBVIOUS
  <1>6. tasks' = new \o Tail(tasks)
    OBVIOUS
  <1> HIDE DEF new
  <1>7. \A p \in 1..Len(new) : new[p] = Visit(c) \/ new[p] = y
    BY <1>5
  <1>8. \A p \in 1..Len(new) : Fits(ast, new[p], module', currentFunction, insertBlock', nextId')
    BY <1>4, <1>7
  <1>9. \A p \in 1..Len(new) : Opens(ast, new[p]) => Opens(ast, top)
    BY <1>2, <1>7
  <1>10. Yields(ast, top) => Yields(ast, new[Len(new)])
    BY <1>5
  <1>11. ~Reads(new[1])
    BY <1>2, <1>5
  <1> QED BY <1>3, <1>5, <1>6, <1>8, <1>9, <1>10, <1>11, Step

LEMMA StepVisits ==
  ASSUME IInv, tasks # << >>, ~Yields(ast, top), NEW ns \in Seq(DOMAIN ast),
         \/ Opens(ast, top) /\ \A k \in 1..Len(ns) : ast[ns[k]].kind \in DeclKinds
         \/ \A k \in 1..Len(ns) :
              /\ ast[ns[k]].kind \notin OpenKinds
              /\ ast[ns[k]].kind \in StmtKinds => InBody(ast, top),
         tasks' = VisitAll(ns) \o Tail(tasks),
         UNCHANGED <<ast, currentFunction, namedValues, module, insertBlock, lastValue, nextId,
                     crashed>>
  PROVE  IInv'
  <1> DEFINE new == VisitAll(ns)
  <1>1. /\ Line(ast, new) /\ Len(new) = Len(ns)
        /\ \A p \in 1..Len(ns) : new[p] = Visit(ns[p]) /\ ns[p] \in DOMAIN ast
    BY LineVisits
  <1>2. tasks' = new \o Tail(tasks)
    OBVIOUS
  <1> HIDE DEF new
  <1>3. /\ nextId \in Nat \ {0} /\ ModuleOk(module, nextId) /\ PlaceOk(module, insertBlock)
        /\ lastValue \in Operands(Below(nextId)) /\ crashed \in BOOLEAN
        /\ Fits(ast, top, module, currentFunction, insertBlock, nextId)
    BY TopShape
  <1>4. Extends(module, module)
    BY <1>3, ExtendsSelf
  <1>5. DeclKinds \cap StmtKinds = {}
    BY DEF DeclKinds, StmtKinds
  <1>6. ASSUME NEW p \in 1..Len(new)
        PROVE  /\ Fits(ast, new[p], module, currentFunction, insertBlock, nextId)
               /\ Opens(ast, new[p]) => Opens(ast, top)
               /\ ~Reads(new[p])
    <2>1. ns[p] \in DOMAIN ast /\ new[p] = Visit(ns[p]) /\ p \in 1..Len(ns)
      BY <1>1
    <2>2. Visit(ns[p]).do = "visit" /\ KindOf(ast, Visit(ns[p])) = ast[ns[p]].kind
      BY <2>1, VisitShape
    <2>3. ast[ns[p]].kind \in StmtKinds => InBody(ast, top)
      BY <1>5, <2>1
    <2>4. Fits(ast, Visit(ns[p]), module, currentFunction, insertBlock, nextId)
      <3>1. ast[ns[p]].kind \in StmtKinds => insertBlock # NoBlock /\ insertBlock[1] = currentFunction
        BY <1>3, <2>3 DEF Fits
      <3> QED BY <1>3, <2>1, <3>1, VisitFits
    <2>5. Opens(ast, Visit(ns[p])) => Opens(ast, top)
      BY <2>1, <2>2 DEF Opens
    <2> QED BY <2>1, <2>2, <2>4, <2>5 DEF Reads
  <1>7. new # << >> => 1 \in 1..Len(new)
    <2>1. new \in Seq(TaskSet(ast))
      BY <1>1 DEF Line
    <2> DEFINE S == TaskSet(ast)
    <2>2. new \in Seq(S)
      BY <2>1
    <2> HIDE DEF S
    <2> QED BY <2>2, EmptySeq
  <1>8. new # << >> => ~Reads(new[1])
    BY <1>6, <1>7
  <1>9. /\ ast' = ast /\ currentFunction' = currentFunction /\ namedValues' = namedValues
        /\ module' = module /\ insertBlock' = insertBlock /\ lastValue' = lastValue
        /\ nextId' = nextId /\ crashed' = crashed
    OBVIOUS
  <1>10. Advances
    BY <1>3, <1>4, <1>9 DEF Advances
  <1>11. \A p \in 1..Len(new) :
           Fits(ast, new[p], module', currentFunction, insertBlock', nextId')
    BY <1>6, <1>9
  <1>12. \A p \in 1..Len(new) : Opens(ast, new[p]) => Opens(ast, top)
    BY <1>6
  <1> QED BY <1>1, <1>2, <1>8, <1>9, <1>10, <1>11, <1>12, Step

(* An instruction at the insertion point; the identifiers below l are then *)
(* in use.                                                                 *)
Insertable(x, l) ==
  /\ l \in Nat \ {0} /\ nextId <= l
  /\ x \in Code(Below(l)) /\ (x.id = NoId \/ x.id \notin Below(nextId))
  /\ \A p \in 1..Len(x.args) : Good(module, insertBlock, x.args[p])
  /\ \A t \in 1..Len(x.targets) :
       insertBlock # NoBlock => x.targets[t] \in 1..Len(module[insertBlock[1]].blocks)

Inserts(n, l) ==
  /\ ModuleOk(n, l) /\ Len(n) = Len(module) /\ Extends(module, n)
  /\ PlaceOk(n, insertBlock)
  /\ \A o : Good(module, insertBlock, o) => Good(n, insertBlock, o)

LEMMA InsertStep ==
  ASSUME IInv, tasks # << >>, NEW x, NEW l, Insertable(x, l),
         NEW n, n = Insert(module, insertBlock, <<x>>)
  PROVE  Inserts(n, l) /\ Good(n, insertBlock, Ref(x.id))
  <1>1. nextId \in Nat \ {0} /\ ModuleOk(module, nextId) /\ PlaceOk(module, insertBlock)
    BY TopShape
  <1>2. /\ l \in Nat \ {0} /\ nextId <= l
        /\ x \in Code(Below(l)) /\ (x.id = NoId \/ x.id \notin Below(nextId))
        /\ \A p \in 1..Len(x.args) : Good(module, insertBlock, x.args[p])
        /\ \A t \in 1..Len(x.targets) :
             insertBlock # NoBlock => x.targets[t] \in 1..Len(module[insertBlock[1]].blocks)
    BY DEF Insertable
  <1>3. ModuleOk(n, l) /\ Len(n) = Len(module) /\ Extends(module, n) /\ Good(n, insertBlock, Ref(x.id))
    BY <1>1, <1>2, Inserted
  <1>4. PlaceOk(n, insertBlock) /\ \A o : Good(module, insertBlock, o) => Good(n, insertBlock, o)
    BY <1>1, <1>2, <1>3, ExtendsKeeps
  <1> QED BY <1>3, <1>4 DEF Inserts

LEMMA InsertNothing ==
  ASSUME IInv, tasks # << >>
  PROVE  Inserts(module, nextId)
  <1>1. ModuleOk(module, nextId) /\ PlaceOk(module, insertBlock)
    BY TopShape
  <1>2. Extends(module, module)
    BY <1>1, ExtendsSelf
  <1> QED BY <1>1, <1>2 DEF Inserts

LEMMA InsertAdvances ==
  ASSUME IInv, tasks # << >>, Inserts(module', nextId'),
         nextId' \in Nat \ {0}, nextId <= nextId',
         ast' = ast, currentFunction' = currentFunction, namedValues' = namedValues,
         insertBlock' = insertBlock, lastValue' \in Operands(Below(nextId')), crashed' \in BOOLEAN
  PROVE  Advances
  <1>1. ModuleOk(module', nextId') /\ Extends(module, module') /\ PlaceOk(module', insertBlock')
    BY Zenon DEF Inserts
  <1> QED BY <1>1, Zenon DEF Advances

LEMMA AdvancesInPlace ==
  ASSUME IInv, tasks # << >>, Inserts(module', nextId),
         ast' = ast, currentFunction' = currentFunction, namedValues' = namedValues,
         insertBlock' = insertBlock, lastValue' \in Operands(Below(nextId)),
         nextId' = nextId, crashed' \in BOOLEAN
  PROVE  Advances
  <1>1. nextId' \in Nat \ {0} /\ nextId <= nextId'
    BY TopShape
  <1>2. Inserts(module', nextId') /\ lastValue' \in Operands(Below(nextId'))
    BY Zenon
  <1> QED BY <1>1, <1>2, InsertAdvances

(* The insertion point moves to a block of the same function.              *)
LEMMA AdvancesToBlock ==
  ASSUME IInv, tasks # << >>, Inserts(module', nextId),
         insertBlock # NoBlock, insertBlock[1] = currentFunction,
         NEW b \in 1..Len(module'[currentFunction].blocks), insertBlock' = BlockIn(b),
         ast' = ast, currentFunction' = currentFunction, namedValues' = namedValues,
         lastValue' = lastValue, nextId' = nextId, crashed' = crashed
  PROVE  Advances /\ insertBlock' # NoBlock /\ insertBlock'[1] = currentFunction
  <1>1. /\ nextId \in Nat \ {0} /\ lastValue \in Operands(Below(nextId)) /\ crashed \in BOOLEAN
        /\ PlaceOk(module, insertBlock) /\ Len(module) \in Nat
    BY TopShape
  <1>2. ModuleOk(module', nextId) /\ Extends(module, module') /\ Len(module') = Len(module)
    BY DEF Inserts
  <1>3. currentFunction \in 1..Len(module')
    <2>1. PICK f \in 1..Len(module) : \E c \in 1..Len(module[f].blocks) : insertBlock = <<f, c>>
      BY <1>1 DEF PlaceOk
    <2> QED BY <1>2, <2>1
  <1>4. insertBlock' = <<currentFunction, b>>
    BY DEF BlockIn
  <1>5. PlaceOk(module', insertBlock')
    BY <1>3, <1>4 DEF PlaceOk
  <1>6. insertBlock' # NoBlock /\ insertBlock'[1] = currentFunction
    BY <1>1, <1>2, <1>3, <1>4 DEF NoBlock
  <1>7. nextId' \in Nat \ {0} /\ nextId <= nextId' /\ lastValue' \in Operands(Below(nextId'))
    BY <1>1
  <1>8. ModuleOk(module', nextId') /\ crashed' \in BOOLEAN
    BY <1>1, <1>2
  <1>9. Advances
    BY <1>2, <1>5, <1>6, <1>7, <1>8, Zenon DEF Advances
  <1> QED BY <1>6, <1>9

(* The instructions that the actions insert.                               *)
LEMMA Insertables ==
  ASSUME IInv, tasks # << >>,
         NEW x \in Operands(Below(nextId)), Good(module, insertBlock, x),
         NEW y \in Operands(Below(nextId)), Good(module, insertBlock, y)
  PROVE  /\ Insertable(Store(x, y), nextId) /\ Insertable(Ret(x), nextId)
         /\ Insertable(RetVoid, nextId) /\ Insertable(Alloca(nextId), nextId + 1)
         /\ Insertable(Load(nextId, x), nextId + 1)
         /\ Insertable(AddInst(nextId, x, y), nextId + 1)
         /\ Insertable(SubInst(nextId, x, y), nextId + 1)
  <1> DEFINE k == nextId
             l == nextId + 1
             Takes(c) == \A p \in 1..Len(c.args) : c.args[p] = x \/ c.args[p] = y
             NoTarget(c) == 1..Len(c.targets) = {}
  <1>1. k \in Nat \ {0} /\ NoId \in Below(k) /\ l \in Nat \ {0} /\ k <= l
        /\ k \in Below(l) /\ k \notin Below(k) /\ x \in Operands(Below(l)) /\ y \in Operands(Below(l))
    <2>1. k \in Nat \ {0} /\ NoId \in Below(k)
      BY TopShape DEF Below
    <2>2. l \in Nat \ {0} /\ k <= l /\ k \in Below(l) /\ k \notin Below(k)
      BY <2>1, FreshValue
    <2>3. x \in Operands(Below(l)) /\ y \in Operands(Below(l))
      BY <2>1, <2>2, OperandsGrow
    <2> QED BY <2>1, <2>2, <2>3
  <1>2. /\ Takes(Store(x, y)) /\ Takes(Ret(x)) /\ Takes(RetVoid) /\ Takes(Alloca(k))
        /\ Takes(Load(k, x)) /\ Takes(AddInst(k, x, y)) /\ Takes(SubInst(k, x, y))
    BY DEF Store, Ret, RetVoid, Alloca, Load, AddInst, SubInst, Instr
  <1>3. /\ NoTarget(Store(x, y)) /\ NoTarget(Ret(x)) /\ NoTarget(RetVoid) /\ NoTarget(Alloca(k))
        /\ NoTarget(Load(k, x)) /\ NoTarget(AddInst(k, x, y)) /\ NoTarget(SubInst(k, x, y))
    BY DEF Store, Ret, RetVoid, Alloca, Load, AddInst, SubInst, Instr
  <1>4. /\ Store(x, y) \in Code(Below(k)) /\ Ret(x) \in Code(Below(k)) /\ RetVoid \in Code(Below(k))
        /\ Store(x, y).id = NoId /\ Ret(x).id = NoId /\ RetVoid.id = NoId
    <2>1. Store(x, y).id = NoId /\ Ret(x).id = NoId /\ RetVoid.id = NoId
      BY DEF Store, Ret, RetVoid, Instr
    <2> QED BY <1>1, <2>1, InstructionTypes
  <1>5. /\ Alloca(k) \in Code(Below(l)) /\ Load(k, x) \in Code(Below(l))
        /\ AddInst(k, x, y) \in Code(Below(l)) /\ SubInst(k, x, y) \in Code(Below(l))
        /\ Alloca(k).id = k /\ Load(k, x).id = k /\ AddInst(k, x, y).id = k
        /\ SubInst(k, x, y).id = k
    <2>1. /\ Alloca(k).id = k /\ Load(k, x).id = k /\ AddInst(k, x, y).id = k
          /\ SubInst(k, x, y).id = k
      BY DEF Alloca, Load, AddInst, SubInst, Instr
    <2> QED BY <1>1, <2>1, InstructionTypes
  <1>6. ASSUME NEW c, NEW j, j = k \/ j = l, Takes(c), NoTarget(c), c \in Code(Below(j)),
               c.id = NoId \/ c.id = k
        PROVE  Insertable(c, j)
    <2>1. \A p \in 1..Len(c.args) : Good(module, insertBlock, c.args[p])
      BY <1>6
    <2>2. j \in Nat \ {0} /\ nextId <= j /\ (c.id = NoId \/ c.id \notin Below(nextId))
      BY <1>1, <1>6
    <2>3. 1..Len(c.targets) = {}
      BY <1>6
    <2> QED BY <1>6, <2>1, <2>2, <2>3 DEF Insertable
  <1> HIDE DEF Takes, NoTarget
  <1>7. /\ Insertable(Store(x, y), k) /\ Insertable(Ret(x), k) /\ Insertable(RetVoid, k)
    BY <1>2, <1>3, <1>4, <1>6
  <1>8. Insertable(Alloca(k), l) /\ Insertable(Load(k, x), l)
    BY <1>2, <1>3, <1>5, <1>6
  <1>9. Insertable(AddInst(k, x, y), l) /\ Insertable(SubInst(k, x, y), l)
    BY <1>2, <1>3, <1>5, <1>6
  <1> QED BY <1>7, <1>8, <1>9

LEMMA InsertableBranches ==
  ASSUME IInv, tasks # << >>,
         NEW x \in Operands(Below(nextId)), Good(module, insertBlock, x),
         insertBlock[1] = currentFunction,
         NEW b \in 1..Len(module[currentFunction].blocks),
         NEW c \in 1..Len(module[currentFunction].blocks)
  PROVE  Insertable(Br(b), nextId) /\ Insertable(CondBr(x, b, c), nextId)
  <1>1. nextId \in Nat \ {0} /\ nextId <= nextId /\ NoId \in Below(nextId)
    BY TopShape DEF Below
  <1>2. b \in Nat \ {0} /\ c \in Nat \ {0}
    OBVIOUS
  <1>3. Br(b) \in Code(Below(nextId)) /\ CondBr(x, b, c) \in Code(Below(nextId))
    BY <1>1, <1>2, InstructionTypes
  <1>4. Br(b).id = NoId /\ CondBr(x, b, c).id = NoId
    BY DEF Br, CondBr, Instr
  <1>5. /\ \A p \in 1..Len(Br(b).args) : Good(module, insertBlock, Br(b).args[p])
        /\ \A p \in 1..Len(CondBr(x, b, c).args) :
             Good(module, insertBlock, CondBr(x, b, c).args[p])
    BY DEF Br, CondBr, Instr
  <1>6. /\ \A t \in 1..Len(Br(b).targets) :
             Br(b).targets[t] \in 1..Len(module[insertBlock[1]].blocks)
        /\ \A t \in 1..Len(CondBr(x, b, c).targets) :
             CondBr(x, b, c).targets[t] \in 1..Len(module[insertBlock[1]].blocks)
    BY DEF Br, CondBr, Instr
  <1>7. Insertable(Br(b), nextId)
    BY <1>1, <1>3, <1>4, <1>5, <1>6 DEF Insertable
  <1>8. Insertable(CondBr(x, b, c), nextId)
    BY <1>1, <1>3, <1>4, <1>5, <1>6 DEF Insertable
  <1> QED BY <1>7, <1>8

(* A block that is there stays.                                            *)
LEMMA BlocksStay ==
  ASSUME IInv, tasks # << >>, NEW l, NEW n, Inserts(n, l),
         insertBlock # NoBlock, insertBlock[1] = currentFunction
  PROVE  /\ currentFunction \in 1..Len(module)
         /\ \A b \in 1..Len(module[currentFunction].blocks) :
              b \in 1..Len(n[currentFunction].blocks)
  <1>1. PlaceOk(module, insertBlock) /\ ModuleOk(module, nextId) /\ ModuleOk(n, l)
        /\ Extends(module, n) /\ Len(n) = Len(module)
    BY TopShape DEF Inserts
  <1>2. currentFunction \in 1..Len(module)
    <2>1. PICK f \in 1..Len(module) : \E c \in 1..Len(module[f].blocks) : insertBlock = <<f, c>>
      BY <1>1 DEF PlaceOk
    <2> QED BY <2>1
  <1>3. /\ Len(module[currentFunction].blocks) \in Nat /\ Len(n[currentFunction].blocks) \in Nat
        /\ Len(module[currentFunction].blocks) <= Len(n[currentFunction].blocks)
    BY <1>1, <1>2, ModuleShape DEF ModuleOk, Extends
  <1> QED BY <1>2, <1>3

(* What is known of the first task in an action, and of its node.          *)
LEMMA TopVisit ==
  ASSUME IInv, NEW K, Visiting(K)
  PROVE  /\ tasks # << >> /\ crashed = FALSE /\ top.do = "visit" /\ top.node \in DOMAIN ast
         /\ node = ast[top.node] /\ node.kind \in K /\ KindOf(ast, top) = node.kind
         /\ node.name \in Names /\ node.num \in Int
         /\ node.kids \in Seq(DOMAIN ast) /\ Len(node.kids) \in Nat
         /\ \A k \in 1..Len(node.kids) : node.kids[k] \in DOMAIN ast
         /\ ~Reads(top) /\ (Yields(ast, top) => node.kind \in ExprKinds)
         /\ node.kind \in StmtKinds =>
              InBody(ast, top) /\ insertBlock # NoBlock /\ insertBlock[1] = currentFunction
  <1>1. tasks # << >> /\ crashed = FALSE /\ top.do = "visit" /\ node.kind \in K
    BY TopShape DEF Visiting, Doing
  <1>2. /\ TreeOk(ast) /\ top.node \in DOMAIN ast
        /\ Fits(ast, top, module, currentFunction, insertBlock, nextId)
    BY <1>1, TopShape
  <1>3. node = ast[top.node] /\ KindOf(ast, top) = node.kind
    BY DEF node, KindOf
  <1>4. /\ node.name \in Names /\ node.num \in Int
        /\ node.kids \in Seq(DOMAIN ast) /\ Len(node.kids) \in Nat
        /\ \A k \in 1..Len(node.kids) : node.kids[k] \in DOMAIN ast
    BY <1>2, <1>3, TreeShape
  <1>5. ~Reads(top) /\ (Yields(ast, top) => node.kind \in ExprKinds)
    BY <1>1, <1>3 DEF Reads, Yields
  <1>6. node.kind \in StmtKinds => InBody(ast, top)
    BY <1>1, <1>3 DEF InBody
  <1>7. InBody(ast, top) => insertBlock # NoBlock /\ insertBlock[1] = currentFunction
    BY <1>2 DEF Fits
  <1> QED BY <1>1, <1>2, <1>3, <1>4, <1>5, <1>6, <1>7

LEMMA TopDoing ==
  ASSUME IInv, NEW do, Doing(do), do # "visit"
  PROVE  /\ tasks # << >> /\ crashed = FALSE /\ top.do = do /\ top.node \in DOMAIN ast
         /\ node = ast[top.node] /\ KindOf(ast, top) = node.kind
         /\ top \in TaskSet(ast) /\ TaskOk(ast, top)
         /\ Yields(ast, top) => do \in {"offset", "assign", "rhs", "combine"}
         /\ top.blocks # << >> => insertBlock # NoBlock /\ insertBlock[1] = currentFunction
         /\ top.blocks # << >> => \A b : Kept(b) = BlockIn(b) /\ Target(Kept(b)) = b
         /\ \A p \in 1..Len(top.blocks) :
              top.blocks[p] \in 1..Len(module[currentFunction].blocks)
         /\ top.val \in Operands(Below(nextId)) /\ Good(module, insertBlock, top.val)
         /\ Reads(top) => Good(module, insertBlock, lastValue)
  <1>1. tasks # << >> /\ crashed = FALSE /\ top.do = do
    BY TopShape DEF Doing
  <1>2. /\ top.node \in DOMAIN ast /\ top \in TaskSet(ast) /\ TaskOk(ast, top)
        /\ Fits(ast, top, module, currentFunction, insertBlock, nextId)
        /\ Reads(top) => Good(module, insertBlock, lastValue)
    BY <1>1, TopShape
  <1>3. node = ast[top.node] /\ KindOf(ast, top) = node.kind
    BY DEF node, KindOf
  <1>4. Yields(ast, top) => do \in {"offset", "assign", "rhs", "combine"}
    BY <1>1 DEF Yields
  <1>5. /\ top.blocks # << >> => insertBlock # NoBlock /\ insertBlock[1] = currentFunction
        /\ top.blocks # << >> => top.func = currentFunction
        /\ \A p \in 1..Len(top.blocks) :
             top.blocks[p] \in 1..Len(module[currentFunction].blocks)
        /\ top.val \in Operands(Below(nextId)) /\ Good(module, insertBlock, top.val)
    BY <1>2 DEF Fits, InBody
  <1>6. top.blocks # << >> => \A b : Kept(b) = BlockIn(b) /\ Target(Kept(b)) = b
    BY <1>5 DEF Kept, BlockIn, Target
  <1> QED BY <1>1, <1>2, <1>3, <1>4, <1>5, <1>6

(* The blocks that a visit method goes on with are of the function in      *)
(* hand, and a branch to one stays in it.                                  *)
LEMMA BlocksKept ==
  ASSUME IInv, NEW do \in {"branch", "endThen", "endElse", "loop", "endBody"}, Doing(do)
  PROVE  \A b : Kept(b) = BlockIn(b) /\ Target(Kept(b)) = b
  <1>1. do # "visit"
    OBVIOUS
  <1>2. /\ tasks # << >> /\ top.do = do /\ top.node \in DOMAIN ast /\ TaskOk(ast, top)
        /\ node = ast[top.node] /\ KindOf(ast, top) = node.kind
        /\ top.blocks # << >> => \A b : Kept(b) = BlockIn(b) /\ Target(Kept(b)) = b
    BY <1>1, TopDoing
  <1>3. TreeOk(ast)
    BY <1>2, TopShape
  <1>4. \/ node.kind = "if" /\ Len(top.blocks) = Len(node.kids)
        \/ Len(top.blocks) = 3
    BY <1>2 DEF TaskOk
  <1>5. node.kind = "if" => Len(node.kids) \in 2..3
    BY <1>2, <1>3, KidsShape
  <1>6. Len(top.blocks) # 0
    BY <1>4, <1>5
  <1>7. top.blocks # << >>
    BY <1>6
  <1> QED BY <1>2, <1>7

LEMMA BranchMade ==
  ASSUME IInv, BranchOnCondition
  PROVE  /\ module' = Insert(module, insertBlock,
                             <<CondBr(lastValue, top.blocks[1], top.blocks[2])>>)
         /\ insertBlock' = BlockIn(top.blocks[1])
  <1>1. "branch" \in {"branch", "endThen", "endElse", "loop", "endBody"} /\ Doing("branch")
    BY DEF BranchOnCondition
  <1>2. \A b : Kept(b) = BlockIn(b) /\ Target(Kept(b)) = b
    BY <1>1, BlocksKept
  <1> QED BY <1>2 DEF BranchOnCondition

LEMMA ThenEnded ==
  ASSUME IInv, EndThen
  PROVE  /\ module' = Insert(module, insertBlock, <<Br(Last(top.blocks))>>)
         /\ insertBlock' = BlockIn(top.blocks[2])
  <1>1. "endThen" \in {"branch", "endThen", "endElse", "loop", "endBody"} /\ Doing("endThen")
    BY DEF EndThen
  <1>2. \A b : Kept(b) = BlockIn(b) /\ Target(Kept(b)) = b
    BY <1>1, BlocksKept
  <1> QED BY <1>2 DEF EndThen

LEMMA ElseEnded ==
  ASSUME IInv, EndElse
  PROVE  /\ module' = Insert(module, insertBlock, <<Br(Last(top.blocks))>>)
         /\ insertBlock' = BlockIn(Last(top.blocks))
  <1>1. "endElse" \in {"branch", "endThen", "endElse", "loop", "endBody"} /\ Doing("endElse")
    BY DEF EndElse
  <1>2. \A b : Kept(b) = BlockIn(b) /\ Target(Kept(b)) = b
    BY <1>1, BlocksKept
  <1> QED BY <1>2 DEF EndElse

LEMMA LoopMade ==
  ASSUME IInv, LoopOnCondition
  PROVE  /\ module' = Insert(module, insertBlock,
                             <<CondBr(lastValue, top.blocks[2], top.blocks[3])>>)
         /\ insertBlock' = BlockIn(top.blocks[2])
  <1>1. "loop" \in {"branch", "endThen", "endElse", "loop", "endBody"} /\ Doing("loop")
    BY DEF LoopOnCondition
  <1>2. \A b : Kept(b) = BlockIn(b) /\ Target(Kept(b)) = b
    BY <1>1, BlocksKept
  <1> QED BY <1>2 DEF LoopOnCondition

LEMMA BodyEnded ==
  ASSUME IInv, EndBody
  PROVE  /\ module' = Insert(module, insertBlock, <<Br(top.blocks[1])>>)
         /\ insertBlock' = BlockIn(top.blocks[3])
  <1>1. "endBody" \in {"branch", "endThen", "endElse", "loop", "endBody"} /\ Doing("endBody")
    BY DEF EndBody
  <1>2. \A b : Kept(b) = BlockIn(b) /\ Target(Kept(b)) = b
    BY <1>1, BlocksKept
  <1> QED BY <1>2 DEF EndBody

(* A loop is entered in the function that the code is inserted into.       *)
LEMMA LoopEntered ==
  ASSUME IInv, VisitWhileStmt, NEW n,
         n = CreateBlocks(module, currentFunction, <<"while.cond", "while.body", "while.end">>)
  PROVE  module' = Insert(n, insertBlock, <<Br(NextBlock(1))>>)
  <1>1. Visiting({"while"})
    BY DEF VisitWhileStmt
  <1>2. node.kind \in {"while"}
    BY <1>1, TopVisit
  <1>3. node.kind \in StmtKinds
    BY <1>2 DEF StmtKinds
  <1>4. insertBlock[1] = currentFunction
    BY <1>1, <1>3, TopVisit
  <1>5. \A b : Target(BlockIn(b)) = b
    BY <1>4 DEF Target, BlockIn
  <1>6. module' = Insert(n, insertBlock,
                         <<Br(Target(BlockIn(<<NextBlock(1), NextBlock(2), NextBlock(3)>>[1])))>>)
    BY DEF VisitWhileStmt
  <1> QED BY <1>5, <1>6

-----------------------------------------------------------------------------
(* Every action keeps the invariant.                                       *)
LEMMA VisitChildrenKeeps ==
  ASSUME IInv, VisitChildren
  PROVE  IInv'
  <1> DEFINE ns == node.kids
  <1>1. Visiting({"unit", "compound", "exprstmt", "declstmt"})
    BY DEF VisitChildren
  <1>2. /\ tasks # << >> /\ top.do = "visit" /\ top.node \in DOMAIN ast
        /\ node = ast[top.node] /\ node.kind \in {"unit", "compound", "exprstmt", "declstmt"}
        /\ KindOf(ast, top) = node.kind /\ ns \in Seq(DOMAIN ast)
        /\ Yields(ast, top) => node.kind \in ExprKinds
        /\ node.kind \in StmtKinds => InBody(ast, top)
    BY <1>1, TopVisit
  <1>3. ~Yields(ast, top)
    BY <1>2 DEF ExprKinds
  <1>4. /\ tasks' = VisitAll(ns) \o Tail(tasks)
        /\ UNCHANGED <<ast, currentFunction, namedValues, module, insertBlock, lastValue, nextId,
                       crashed>>
    BY DEF VisitChildren, Continue, input, scope
  <1>5. TreeOk(ast)
    BY <1>2, TopShape
  <1>6. /\ node.kind = "unit" => \A k \in 1..Len(ns) : ast[ns[k]].kind \in DeclKinds
        /\ node.kind = "compound" => \A k \in 1..Len(ns) : ast[ns[k]].kind \in StmtKinds
        /\ node.kind = "exprstmt" => \A k \in 1..Len(ns) : ast[ns[k]].kind \in ExprKinds
        /\ node.kind = "declstmt" => \A k \in 1..Len(ns) : ast[ns[k]].kind = "vardecl"
    BY <1>2, <1>5, KidsShape
  <1> HIDE DEF ns
  <1>7. CASE node.kind = "unit"
    <2>1. Opens(ast, top) /\ \A k \in 1..Len(ns) : ast[ns[k]].kind \in DeclKinds
      BY <1>2, <1>6, <1>7 DEF Opens, OpenKinds
    <2> QED BY <1>2, <1>3, <1>4, <2>1, StepVisits
  <1>8. CASE node.kind \in {"compound", "exprstmt", "declstmt"}
    <2>1. InBody(ast, top)
      BY <1>2, <1>8 DEF StmtKinds
    <2>2. \A k \in 1..Len(ns) : ast[ns[k]].kind \notin OpenKinds
      BY <1>6, <1>8 DEF StmtKinds, ExprKinds, OpenKinds
    <2> QED BY <1>2, <1>3, <1>4, <2>1, <2>2, StepVisits
  <1> QED BY <1>2, <1>7, <1>8

LEMMA StoreInitializerKeeps ==
  ASSUME IInv, StoreInitializer
  PROVE  IInv'
  <1>1. Doing("store")
    BY DEF StoreInitializer
  <1>2. /\ tasks # << >> /\ crashed = FALSE /\ top.do = "store" /\ ~Yields(ast, top)
        /\ top.val \in Operands(Below(nextId)) /\ Good(module, insertBlock, top.val)
        /\ Good(module, insertBlock, lastValue)
    <2>1. "store" # "visit" /\ "store" \notin {"offset", "assign", "rhs", "combine"}
      OBVIOUS
    <2>2. top.do = "store" /\ Reads(top)
      BY <1>1 DEF Doing, Reads
    <2> QED BY <1>1, <2>1, <2>2, TopDoing
  <1>3. /\ nextId \in Nat \ {0} /\ ModuleOk(module, nextId) /\ PlaceOk(module, insertBlock)
        /\ lastValue \in Operands(Below(nextId))
    BY <1>2, TopShape
  <1>4. /\ tasks' = << >> \o Tail(tasks) /\ ast' = ast /\ currentFunction' = currentFunction
        /\ namedValues' = namedValues /\ insertBlock' = insertBlock /\ lastValue' = lastValue
        /\ nextId' = nextId /\ crashed' = crashed
    BY DEF StoreInitializer, Continue, input, scope
  <1>5. Inserts(module', nextId)
    <2>1. CASE lastValue = Null
      BY <1>2, <2>1, InsertNothing DEF StoreInitializer
    <2>2. CASE lastValue # Null
      <3>1. module' = Insert(module, insertBlock, <<Store(lastValue, top.val)>>)
        BY <2>2 DEF StoreInitializer
      <3>2. Insertable(Store(lastValue, top.val), nextId)
        BY <1>2, <1>3, Insertables
      <3> QED BY <1>2, <3>1, <3>2, InsertStep
    <2> QED BY <2>1, <2>2
  <1>6. Advances
    BY <1>2, <1>3, <1>4, <1>5, AdvancesInPlace
  <1> QED BY <1>2, <1>4, <1>6, StepNone

LEMMA CreateRetKeeps ==
  ASSUME IInv, CreateRet
  PROVE  IInv'
  <1>1. /\ tasks # << >> /\ ~Yields(ast, top) /\ Good(module, insertBlock, lastValue)
        /\ nextId \in Nat \ {0} /\ lastValue \in Operands(Below(nextId)) /\ crashed \in BOOLEAN
    <2>1. Doing("ret") /\ top.do = "ret" /\ Reads(top)
      BY DEF CreateRet, Doing, Reads
    <2>2. "ret" # "visit" /\ "ret" \notin {"offset", "assign", "rhs", "combine"}
      OBVIOUS
    <2>3. tasks # << >> /\ ~Yields(ast, top) /\ Good(module, insertBlock, lastValue)
      BY <2>1, <2>2, TopDoing
    <2> QED BY <2>3, TopShape
  <1>2. /\ tasks' = << >> \o Tail(tasks) /\ ast' = ast /\ currentFunction' = currentFunction
        /\ namedValues' = namedValues /\ insertBlock' = insertBlock /\ lastValue' = lastValue
        /\ nextId' = nextId /\ crashed' = crashed
    BY DEF CreateRet, Continue, input, scope
  <1>3. Inserts(module', nextId)
    <2> DEFINE x == IF lastValue = Null THEN RetVoid ELSE Ret(lastValue)
    <2>1. Insertable(x, nextId)
      BY <1>1, Insertables
    <2>2. module' = Insert(module, insertBlock, <<x>>)
      BY DEF CreateRet
    <2> HIDE DEF x
    <2> QED BY <1>1, <2>1, <2>2, InsertStep
  <1>4. Advances
    BY <1>1, <1>2, <1>3, AdvancesInPlace
  <1> QED BY <1>1, <1>2, <1>4, StepNone

LEMMA StoreAssignedKeeps ==
  ASSUME IInv, StoreAssigned
  PROVE  IInv'
  <1>1. /\ tasks # << >> /\ Good(module, insertBlock, lastValue)
        /\ top.val \in Operands(Below(nextId)) /\ Good(module, insertBlock, top.val)
        /\ nextId \in Nat \ {0} /\ lastValue \in Operands(Below(nextId)) /\ crashed \in BOOLEAN
    <2>1. Doing("assign") /\ top.do = "assign" /\ Reads(top)
      BY DEF StoreAssigned, Doing, Reads
    <2>2. /\ tasks # << >> /\ Good(module, insertBlock, lastValue)
          /\ top.val \in Operands(Below(nextId)) /\ Good(module, insertBlock, top.val)
      BY <2>1, TopDoing
    <2> QED BY <2>2, TopShape
  <1>2. /\ tasks' = << >> \o Tail(tasks) /\ ast' = ast /\ currentFunction' = currentFunction
        /\ namedValues' = namedValues /\ insertBlock' = insertBlock /\ lastValue' = lastValue
        /\ nextId' = nextId /\ crashed' = crashed
    BY DEF StoreAssigned, Continue, input, scope
  <1>3. Inserts(module', nextId)
    <2>1. CASE module' = module
      BY <1>1, <2>1, InsertNothing
    <2>2. CASE module' = Insert(module, insertBlock, <<Store(lastValue, top.val)>>)
      <3>1. Insertable(Store(lastValue, top.val), nextId)
        BY <1>1, Insertables
      <3> QED BY <1>1, <2>2, <3>1, InsertStep
    <2> QED BY <2>1, <2>2 DEF StoreAssigned
  <1>4. Advances
    BY <1>1, <1>2, <1>3, AdvancesInPlace
  <1>5. Good(module', insertBlock', lastValue')
    BY <1>1, <1>2, <1>3 DEF Inserts
  <1> QED BY <1>1, <1>2, <1>4, <1>5, StepNone

LEMMA VisitLiteralExprKeeps ==
  ASSUME IInv, VisitLiteralExpr
  PROVE  IInv'
  <1>1. tasks # << >> /\ node.num \in Int /\ crashed \in BOOLEAN /\ nextId \in Nat \ {0}
    <2>1. tasks # << >> /\ node.num \in Int
      BY TopVisit DEF VisitLiteralExpr
    <2> QED BY <2>1, TopShape
  <1>2. /\ tasks' = << >> \o Tail(tasks) /\ ast' = ast /\ currentFunction' = currentFunction
        /\ namedValues' = namedValues /\ insertBlock' = insertBlock /\ module' = module
        /\ lastValue' = Const(node.num) /\ nextId' = nextId /\ crashed' = crashed
    BY DEF VisitLiteralExpr, Continue, input, scope
  <1>3. lastValue' \in Operands(Below(nextId)) /\ Good(module', insertBlock', lastValue')
    BY <1>1, <1>2, FreshValue
  <1>4. Inserts(module', nextId)
    BY <1>1, <1>2, InsertNothing
  <1>5. Advances
    BY <1>1, <1>2, <1>3, <1>4, AdvancesInPlace
  <1> QED BY <1>1, <1>2, <1>3, <1>5, StepNone

LEMMA VariableKnown ==
  ASSUME IInv, tasks # << >>, NEW x \in Names
  PROVE  /\ Variable(x) \in Operands(Below(nextId)) /\ Good(module, insertBlock, Variable(x))
         /\ Null \in Operands(Below(nextId)) /\ Good(module, insertBlock, Null)
  <1>1. NamesGood(module, insertBlock, namedValues, nextId) /\ nextId \in Nat \ {0}
    BY TopShape
  <1>2. Null \in Operands(Below(nextId)) /\ Good(module, insertBlock, Null)
    BY <1>1, NullFits
  <1>3. namedValues[x] \in Below(nextId) /\ Good(module, insertBlock, Ref(namedValues[x]))
    BY <1>1 DEF NamesGood
  <1>4. Ref(namedValues[x]) \in Operands(Below(nextId))
    BY <1>3 DEF Ref, Operands
  <1> QED BY <1>2, <1>3, <1>4 DEF Variable

(* A new value: its instruction is inserted, and is the last value.        *)
LEMMA NewValue ==
  ASSUME IInv, tasks # << >>, NEW x, x.id = nextId, Insertable(x, nextId + 1),
         module' = Insert(module, insertBlock, <<x>>), lastValue' = Ref(nextId),
         nextId' = nextId + 1, insertBlock' = insertBlock, ast' = ast,
         currentFunction' = currentFunction, namedValues' = namedValues, crashed' \in BOOLEAN
  PROVE  Advances /\ Good(module', insertBlock', lastValue')
  <1>1. nextId \in Nat \ {0}
    BY TopShape
  <1>2. Inserts(module', nextId + 1) /\ Good(module', insertBlock, Ref(nextId))
    BY InsertStep
  <1>3. /\ nextId + 1 \in Nat \ {0} /\ nextId <= nextId + 1
        /\ Ref(nextId) \in Operands(Below(nextId + 1))
    BY <1>1, FreshValue
  <1>4. /\ Inserts(module', nextId') /\ nextId' \in Nat \ {0} /\ nextId <= nextId'
        /\ lastValue' \in Operands(Below(nextId'))
    BY <1>2, <1>3, Zenon
  <1>5. Advances
    BY <1>4, InsertAdvances
  <1>6. Good(module', insertBlock', lastValue')
    BY <1>2, Zenon
  <1> QED BY <1>5, <1>6

LEMMA VisitVariableExprKeeps ==
  ASSUME IInv, VisitVariableExpr
  PROVE  IInv'
  <1> DEFINE v == Variable(node.name)
  <1>1. tasks # << >> /\ node.name \in Names /\ crashed \in BOOLEAN
    <2>1. tasks # << >> /\ node.name \in Names
      BY TopVisit DEF VisitVariableExpr
    <2> QED BY <2>1, TopShape
  <1>2. /\ tasks' = << >> \o Tail(tasks) /\ ast' = ast /\ currentFunction' = currentFunction
        /\ namedValues' = namedValues /\ insertBlock' = insertBlock /\ crashed' = crashed
    BY DEF VisitVariableExpr, Continue, input, scope
  <1>3. /\ v \in Operands(Below(nextId)) /\ Good(module, insertBlock, v)
        /\ Null \in Operands(Below(nextId)) /\ Good(module, insertBlock, Null)
    BY <1>1, VariableKnown
  <1>4. \/ lastValue' = Null /\ module' = module /\ nextId' = nextId
        \/ /\ module' = Insert(module, insertBlock, <<Load(nextId, v)>>)
           /\ lastValue' = Ref(nextId) /\ nextId' = nextId + 1
    BY DEF VisitVariableExpr
  <1> HIDE DEF v
  <1>5. Advances /\ Good(module', insertBlock', lastValue')
    <2>1. CASE lastValue' = Null /\ module' = module /\ nextId' = nextId
      <3>1. Inserts(module', nextId)
        BY <1>1, <2>1, InsertNothing
      <3>2. Advances
        BY <1>1, <1>2, <1>3, <2>1, <3>1, AdvancesInPlace
      <3> QED BY <1>2, <1>3, <2>1, <3>2
    <2>2. CASE /\ module' = Insert(module, insertBlock, <<Load(nextId, v)>>)
               /\ lastValue' = Ref(nextId) /\ nextId' = nextId + 1
      <3>1. Insertable(Load(nextId, v), nextId + 1)
        BY <1>1, <1>3, Insertables
      <3>2. Load(nextId, v).id = nextId
        BY DEF Load, Instr
      <3> QED BY <1>1, <1>2, <2>2, <3>1, <3>2, NewValue
    <2> QED BY <1>4, <2>1, <2>2
  <1> QED BY <1>1, <1>2, <1>5, StepNone

(* The visit of a part of an expression or a statement, and what the       *)
(* method does when it is back.                                            *)
LEMMA LocalTask ==
  ASSUME NEW a,
         NEW do \in {"store", "ret", "offset", "assign", "rhs", "combine"},
         NEW n \in DOMAIN a, do \in {"assign", "rhs", "combine"} => a[n].kind = "binary",
         NEW m, NEW f, NEW at, NEW k \in Nat \ {0}, NEW v \in Operands(Below(k)), Good(m, at, v),
         NEW t, t = Task(do, n, v)
  PROVE  /\ t \in TaskSet(a) /\ TaskOk(a, t) /\ t.do = do
         /\ Fits(a, t, m, f, at, k)
  <1>1. /\ t.do = do /\ t.node = n /\ t.val = v /\ t.blocks = << >>
        /\ t = [do |-> do, node |-> n, val |-> v, func |-> 0, blocks |-> << >>]
    BY DEF Task
  <1>2. v \in Operands(Nat) /\ << >> \in Seq(Nat \ {0})
    <2>1. Below(k) \subseteq Nat
      BY DEF Below, NoId
    <2>2. v \in Operands(Nat)
      BY <2>1 DEF Operands
    <2> QED BY <2>2, EmptySeq
  <1>3. t \in TaskSet(a)
    BY <1>1, <1>2 DEF TaskSet
  <1>4. TaskOk(a, t)
    BY <1>1 DEF TaskOk, KindOf
  <1>5. Fits(a, t, m, f, at, k)
    BY <1>1 DEF Fits, InBody
  <1> QED BY <1>1, <1>3, <1>4, <1>5

LEMMA VisitOperand ==
  ASSUME IInv, tasks # << >>,
         NEW do \in {"ret", "offset", "assign", "rhs", "combine"},
         do \in {"assign", "rhs", "combine"} => node.kind = "binary",
         Yields(ast, top) => do \in {"offset", "assign", "rhs", "combine"},
         NEW c \in DOMAIN ast, ast[c].kind \in ExprKinds,
         NEW v \in Operands(Below(nextId)), Good(module, insertBlock, v),
         tasks' = <<Visit(c), Task(do, top.node, v)>> \o Tail(tasks),
         lastValue' \in {Null, lastValue},
         ast' = ast, currentFunction' = currentFunction, namedValues' = namedValues,
         module' = module, insertBlock' = insertBlock, nextId' = nextId, crashed' = crashed
  PROVE  IInv'
  <1> DEFINE t == Task(do, top.node, v)
  <1>1. /\ nextId \in Nat \ {0} /\ top.node \in DOMAIN ast /\ crashed \in BOOLEAN
        /\ lastValue \in Operands(Below(nextId)) /\ node = ast[top.node]
    BY TopShape DEF node
  <1>2. /\ t \in TaskSet(ast) /\ TaskOk(ast, t) /\ t.do = do
        /\ Fits(ast, t, module', currentFunction, insertBlock', nextId')
    <2>1. do \in {"store", "ret", "offset", "assign", "rhs", "combine"}
      OBVIOUS
    <2>2. do \in {"assign", "rhs", "combine"} => ast[top.node].kind = "binary"
      BY <1>1
    <2>3. t = Task(do, top.node, v)
      OBVIOUS
    <2>4. v \in Operands(Below(nextId)) /\ Good(module, insertBlock, v)
      OBVIOUS
    <2> HIDE DEF t
    <2>5. /\ t \in TaskSet(ast) /\ TaskOk(ast, t) /\ t.do = do
          /\ Fits(ast, t, module, currentFunction, insertBlock, nextId)
      <3>1. t \in TaskSet(ast)
        BY ONLY <1>1, <2>1, <2>2, <2>3, <2>4, LocalTask
      <3>2. TaskOk(ast, t)
        <4>1. t.do = do /\ t.node = top.node /\ t.blocks = << >> /\ t.func = 0
          BY <2>3 DEF Task
        <4>2. do \notin {"visit", "branch", "endThen", "endElse", "loop", "endBody"}
          BY <2>1
        <4> QED BY <2>2, <4>1, <4>2 DEF TaskOk, KindOf
      <3>3. Fits(ast, t, module, currentFunction, insertBlock, nextId)
        BY ONLY <1>1, <2>1, <2>2, <2>3, <2>4, LocalTask
      <3>4. t.do = do
        BY <2>3 DEF Task
      <3> QED BY <3>1, <3>2, <3>3, <3>4
    <2> QED BY <2>5
  <1>3. tasks' = <<Visit(c), t>> \o Tail(tasks)
    OBVIOUS
  <1> HIDE DEF t
  <1>4. Null \in Operands(Below(nextId))
    BY <1>1, NullFits
  <1>5. Inserts(module', nextId)
    BY InsertNothing
  <1>6. Advances
    BY <1>1, <1>4, <1>5, AdvancesInPlace
  <1>7. ast[c].kind \notin OpenKinds /\ ast[c].kind \notin StmtKinds /\ t.do # "visit"
    BY <1>2 DEF ExprKinds, OpenKinds, StmtKinds
  <1>8. Yields(ast, top) => Yields(ast, t)
    BY <1>2 DEF Yields
  <1> QED BY <1>2, <1>3, <1>6, <1>7, <1>8, StepThen

LEMMA VisitMemberExprKeeps ==
  ASSUME IInv, VisitMemberExpr
  PROVE  IInv'
  <1>1. /\ tasks # << >> /\ node.kind = "member" /\ top.node \in DOMAIN ast
        /\ node = ast[top.node] /\ \A k \in 1..Len(node.kids) : node.kids[k] \in DOMAIN ast
    <2>1. Visiting({"member"})
      BY DEF VisitMemberExpr
    <2>2. node.kind \in {"member"}
      BY <2>1, TopVisit
    <2> QED BY <2>1, <2>2, TopVisit
  <1>2. TreeOk(ast) /\ nextId \in Nat \ {0}
    BY <1>1, TopShape
  <1>3. kid(1) \in DOMAIN ast /\ ast[kid(1)].kind \in ExprKinds
    BY <1>1, <1>2, KidsShape DEF kid
  <1>4. Null \in Operands(Below(nextId)) /\ Good(module, insertBlock, Null)
    BY <1>2, NullFits
  <1>5. /\ tasks' = <<Visit(kid(1)), Task("offset", top.node, Null)>> \o Tail(tasks)
        /\ lastValue' = Null
        /\ ast' = ast /\ currentFunction' = currentFunction /\ namedValues' = namedValues
        /\ module' = module /\ insertBlock' = insertBlock /\ nextId' = nextId
        /\ crashed' = crashed
    BY DEF VisitMemberExpr, Continue, input, scope
  <1> QED BY <1>1, <1>3, <1>4, <1>5, VisitOperand

LEMMA VisitAssignmentKeeps ==
  ASSUME IInv, VisitAssignment
  PROVE  IInv'
  <1> DEFINE target == ast[kid(1)]
             v == IF target.kind = "variable" THEN Variable(target.name) ELSE Null
  <1>1. /\ tasks # << >> /\ node.kind = "binary" /\ top.node \in DOMAIN ast
        /\ node = ast[top.node] /\ \A k \in 1..Len(node.kids) : node.kids[k] \in DOMAIN ast
    <2>1. Visiting({"binary"})
      BY DEF VisitAssignment
    <2>2. node.kind \in {"binary"}
      BY <2>1, TopVisit
    <2> QED BY <2>1, <2>2, TopVisit
  <1>2. TreeOk(ast) /\ nextId \in Nat \ {0}
    BY <1>1, TopShape
  <1>3. /\ kid(1) \in DOMAIN ast /\ kid(2) \in DOMAIN ast /\ ast[kid(2)].kind \in ExprKinds
    BY <1>1, <1>2, KidsShape DEF kid
  <1>4. v \in Operands(Below(nextId)) /\ Good(module, insertBlock, v)
    <2>1. target.name \in Names
      BY <1>2, <1>3, TreeShape
    <2> QED BY <1>1, <2>1, VariableKnown
  <1>5. /\ tasks' = <<Visit(kid(2)), Task("assign", top.node, v)>> \o Tail(tasks)
        /\ lastValue' = Null
        /\ ast' = ast /\ currentFunction' = currentFunction /\ namedValues' = namedValues
        /\ module' = module /\ insertBlock' = insertBlock /\ nextId' = nextId
        /\ crashed' = crashed
    BY DEF VisitAssignment, Continue, input, scope
  <1> HIDE DEF v
  <1> QED BY <1>1, <1>3, <1>4, <1>5, VisitOperand

LEMMA VisitBinaryExprKeeps ==
  ASSUME IInv, VisitBinaryExpr
  PROVE  IInv'
  <1>1. /\ tasks # << >> /\ node.kind = "binary" /\ top.node \in DOMAIN ast
        /\ node = ast[top.node] /\ \A k \in 1..Len(node.kids) : node.kids[k] \in DOMAIN ast
    <2>1. Visiting({"binary"})
      BY DEF VisitBinaryExpr
    <2>2. node.kind \in {"binary"}
      BY <2>1, TopVisit
    <2> QED BY <2>1, <2>2, TopVisit
  <1>2. TreeOk(ast) /\ nextId \in Nat \ {0}
    BY <1>1, TopShape
  <1>3. kid(1) \in DOMAIN ast /\ ast[kid(1)].kind \in ExprKinds
    BY <1>1, <1>2, KidsShape DEF kid
  <1>4. Null \in Operands(Below(nextId)) /\ Good(module, insertBlock, Null)
    BY <1>2, NullFits
  <1>5. /\ tasks' = <<Visit(kid(1)), Task("rhs", top.node, Null)>> \o Tail(tasks)
        /\ lastValue' = Null
        /\ ast' = ast /\ currentFunction' = currentFunction /\ namedValues' = namedValues
        /\ module' = module /\ insertBlock' = insertBlock /\ nextId' = nextId
        /\ crashed' = crashed
    BY DEF VisitBinaryExpr, Continue, input, scope
  <1> QED BY <1>1, <1>3, <1>4, <1>5, VisitOperand

LEMMA VisitRightOperandKeeps ==
  ASSUME IInv, VisitRightOperand
  PROVE  IInv'
  <1>1. /\ tasks # << >> /\ top.do = "rhs" /\ top.node \in DOMAIN ast /\ node = ast[top.node]
        /\ KindOf(ast, top) = node.kind /\ TaskOk(ast, top)
        /\ Good(module, insertBlock, lastValue)
    <2>1. Doing("rhs") /\ top.do = "rhs" /\ Reads(top)
      BY DEF VisitRightOperand, Doing, Reads
    <2> QED BY <2>1, TopDoing
  <1>2. /\ TreeOk(ast) /\ nextId \in Nat \ {0} /\ lastValue \in Operands(Below(nextId))
    BY <1>1, TopShape
  <1>3. node.kind = "binary"
    BY <1>1 DEF TaskOk
  <1>4. kid(2) \in DOMAIN ast /\ ast[kid(2)].kind \in ExprKinds
    <2>1. Len(node.kids) = 2 /\ ast[node.kids[2]].kind \in ExprKinds
      BY <1>1, <1>2, <1>3, KidsShape
    <2>2. \A k \in 1..Len(node.kids) : node.kids[k] \in DOMAIN ast
      BY <1>1, <1>2, TreeShape
    <2> QED BY <2>1, <2>2 DEF kid
  <1>5. /\ tasks' = <<Visit(kid(2)), Task("combine", top.node, lastValue)>> \o Tail(tasks)
        /\ lastValue' = Null
        /\ ast' = ast /\ currentFunction' = currentFunction /\ namedValues' = namedValues
        /\ module' = module /\ insertBlock' = insertBlock /\ nextId' = nextId
        /\ crashed' = crashed
    BY DEF VisitRightOperand, Continue, input, scope
  <1> QED BY <1>1, <1>2, <1>3, <1>4, <1>5, VisitOperand

(* Short sequences.                                                        *)
LEMMA OneOrNone ==
  ASSUME NEW S, NEW s \in Seq(S), s # << >>, Len(s) <= 1
  PROVE  s = <<s[1]>> /\ Len(s) = 1
  <1>1. Len(s) = 1
    <2>1. Len(s) \in Nat /\ Len(s) # 0
      BY EmptySeq, LenProperties
    <2> QED BY <2>1
  <1> QED BY <1>1

LEMMA VisitOne ==
  ASSUME NEW n
  PROVE  VisitAll(<<n>>) = <<Visit(n)>>
  <1>1. DOMAIN <<n>> = 1..1 /\ \A k \in 1..1 : <<n>>[k] = n
    OBVIOUS
  <1>2. [k \in 1..1 |-> Visit(n)] = <<Visit(n)>>
    OBVIOUS
  <1> QED BY <1>1, <1>2 DEF VisitAll

LEMMA VisitAllNone ==
  VisitAll(<< >>) \o << >> = << >>
  <1>1. VisitAll(<< >>) = << >>
    BY DEF VisitAll
  <1> QED BY <1>1

LEMMA PairOfOnes ==
  ASSUME NEW x, NEW y
  PROVE  <<x>> \o <<y>> = <<x, y>>
  <1> DEFINE S == {x, y}
             p == <<x>> \o <<y>>
  <1>1. <<x>> \in Seq(S) /\ <<y>> \in Seq(S) /\ <<x, y>> \in Seq(S)
    OBVIOUS
  <1>2. p \in Seq(S) /\ Len(p) = 2 /\ p[1] = x /\ p[2] = y
    BY <1>1, ConcatProperties
  <1> HIDE DEF p
  <1>3. p = <<x, y>>
    BY <1>1, <1>2
  <1> QED BY <1>3 DEF p

LEMMA OneAndTwo ==
  ASSUME NEW x, NEW y, NEW z
  PROVE  <<x, y, z>> = <<x>> \o <<y, z>>
  <1> DEFINE S == {x, y, z}
             p == <<x>> \o <<y, z>>
  <1>1. <<x>> \in Seq(S) /\ <<y, z>> \in Seq(S) /\ <<x, y, z>> \in Seq(S)
    OBVIOUS
  <1>2. p \in Seq(S) /\ Len(p) = 3 /\ p[1] = x /\ p[2] = y /\ p[3] = z
    BY <1>1, ConcatProperties
  <1> HIDE DEF p
  <1>3. p = <<x, y, z>>
    BY <1>1, <1>2
  <1> QED BY <1>3 DEF p

LEMMA ShortLists ==
  ASSUME NEW S, NEW x \in S, NEW y \in S, NEW z \in S
  PROVE  /\ <<x, y>> \in Seq(S) /\ Len(<<x, y>>) = 2
         /\ <<x, y, z>> \in Seq(S) /\ Len(<<x, y, z>>) = 3
  OBVIOUS

LEMMA StringsGiven ==
  /\ "if.then" \in STRING /\ "if.else" \in STRING /\ "if.end" \in STRING
  /\ "while.cond" \in STRING /\ "while.body" \in STRING /\ "while.end" \in STRING
  /\ "entry" \in STRING /\ Names \subseteq STRING
  BY NamesAssumption DEF BlockNames

LEMMA InsertedNone ==
  ASSUME NEW k, NEW m, ModuleOk(m, k), NEW at, PlaceOk(m, at)
  PROVE  Insert(m, at, << >>) = m
  <1>1. CASE at = NoBlock
    BY <1>1 DEF Insert
  <1>2. CASE at # NoBlock
    <2>1. PICK f \in 1..Len(m) : \E b \in 1..Len(m[f].blocks) : at = <<f, b>>
      BY <1>2 DEF PlaceOk
    <2>2. PICK b \in 1..Len(m[f].blocks) : at = <<f, b>>
      BY <2>1
    <2>3. at[1] = f /\ at[2] = b
      BY <2>2
    <2> DEFINE code == m[f].blocks[b].insts
               blk == [m[f].blocks[b] EXCEPT !.insts = code]
               blocks == [m[f].blocks EXCEPT ![b] = blk]
               fun == [m[f] EXCEPT !.blocks = blocks]
    <2>4. /\ m \in Seq(Functions(Below(k))) /\ m[f] \in Functions(Below(k))
          /\ m[f].blocks \in Seq(Blocks(Below(k)))
          /\ m[f].blocks[b] \in Blocks(Below(k)) /\ code \in Seq(Code(Below(k)))
      <3>1. m \in Seq(Functions(Below(k))) /\ m[f] \in Functions(Below(k))
        BY ElementOfSeq DEF ModuleOk
      <3>2. m[f].blocks \in Seq(Blocks(Below(k)))
        BY <3>1 DEF Functions
      <3>3. m[f].blocks[b] \in Blocks(Below(k))
        BY <3>2, ElementOfSeq
      <3> QED BY <3>1, <3>2, <3>3 DEF Blocks, Code
    <2>5. code \o << >> = code
      BY <2>4, ConcatEmptySeq
    <2>6. Insert(m, at, << >>) = [m EXCEPT ![f].blocks[b].insts = code \o << >>]
      BY <1>2, <2>3, Zenon DEF Insert
    <2>7. Insert(m, at, << >>) = [m EXCEPT ![f] = fun]
      BY <2>5, <2>6
    <2>8. blk = m[f].blocks[b]
      BY <2>4 DEF Blocks
    <2> HIDE DEF blk
    <2>9. blocks = m[f].blocks
      BY <2>4, <2>8
    <2> HIDE DEF blocks
    <2>10. fun = m[f]
      BY <2>4, <2>9 DEF Functions
    <2> HIDE DEF fun
    <2>11. [m EXCEPT ![f] = fun] = m
      BY <2>4, <2>10
    <2> QED BY <2>7, <2>11
  <1> QED BY <1>1, <1>2

LEMMA VisitReturnStmtKeeps ==
  ASSUME IInv, VisitReturnStmt
  PROVE  IInv'
  <1>1. /\ tasks # << >> /\ node.kind = "return" /\ top.node \in DOMAIN ast
        /\ node = ast[top.node] /\ node.kids \in Seq(DOMAIN ast) /\ Len(node.kids) \in Nat
        /\ \A k \in 1..Len(node.kids) : node.kids[k] \in DOMAIN ast
        /\ ~Yields(ast, top)
    <2>1. Visiting({"return"})
      BY DEF VisitReturnStmt
    <2>2. node.kind \in {"return"} /\ (Yields(ast, top) => node.kind \in ExprKinds)
      BY <2>1, TopVisit
    <2>3. "return" \notin ExprKinds
      BY DEF ExprKinds
    <2> QED BY <2>1, <2>2, <2>3, TopVisit
  <1>2. /\ TreeOk(ast) /\ nextId \in Nat \ {0} /\ crashed \in BOOLEAN
        /\ lastValue \in Operands(Below(nextId))
    BY <1>1, TopShape
  <1>3. Null \in Operands(Below(nextId)) /\ Good(module, insertBlock, Null)
    BY <1>2, NullFits
  <1>4. /\ ast' = ast /\ currentFunction' = currentFunction /\ namedValues' = namedValues
        /\ insertBlock' = insertBlock /\ nextId' = nextId /\ lastValue' = lastValue
        /\ crashed' = crashed
    BY DEF VisitReturnStmt, Continue, input, scope
  <1>5. CASE node.kids = << >>
    <2>1. /\ module' = Insert(module, insertBlock, <<RetVoid>>)
          /\ tasks' = << >> \o Tail(tasks)
      BY <1>5 DEF VisitReturnStmt, Continue
    <2>2. Insertable(RetVoid, nextId)
      BY <1>1, <1>3, Insertables
    <2>3. Inserts(module', nextId)
      BY <1>1, <2>1, <2>2, InsertStep
    <2>4. Advances
      BY <1>1, <1>2, <1>4, <2>3, AdvancesInPlace
    <2> QED BY <1>1, <2>1, <2>4, StepNone
  <1>6. CASE node.kids # << >>
    <2>1. Len(node.kids) <= 1 /\ \A k \in 1..Len(node.kids) : ast[node.kids[k]].kind \in ExprKinds
      BY <1>1, <1>2, KidsShape
    <2>2. node.kids = <<node.kids[1]>> /\ Len(node.kids) = 1
      BY <1>1, <1>6, <2>1, OneOrNone
    <2>3. node.kids[1] \in DOMAIN ast /\ ast[node.kids[1]].kind \in ExprKinds
      BY <1>1, <2>1, <2>2
    <2>4. VisitAll(node.kids) = <<Visit(node.kids[1])>>
      BY <2>2, VisitOne
    <2>5. /\ module' = module
          /\ tasks' = (VisitAll(node.kids) \o <<Task("ret", top.node, Null)>>) \o Tail(tasks)
      BY <1>6 DEF VisitReturnStmt, Continue
    <2>6. tasks' = <<Visit(node.kids[1]), Task("ret", top.node, Null)>> \o Tail(tasks)
      BY <2>4, <2>5, PairOfOnes
    <2> QED BY <1>1, <1>2, <1>3, <1>4, <2>3, <2>5, <2>6, VisitOperand
  <1> QED BY <1>5, <1>6

LEMMA AddOffsetKeeps ==
  ASSUME IInv, AddOffset
  PROVE  IInv'
  <1> DEFINE x == AddInst(nextId, lastValue, Const(4))
  <1>1. /\ tasks # << >> /\ Good(module, insertBlock, lastValue)
        /\ nextId \in Nat \ {0} /\ lastValue \in Operands(Below(nextId))
    <2>1. Doing("offset") /\ top.do = "offset" /\ Reads(top)
      BY DEF AddOffset, Doing, Reads
    <2>2. tasks # << >> /\ Good(module, insertBlock, lastValue)
      BY <2>1, TopDoing
    <2> QED BY <2>2, TopShape
  <1>2. Const(4) \in Operands(Below(nextId)) /\ Good(module, insertBlock, Const(4))
    BY <1>1, FreshValue
  <1>3. Insertable(x, nextId + 1) /\ x.id = nextId
    <2>1. x.id = nextId
      BY DEF AddInst, Instr
    <2> QED BY <1>1, <1>2, <2>1, Insertables
  <1>4. crashed' \in BOOLEAN
    BY DEF AddOffset, CrashOnTypeOf
  <1>5. /\ tasks' = << >> \o Tail(tasks) /\ ast' = ast /\ currentFunction' = currentFunction
        /\ namedValues' = namedValues /\ insertBlock' = insertBlock
        /\ module' = Insert(module, insertBlock, <<x>>) /\ lastValue' = Ref(nextId)
        /\ nextId' = nextId + 1
    BY DEF AddOffset, Continue, input, scope
  <1> HIDE DEF x
  <1>6. Advances /\ Good(module', insertBlock', lastValue')
    BY <1>1, <1>3, <1>4, <1>5, NewValue
  <1> QED BY <1>1, <1>5, <1>6, StepNone

LEMMA CombineKeeps ==
  ASSUME IInv, Combine
  PROVE  IInv'
  <1> DEFINE code == Operation(node.name, nextId, top.val, lastValue)
  <1>1. /\ tasks # << >> /\ Good(module, insertBlock, lastValue)
        /\ top.val \in Operands(Below(nextId)) /\ Good(module, insertBlock, top.val)
        /\ nextId \in Nat \ {0} /\ lastValue \in Operands(Below(nextId)) /\ crashed \in BOOLEAN
        /\ ModuleOk(module, nextId) /\ PlaceOk(module, insertBlock)
    <2>1. Doing("combine") /\ top.do = "combine" /\ Reads(top)
      BY DEF Combine, Doing, Reads
    <2>2. /\ tasks # << >> /\ Good(module, insertBlock, lastValue)
          /\ top.val \in Operands(Below(nextId)) /\ Good(module, insertBlock, top.val)
      BY <2>1, TopDoing
    <2> QED BY <2>2, TopShape
  <1>2. /\ tasks' = << >> \o Tail(tasks) /\ ast' = ast /\ currentFunction' = currentFunction
        /\ namedValues' = namedValues /\ insertBlock' = insertBlock
    BY DEF Combine, Continue, input, scope
  <1>3. \/ code = <<AddInst(nextId, top.val, lastValue)>>
        \/ code = <<SubInst(nextId, top.val, lastValue)>>
        \/ code = << >>
    BY DEF Operation
  <1>4. \/ /\ module' = module /\ lastValue' = lastValue /\ nextId' = nextId
           /\ crashed' = crashed
        \/ /\ crashed' \in (IF code = << >> THEN {FALSE} ELSE CrashOnTypeOf(top.val))
           /\ module' = Insert(module, insertBlock, code)
           /\ lastValue' = IF code = << >> THEN Null ELSE Ref(nextId)
           /\ nextId' = nextId + Len(code)
    BY DEF Combine
  <1> HIDE DEF code
  <1>5. crashed' \in BOOLEAN
    BY <1>1, <1>4 DEF CrashOnTypeOf
  <1>6. CASE module' = module /\ lastValue' = lastValue /\ nextId' = nextId
    <2>1. Inserts(module', nextId)
      BY <1>1, <1>6, InsertNothing
    <2>2. Advances
      BY <1>1, <1>2, <1>5, <1>6, <2>1, AdvancesInPlace
    <2>3. Good(module', insertBlock', lastValue')
      BY <1>1, <1>2, <1>6
    <2> QED BY <1>1, <1>2, <2>2, <2>3, StepNone
  <1>7. CASE /\ module' = Insert(module, insertBlock, code)
             /\ lastValue' = IF code = << >> THEN Null ELSE Ref(nextId)
             /\ nextId' = nextId + Len(code)
    <2>1. CASE code = << >>
      <3>1. module' = module
        BY <1>1, <1>7, <2>1, InsertedNone
      <3>2. lastValue' = Null /\ nextId' = nextId
        BY <1>1, <1>7, <2>1
      <3>3. /\ Null \in Operands(Below(nextId)) /\ Good(module, insertBlock, Null)
        BY <1>1, NullFits
      <3>4. Inserts(module', nextId)
        BY <1>1, <3>1, InsertNothing
      <3>5. Advances
        BY <1>1, <1>2, <1>5, <3>2, <3>3, <3>4, AdvancesInPlace
      <3>6. Good(module', insertBlock', lastValue')
        BY <1>2, <3>1, <3>2, <3>3
      <3> QED BY <1>1, <1>2, <3>5, <3>6, StepNone
    <2>2. ASSUME NEW x, code = <<x>>, x.id = nextId, Insertable(x, nextId + 1)
          PROVE  IInv'
      <3>1. code # << >> /\ Len(code) = 1
        BY <2>2
      <3>2. /\ module' = Insert(module, insertBlock, <<x>>) /\ lastValue' = Ref(nextId)
            /\ nextId' = nextId + 1
        BY <1>7, <2>2, <3>1
      <3>3. Advances /\ Good(module', insertBlock', lastValue')
        BY <1>1, <1>2, <1>5, <2>2, <3>2, NewValue
      <3> QED BY <1>1, <1>2, <3>3, StepNone
    <2>3. /\ Insertable(AddInst(nextId, top.val, lastValue), nextId + 1)
          /\ Insertable(SubInst(nextId, top.val, lastValue), nextId + 1)
      BY <1>1, Insertables
    <2>4. /\ AddInst(nextId, top.val, lastValue).id = nextId
          /\ SubInst(nextId, top.val, lastValue).id = nextId
      BY DEF AddInst, SubInst, Instr
    <2> QED BY <1>3, <2>1, <2>2, <2>3, <2>4
  <1> QED BY <1>4, <1>6, <1>7

(* Three instructions are one after the other.                             *)
IsModule(V, m) == m \in Seq(Functions(V))
IsCode(V, s) == s \in Seq(Code(V))

LEMMA InsertedMore ==
  ASSUME NEW V, NEW m, IsModule(V, m), NEW at, PlaceOk(m, at),
         NEW s, IsCode(V, s), NEW t, IsCode(V, t)
  PROVE  Insert(m, at, s \o t) = Insert(Insert(m, at, s), at, t)
  <1> DEFINE u == s \o t
  <1>0. m \in Seq(Functions(V)) /\ s \in Seq(Code(V)) /\ t \in Seq(Code(V))
    BY DEF IsModule, IsCode
  <1>1. CASE at = NoBlock
    BY <1>1 DEF Insert
  <1>2. CASE at # NoBlock
    <2>1. PICK f \in 1..Len(m) : \E b \in 1..Len(m[f].blocks) : at = <<f, b>>
      BY <1>2 DEF PlaceOk
    <2>2. PICK b \in 1..Len(m[f].blocks) : at = <<f, b>>
      BY <2>1
    <2>3. at[1] = f /\ at[2] = b
      BY <2>2
    <2> DEFINE code == m[f].blocks[b].insts
               once == code \o s
               twice == once \o t
               n == [m EXCEPT ![f].blocks[b].insts = once]
    <2> HIDE DEF u
    <2>4. /\ code \in Seq(Code(V)) /\ f \in DOMAIN m /\ b \in DOMAIN m[f].blocks
          /\ m[f] \in Functions(V) /\ m[f].blocks[b] \in Blocks(V)
      <3>1. m[f] \in Functions(V)
        BY <1>0, ElementOfSeq
      <3>2. m[f].blocks \in Seq(Blocks(V))
        BY <3>1 DEF Functions
      <3>3. m[f].blocks[b] \in Blocks(V)
        BY <3>2, ElementOfSeq
      <3>4. code \in Seq(Code(V))
        BY <3>3 DEF Blocks, Code
      <3> QED BY <1>0, <3>1, <3>2, <3>3, <3>4
    <2>5. code \o u = twice
      <3> DEFINE C == Code(V)
      <3>1. code \in Seq(C) /\ s \in Seq(C) /\ t \in Seq(C)
        BY <1>0, <2>4
      <3> HIDE DEF C, code
      <3>2. (code \o s) \o t = code \o (s \o t)
        BY <3>1, ConcatAssociative
      <3> QED BY <3>2 DEF u
    <2>6. Insert(m, at, s) = n
      BY <1>2, <2>3, Zenon DEF Insert
    <2>7. Insert(m, at, u) = [m EXCEPT ![f].blocks[b].insts = code \o u]
      BY <1>2, <2>3, Zenon DEF Insert
    <2>8. Insert(n, at, t) = [n EXCEPT ![f].blocks[b].insts = n[f].blocks[b].insts \o t]
      BY <1>2, <2>3, Zenon DEF Insert
    <2>9. n[f].blocks[b].insts = once
      <3> HIDE DEF once
      <3> QED BY <1>0, <2>4 DEF Blocks, Functions
    <2>10. [n EXCEPT ![f].blocks[b].insts = twice] = [m EXCEPT ![f].blocks[b].insts = twice]
      <3> HIDE DEF once, twice, code
      <3> QED BY <1>0, <2>4 DEF Blocks, Functions
    <2> HIDE DEF n, once, twice
    <2>11. Insert(n, at, t) = [n EXCEPT ![f].blocks[b].insts = twice]
      BY <2>8, <2>9, Zenon DEF twice
    <2>12. Insert(m, at, u) = [m EXCEPT ![f].blocks[b].insts = twice]
      BY <2>5, <2>7, Zenon
    <2> QED BY <2>6, <2>10, <2>11, <2>12, Zenon DEF u
  <1> QED BY <1>1, <1>2

LEMMA ValueInserted ==
  ASSUME NEW k \in Nat \ {0}, NEW m, ModuleOk(m, k), NEW at, PlaceOk(m, at),
         NEW p \in Operands(Below(k)), Good(m, at, p),
         NEW q \in Operands(Below(k)), Good(m, at, q),
         NEW x, x = Load(k, p) \/ x = AddInst(k, p, q),
         NEW n, n = Insert(m, at, <<x>>)
  PROVE  /\ ModuleOk(n, k + 1) /\ Len(n) = Len(m) /\ Extends(m, n) /\ PlaceOk(n, at)
         /\ Good(n, at, Ref(k)) /\ Ref(k) \in Operands(Below(k + 1))
         /\ x \in Code(Below(k + 1)) /\ k + 1 \in Nat \ {0}
  <1> DEFINE l == k + 1
  <1>1. /\ l \in Nat \ {0} /\ k <= l /\ k \in Below(l) /\ k \notin Below(k)
        /\ Ref(k) \in Operands(Below(l))
    BY FreshValue
  <1>2. p \in Operands(Below(l)) /\ q \in Operands(Below(l))
    BY <1>1, OperandsGrow
  <1>3. x \in Code(Below(l))
    <2>1. k \in Below(l) /\ 1 \in Nat \ {0}
      BY <1>1
    <2> HIDE DEF l
    <2>2. Load(k, p) \in Code(Below(l)) /\ AddInst(k, p, q) \in Code(Below(l))
      BY ONLY <1>2, <2>1, InstructionTypes
    <2> QED BY <2>2
  <1>4. /\ x.id = k /\ 1..Len(x.targets) = {}
        /\ \A a \in 1..Len(x.args) : x.args[a] = p \/ x.args[a] = q
    BY DEF Load, AddInst, Instr
  <1> HIDE DEF l
  <1>5. ModuleOk(n, l) /\ Len(n) = Len(m) /\ Extends(m, n) /\ Good(n, at, Ref(k))
    <2>1. \A a \in 1..Len(x.args) : Good(m, at, x.args[a])
      BY <1>4
    <2>2. \A t \in 1..Len(x.targets) :
            at # NoBlock => x.targets[t] \in 1..Len(m[at[1]].blocks)
      BY <1>4
    <2> QED BY <1>1, <1>3, <1>4, <2>1, <2>2, Inserted
  <1>6. PlaceOk(n, at)
    BY <1>1, <1>5, ExtendsKeeps
  <1> QED BY <1>1, <1>3, <1>5, <1>6 DEF l

LEMMA ExtendsOn ==
  ASSUME NEW k, NEW l, NEW j, NEW m, ModuleOk(m, k), NEW n, ModuleOk(n, l), NEW r, ModuleOk(r, j),
         Len(n) = Len(m), Len(r) = Len(n), Extends(m, n), Extends(n, r)
  PROVE  Extends(m, r)
  <1>1. Len(m) \in Nat /\ \A f \in 1..Len(m) : Len(m[f].blocks) \in Nat
    BY ModuleShape DEF ModuleOk
  <1>2. \A f \in 1..Len(n) : Len(n[f].blocks) \in Nat
    BY ModuleShape DEF ModuleOk
  <1>3. \A f \in 1..Len(r) : Len(r[f].blocks) \in Nat
    BY ModuleShape DEF ModuleOk
  <1> QED BY <1>1, <1>2, <1>3, ExtendsTwice

LEMMA VisitFieldExprKeeps ==
  ASSUME IInv, VisitFieldExpr
  PROVE  IInv'
  <1> DEFINE this == Variable("this")
             k == nextId
             at == insertBlock
             a == Load(k, this)
             b == AddInst(k + 1, Ref(k), Const(4))
             c == Load(k + 2, Ref(k + 1))
             m1 == Insert(module, at, <<a>>)
             m2 == Insert(m1, at, <<b>>)
             m3 == Insert(m2, at, <<c>>)
  <1>1. /\ tasks # << >> /\ crashed \in BOOLEAN /\ k \in Nat \ {0}
        /\ ModuleOk(module, k) /\ PlaceOk(module, at)
    <2>1. tasks # << >>
      BY TopVisit DEF VisitFieldExpr
    <2> QED BY <2>1, TopShape
  <1>2. /\ tasks' = << >> \o Tail(tasks) /\ ast' = ast /\ currentFunction' = currentFunction
        /\ namedValues' = namedValues /\ insertBlock' = insertBlock /\ crashed' = crashed
    BY DEF VisitFieldExpr, Continue, input, scope
  <1>3. /\ this \in Operands(Below(k)) /\ Good(module, at, this)
        /\ Null \in Operands(Below(k)) /\ Good(module, at, Null)
    <2>1. "this" \in Names
      BY NamesAssumption
    <2> QED BY <1>1, <2>1, VariableKnown
  <1>4. \/ lastValue' = Null /\ module' = module /\ nextId' = k
        \/ /\ module' = Insert(module, at, <<a, b, c>>)
           /\ lastValue' = Ref(k + 2) /\ nextId' = k + 3
    BY DEF VisitFieldExpr
  <1> HIDE DEF this
  <1>5. CASE lastValue' = Null /\ module' = module /\ nextId' = k
    <2>1. Inserts(module', nextId)
      BY <1>1, <1>5, InsertNothing
    <2>2. Advances
      BY <1>1, <1>2, <1>3, <1>5, <2>1, AdvancesInPlace
    <2>3. Good(module', insertBlock', lastValue')
      BY <1>2, <1>3, <1>5
    <2> QED BY <1>1, <1>2, <2>2, <2>3, StepNone
  <1>6. CASE /\ module' = Insert(module, at, <<a, b, c>>)
             /\ lastValue' = Ref(k + 2) /\ nextId' = k + 3
    <2> HIDE DEF k, at, m1, m2, m3
    <2>1. /\ ModuleOk(m1, k + 1) /\ Len(m1) = Len(module) /\ Extends(module, m1) /\ PlaceOk(m1, at)
          /\ Good(m1, at, Ref(k)) /\ Ref(k) \in Operands(Below(k + 1))
          /\ a \in Code(Below(k + 1)) /\ k + 1 \in Nat \ {0}
      BY <1>1, <1>3, ValueInserted DEF m1
    <2>2. /\ \A l \in Nat \ {0} : Const(4) \in Operands(Below(l))
          /\ Good(m1, at, Const(4))
      BY FreshValue, <1>1
    <2>3. /\ ModuleOk(m2, k + 1 + 1) /\ Len(m2) = Len(m1) /\ Extends(m1, m2) /\ PlaceOk(m2, at)
          /\ Good(m2, at, Ref(k + 1)) /\ Ref(k + 1) \in Operands(Below(k + 1 + 1))
          /\ b \in Code(Below(k + 1 + 1)) /\ k + 1 + 1 \in Nat \ {0}
      BY <2>1, <2>2, ValueInserted DEF m2
    <2>4. k + 1 + 1 = k + 2 /\ k + 2 + 1 = k + 3
      BY <1>1
    <2>5. /\ ModuleOk(m2, k + 2) /\ Ref(k + 1) \in Operands(Below(k + 2))
          /\ b \in Code(Below(k + 2)) /\ k + 2 \in Nat \ {0}
      BY <2>3, <2>4
    <2>6. /\ ModuleOk(m3, k + 2 + 1) /\ Len(m3) = Len(m2) /\ Extends(m2, m3) /\ PlaceOk(m3, at)
          /\ Good(m3, at, Ref(k + 2)) /\ Ref(k + 2) \in Operands(Below(k + 2 + 1))
          /\ c \in Code(Below(k + 2 + 1)) /\ k + 2 + 1 \in Nat \ {0}
      BY <2>3, <2>5, ValueInserted DEF m3
    <2>7. /\ ModuleOk(m3, k + 3) /\ Ref(k + 2) \in Operands(Below(k + 3))
          /\ c \in Code(Below(k + 3)) /\ k + 3 \in Nat \ {0} /\ k <= k + 3
      BY <1>1, <2>4, <2>6
    <2>8. Extends(module, m3)
      <3>1. Extends(m1, m3)
        BY <2>1, <2>3, <2>6, ExtendsOn
      <3>2. Len(m3) = Len(m1)
        BY <2>3, <2>6
      <3> QED BY <1>1, <2>1, <2>6, <3>1, <3>2, ExtendsOn
    <2>9. \A o : Good(module, at, o) => Good(m3, at, o)
      BY <1>1, <2>7, <2>8, ExtendsKeeps
    <2>10. module' = m3
      <3> DEFINE V == Below(k + 3)
                 C == Code(V)
      <3>1. a \in C /\ b \in C /\ c \in C
        <4>1. k + 1 <= k + 3 /\ k + 2 <= k + 3
          BY <1>1
        <4>2. Code(Below(k + 1)) \subseteq C /\ Code(Below(k + 2)) \subseteq C
          BY <2>1, <2>5, <2>7, <4>1, CodeGrows
        <4> QED BY <2>1, <2>5, <2>7, <4>2
      <3>2. module \in Seq(Functions(V)) /\ m1 \in Seq(Functions(V))
        <4>1. k <= k + 3 /\ k + 1 <= k + 3 /\ k + 3 \in Nat
          BY <1>1
        <4>2. /\ Seq(Functions(Below(k))) \subseteq Seq(Functions(V))
              /\ Seq(Functions(Below(k + 1))) \subseteq Seq(Functions(V))
          BY <1>1, <2>1, <4>1, FunctionsGrow
        <4> QED BY <1>1, <2>1, <4>2 DEF ModuleOk
      <3> HIDE DEF C, V, a, b, c
      <3>3. /\ <<a>> \in Seq(C) /\ <<b, c>> \in Seq(C) /\ <<b>> \in Seq(C) /\ <<c>> \in Seq(C)
        BY <3>1
      <3> DEFINE s1 == <<a>>
                 s2 == <<b>>
                 s3 == <<c>>
                 s23 == <<b, c>>
                 s123 == <<a, b, c>>
      <3>4. s123 = s1 \o s23 /\ s23 = s2 \o s3
        BY PairOfOnes, OneAndTwo
      <3>5. /\ m1 = Insert(module, at, s1) /\ m2 = Insert(m1, at, s2)
            /\ m3 = Insert(m2, at, s3) /\ module' = Insert(module, at, s123)
        BY <1>6 DEF m1, m2, m3
      <3>6. /\ IsCode(V, s1) /\ IsCode(V, s2) /\ IsCode(V, s3) /\ IsCode(V, s23)
            /\ IsModule(V, module) /\ IsModule(V, m1)
        BY <3>2, <3>3 DEF IsCode, IsModule, C
      <3> HIDE DEF s1, s2, s3, s23, s123
      <3>7. Insert(module, at, s123) = Insert(m1, at, s23)
        <4>1. Insert(module, at, s123) = Insert(Insert(module, at, s1), at, s23)
          BY <1>1, <3>4, <3>6, InsertedMore
        <4> QED BY <3>5, <4>1, Zenon
      <3>8. Insert(m1, at, s23) = m3
        <4>1. Insert(m1, at, s23) = Insert(Insert(m1, at, s2), at, s3)
          BY <2>1, <3>4, <3>6, InsertedMore
        <4> QED BY <3>5, <4>1, Zenon
      <3> QED BY <3>5, <3>7, <3>8
    <2>11. Inserts(module', nextId')
      BY <1>6, <2>1, <2>3, <2>6, <2>7, <2>8, <2>9, <2>10 DEF Inserts, at
    <2>12. /\ nextId' \in Nat \ {0} /\ nextId <= nextId' /\ lastValue' \in Operands(Below(nextId'))
      BY <1>6, <2>7 DEF k
    <2>13. Advances
      BY <1>1, <1>2, <2>11, <2>12, InsertAdvances
    <2>14. Good(module', insertBlock', lastValue')
      BY <1>2, <1>6, <2>6, <2>10 DEF at
    <2> QED BY <1>1, <1>2, <2>13, <2>14, StepNone
  <1> QED BY <1>4, <1>5, <1>6

(* Statements with blocks: the visit of a part is followed by a task that  *)
(* holds the blocks.                                                       *)
LEMMA ConditionVisited ==
  ASSUME IInv, tasks # << >>, ~Yields(ast, top), Inserts(module', nextId), Advances,
         nextId' = nextId,
         insertBlock' # NoBlock, insertBlock'[1] = currentFunction,
         NEW c \in DOMAIN ast, ast[c].kind \in ExprKinds, NEW do, NEW bbs \in Seq(Nat \ {0}),
         \/ do = "branch" /\ node.kind = "if" /\ Len(bbs) = Len(node.kids)
         \/ do = "loop" /\ node.kind = "while" /\ Len(bbs) = 3,
         \A p \in 1..Len(bbs) : bbs[p] \in 1..Len(module'[currentFunction].blocks),
         tasks' = <<Visit(c), BlockTask(do, top.node, bbs)>> \o Tail(tasks)
  PROVE  IInv'
  <1> DEFINE t == BlockTask(do, top.node, bbs)
  <1>1. /\ nextId \in Nat \ {0} /\ top.node \in DOMAIN ast /\ node = ast[top.node]
        /\ currentFunction \in Nat
    BY TopShape DEF node
  <1>2. /\ t.do = do /\ t.node = top.node /\ t.val = Null /\ t.func = currentFunction
        /\ t.blocks = bbs
        /\ t = [do |-> do, node |-> top.node, val |-> Null, func |-> currentFunction,
                blocks |-> bbs]
    BY DEF BlockTask
  <1>3. tasks' = <<Visit(c), t>> \o Tail(tasks)
    OBVIOUS
  <1> HIDE DEF t
  <1>4. /\ Null \in Operands(Nat) /\ Null \in Operands(Below(nextId))
        /\ Good(module', insertBlock', Null)
    BY <1>1, NullFits
  <1>5. t \in TaskSet(ast)
    BY <1>1, <1>2, <1>4 DEF TaskSet
  <1>9. bbs # << >>
    <2>1. TreeOk(ast)
      BY TopShape
    <2>2. node.kind = "if" => Len(node.kids) \in 2..3
      BY <1>1, <2>1, KidsShape
    <2>3. Len(bbs) # 0
      BY <2>2
    <2> QED BY <2>3
  <1>6. TaskOk(ast, t)
    BY <1>1, <1>2, <1>9 DEF TaskOk, KindOf
  <1>7. Fits(ast, t, module', currentFunction, insertBlock', nextId')
    BY <1>2, <1>4 DEF Fits
  <1>8. ast[c].kind \notin OpenKinds /\ ast[c].kind \notin StmtKinds /\ t.do # "visit"
    BY <1>2 DEF ExprKinds, OpenKinds, StmtKinds
  <1> QED BY <1>3, <1>5, <1>6, <1>7, <1>8, StepThen

LEMMA BodyVisited ==
  ASSUME IInv, tasks # << >>, ~Yields(ast, top), Inserts(module', nextId), Advances,
         nextId' = nextId,
         insertBlock # NoBlock, insertBlock[1] = currentFunction,
         insertBlock' # NoBlock, insertBlock'[1] = currentFunction,
         NEW c \in DOMAIN ast, ast[c].kind \in StmtKinds, NEW do,
         \/ do \in {"endThen", "endElse"} /\ node.kind = "if" /\ Len(top.blocks) = Len(node.kids)
         \/ do = "endBody" /\ node.kind = "while" /\ Len(top.blocks) = 3,
         tasks' = <<Visit(c), [top EXCEPT !.do = do]>> \o Tail(tasks)
  PROVE  IInv'
  <1> DEFINE t == [top EXCEPT !.do = do]
  <1>1. /\ nextId \in Nat \ {0} /\ node = ast[top.node] /\ top \in TaskSet(ast)
        /\ Fits(ast, top, module, currentFunction, insertBlock, nextId)
    BY TopShape DEF node
  <1>2. /\ t.do = do /\ t.node = top.node /\ t.val = top.val /\ t.blocks = top.blocks
        /\ t.func = top.func /\ t \in TaskSet(ast) /\ do \in {"endThen", "endElse", "endBody"}
        /\ t.blocks = << >> => t.func = 0
    <2>1. TaskOk(ast, top)
      BY TopShape
    <2> QED BY <1>1, <2>1 DEF TaskSet, TaskOk
  <1>3. tasks' = <<Visit(c), t>> \o Tail(tasks)
    OBVIOUS
  <1> HIDE DEF t
  <1>4. TaskOk(ast, t)
    BY <1>1, <1>2 DEF TaskOk, KindOf
  <1>5. Fits(ast, t, module', currentFunction, insertBlock', nextId')
    <2>1. top.val \in Operands(Below(nextId)) /\ Good(module, insertBlock, top.val)
      BY <1>1 DEF Fits
    <2>2. Good(module', insertBlock', top.val)
      <3>1. Good(module', insertBlock, top.val)
        BY <2>1 DEF Inserts
      <3> QED BY <3>1 DEF Good
    <2>3. \A p \in 1..Len(t.blocks) : t.blocks[p] \in 1..Len(module'[currentFunction].blocks)
      BY <1>1, <1>2, BlocksStay DEF Fits
    <2>4. t.blocks # << >> => t.func = currentFunction
      BY <1>1, <1>2 DEF Fits
    <2> QED BY <1>2, <2>1, <2>2, <2>3, <2>4 DEF Fits
  <1>6. ast[c].kind \notin OpenKinds /\ t.do # "visit" /\ ~Reads(t)
    BY <1>2 DEF OpenKinds, StmtKinds, Reads
  <1> QED BY <1>2, <1>3, <1>4, <1>5, <1>6, StepThen

LEMMA BlocksMade ==
  ASSUME IInv, tasks # << >>, insertBlock # NoBlock, insertBlock[1] = currentFunction,
         NEW names \in Seq(STRING), NEW n, n = CreateBlocks(module, currentFunction, names)
  PROVE  /\ Inserts(n, nextId)
         /\ Len(n[currentFunction].blocks)
              = Len(module[currentFunction].blocks) + Len(names)
         /\ Len(module[currentFunction].blocks) \in Nat
  <1>1. nextId \in Nat \ {0} /\ ModuleOk(module, nextId) /\ PlaceOk(module, insertBlock)
    BY TopShape
  <1>2. currentFunction \in 1..Len(module)
    <2>1. Inserts(module, nextId)
      BY InsertNothing
    <2> QED BY <2>1, BlocksStay
  <1>3. /\ ModuleOk(n, nextId) /\ Len(n) = Len(module) /\ Extends(module, n)
        /\ Len(n[currentFunction].blocks)
              = Len(module[currentFunction].blocks) + Len(names)
    BY <1>1, <1>2, BlocksCreated
  <1>4. PlaceOk(n, insertBlock) /\ \A o : Good(module, insertBlock, o) => Good(n, insertBlock, o)
    BY <1>1, <1>3, ExtendsKeeps
  <1>5. Len(module[currentFunction].blocks) \in Nat
    BY <1>1, <1>2, ModuleShape DEF ModuleOk
  <1> QED BY <1>3, <1>4, <1>5 DEF Inserts

LEMMA VisitIfStmtKeeps ==
  ASSUME IInv, VisitIfStmt
  PROVE  IInv'
  <1> DEFINE names == IF HasElse THEN <<"if.then", "if.else", "if.end">>
                      ELSE <<"if.then", "if.end">>
             bbs == [k \in DOMAIN names |-> NextBlock(k)]
             l == Len(module[currentFunction].blocks)
  <1>1. /\ tasks # << >> /\ node.kind = "if" /\ top.node \in DOMAIN ast
        /\ node = ast[top.node] /\ \A k \in 1..Len(node.kids) : node.kids[k] \in DOMAIN ast
        /\ insertBlock # NoBlock /\ insertBlock[1] = currentFunction /\ ~Yields(ast, top)
    <2>1. Visiting({"if"})
      BY DEF VisitIfStmt
    <2>2. node.kind \in {"if"}
      BY <2>1, TopVisit
    <2>3. node.kind \in StmtKinds /\ node.kind \notin ExprKinds
      BY <2>2 DEF StmtKinds, ExprKinds
    <2>4. /\ insertBlock # NoBlock /\ insertBlock[1] = currentFunction /\ ~Yields(ast, top)
      BY <2>1, <2>3, TopVisit
    <2>5. node.kind = "if"
      BY <2>2
    <2> QED BY <2>1, <2>4, <2>5, TopVisit
  <1>2. /\ TreeOk(ast) /\ nextId \in Nat \ {0} /\ crashed \in BOOLEAN
        /\ lastValue \in Operands(Below(nextId))
    BY <1>1, TopShape
  <1>3. /\ kid(1) \in DOMAIN ast /\ ast[kid(1)].kind \in ExprKinds /\ Len(node.kids) \in 2..3
    BY <1>1, <1>2, KidsShape DEF kid
  <1>4. names \in Seq(STRING) /\ Len(names) = Len(node.kids) /\ DOMAIN names = 1..Len(names)
    <2>1. Len(node.kids) = 2 \/ Len(node.kids) = 3
      BY <1>3
    <2>2. CASE Len(node.kids) = 3
      <3>1. names = <<"if.then", "if.else", "if.end">>
        BY <2>2 DEF HasElse
      <3>2. /\ <<"if.then", "if.else", "if.end">> \in Seq(STRING)
            /\ Len(<<"if.then", "if.else", "if.end">>) = 3
        BY ShortLists, StringsGiven
      <3> HIDE DEF names
      <3>3. names \in Seq(STRING) /\ Len(names) = 3
        BY <3>1, <3>2
      <3> QED BY <2>2, <3>3
    <2>3. CASE Len(node.kids) = 2
      <3>1. names = <<"if.then", "if.end">>
        BY <2>3 DEF HasElse
      <3>2. /\ <<"if.then", "if.end">> \in Seq(STRING)
            /\ Len(<<"if.then", "if.end">>) = 2
        BY ShortLists, StringsGiven
      <3> HIDE DEF names
      <3>3. names \in Seq(STRING) /\ Len(names) = 2
        BY <3>1, <3>2
      <3> QED BY <2>3, <3>3
    <2> QED BY <2>1, <2>2, <2>3
  <1>5. /\ module' = CreateBlocks(module, currentFunction, names)
        /\ tasks' = <<Visit(kid(1)), BlockTask("branch", top.node, bbs)>> \o Tail(tasks)
        /\ ast' = ast /\ currentFunction' = currentFunction /\ namedValues' = namedValues
        /\ insertBlock' = insertBlock /\ nextId' = nextId /\ lastValue' = lastValue
        /\ crashed' = crashed
    BY DEF VisitIfStmt, Continue, input, scope
  <1> HIDE DEF names
  <1>6. /\ Inserts(module', nextId) /\ l \in Nat
        /\ Len(module'[currentFunction].blocks) = l + Len(names)
    BY <1>1, <1>4, <1>5, BlocksMade
  <1>7. Advances
    BY <1>1, <1>2, <1>5, <1>6, AdvancesInPlace
  <1>8. /\ bbs \in Seq(Nat \ {0}) /\ Len(bbs) = Len(node.kids)
        /\ \A p \in 1..Len(bbs) : bbs[p] \in 1..Len(module'[currentFunction].blocks)
    <2>1. Len(names) \in Nat
      BY <1>3, <1>4
    <2>2. bbs = [k \in 1..Len(names) |-> l + k]
      BY <1>4 DEF NextBlock
    <2> HIDE DEF bbs, l
    <2>3. bbs \in [1..Len(names) -> Nat \ {0}]
      BY <1>6, <2>1, <2>2
    <2>4. bbs \in Seq(Nat \ {0}) /\ Len(bbs) = Len(names)
      BY <2>1, <2>3
    <2>5. \A p \in 1..Len(names) : l + p \in 1..(l + Len(names))
      BY <1>6, <2>1
    <2> QED BY <1>4, <1>6, <2>2, <2>4, <2>5
  <1> HIDE DEF bbs, l
  <1>9. insertBlock' # NoBlock /\ insertBlock'[1] = currentFunction
    BY <1>1, <1>5
  <1> QED BY <1>1, <1>3, <1>5, <1>6, <1>7, <1>8, <1>9, ConditionVisited

LEMMA BranchOnConditionKeeps ==
  ASSUME IInv, BranchOnCondition
  PROVE  IInv'
  <1> DEFINE b == top.blocks[1]
             c == top.blocks[2]
             x == CondBr(lastValue, b, c)
  <1>1. /\ tasks # << >> /\ top.do = "branch" /\ top.node \in DOMAIN ast /\ node = ast[top.node]
        /\ node.kind = KindOf(ast, top) /\ TaskOk(ast, top) /\ ~Yields(ast, top)
        /\ top.blocks # << >> => insertBlock # NoBlock /\ insertBlock[1] = currentFunction
        /\ \A p \in 1..Len(top.blocks) :
             top.blocks[p] \in 1..Len(module[currentFunction].blocks)
        /\ Good(module, insertBlock, lastValue)
    <2>1. Doing("branch") /\ top.do = "branch" /\ Reads(top)
      BY DEF BranchOnCondition, Doing, Reads
    <2>2. "branch" # "visit" /\ "branch" \notin {"offset", "assign", "rhs", "combine"}
      OBVIOUS
    <2> QED BY <2>1, <2>2, TopDoing
  <1>2. TreeOk(ast) /\ lastValue \in Operands(Below(nextId))
    BY <1>1, TopShape
  <1>3. /\ node.kind = "if" /\ Len(top.blocks) = Len(node.kids)
    BY <1>1 DEF TaskOk
  <1>4. /\ Len(node.kids) \in 2..3 /\ kid(2) \in DOMAIN ast /\ ast[kid(2)].kind \in StmtKinds
    <2>1. Len(node.kids) \in 2..3 /\ \A k \in 2..Len(node.kids) : ast[node.kids[k]].kind \in StmtKinds
      BY <1>1, <1>2, <1>3, KidsShape
    <2>2. \A k \in 1..Len(node.kids) : node.kids[k] \in DOMAIN ast
      BY <1>1, <1>2, TreeShape
    <2> QED BY <2>1, <2>2 DEF kid
  <1>5. /\ insertBlock # NoBlock /\ insertBlock[1] = currentFunction
        /\ b \in 1..Len(module[currentFunction].blocks)
        /\ c \in 1..Len(module[currentFunction].blocks)
    <2>1. Len(top.blocks) \in 2..3
      BY <1>3, <1>4
    <2>2. top.blocks # << >>
      BY <2>1
    <2> QED BY <1>1, <2>1, <2>2
  <1>6. /\ module' = Insert(module, insertBlock, <<x>>) /\ insertBlock' = BlockIn(b)
        /\ tasks' = <<Visit(kid(2)), [top EXCEPT !.do = "endThen"]>> \o Tail(tasks)
        /\ ast' = ast /\ currentFunction' = currentFunction /\ namedValues' = namedValues
        /\ nextId' = nextId /\ lastValue' = lastValue /\ crashed' = crashed
    BY BranchMade DEF BranchOnCondition, Continue, input, scope
  <1> HIDE DEF b, c
  <1>7. Inserts(module', nextId)
    <2>1. Insertable(x, nextId)
      BY <1>1, <1>2, <1>5, InsertableBranches
    <2> HIDE DEF x
    <2> QED BY <1>1, <1>6, <2>1, InsertStep
  <1>8. Advances /\ insertBlock' # NoBlock /\ insertBlock'[1] = currentFunction
    <2>1. b \in 1..Len(module'[currentFunction].blocks)
      BY <1>1, <1>5, <1>7, BlocksStay
    <2> QED BY <1>1, <1>5, <1>6, <1>7, <2>1, AdvancesToBlock
  <1> QED BY <1>1, <1>3, <1>4, <1>5, <1>6, <1>7, <1>8, BodyVisited

LEMMA TwoOrThree ==
  ASSUME NEW s, Len(s) \in 2..3
  PROVE  s # << >> /\ 2 \in 1..Len(s) /\ Len(s) \in 1..Len(s)
  <1>1. 2 \in 1..Len(s) /\ Len(s) \in 1..Len(s) /\ Len(s) # 0
    OBVIOUS
  <1> QED BY <1>1

LEMMA EndThenKeeps ==
  ASSUME IInv, EndThen
  PROVE  IInv'
  <1> DEFINE b == top.blocks[2]
             c == Last(top.blocks)
             x == Br(c)
  <1>1. /\ tasks # << >> /\ top.do = "endThen" /\ top.node \in DOMAIN ast /\ node = ast[top.node]
        /\ node.kind = KindOf(ast, top) /\ TaskOk(ast, top) /\ ~Yields(ast, top)
        /\ top.blocks # << >> => insertBlock # NoBlock /\ insertBlock[1] = currentFunction
        /\ \A p \in 1..Len(top.blocks) :
             top.blocks[p] \in 1..Len(module[currentFunction].blocks)
        /\ top.val \in Operands(Below(nextId)) /\ Good(module, insertBlock, top.val)
    <2>1. Doing("endThen") /\ top.do = "endThen"
      BY DEF EndThen, Doing
    <2>2. "endThen" # "visit" /\ "endThen" \notin {"offset", "assign", "rhs", "combine"}
      OBVIOUS
    <2> QED BY <2>1, <2>2, TopDoing
  <1>2. TreeOk(ast)
    BY <1>1, TopShape
  <1>3. /\ node.kind = "if" /\ Len(top.blocks) = Len(node.kids)
    BY <1>1 DEF TaskOk
  <1>4. /\ Len(node.kids) \in 2..3
        /\ \A k \in 2..Len(node.kids) : kid(k) \in DOMAIN ast /\ ast[kid(k)].kind \in StmtKinds
    <2>1. Len(node.kids) \in 2..3 /\ \A k \in 2..Len(node.kids) : ast[node.kids[k]].kind \in StmtKinds
      BY <1>1, <1>2, <1>3, KidsShape
    <2>2. \A k \in 1..Len(node.kids) : node.kids[k] \in DOMAIN ast
      BY <1>1, <1>2, TreeShape
    <2> QED BY <2>1, <2>2 DEF kid
  <1>5. /\ insertBlock # NoBlock /\ insertBlock[1] = currentFunction
        /\ b \in 1..Len(module[currentFunction].blocks)
        /\ c \in 1..Len(module[currentFunction].blocks)
    <2>1. Len(top.blocks) \in 2..3
      BY <1>3, <1>4
    <2>2. top.blocks # << >> /\ 2 \in 1..Len(top.blocks) /\ Len(top.blocks) \in 1..Len(top.blocks)
      BY ONLY <2>1, TwoOrThree
    <2> QED BY <1>1, <2>2 DEF Last
  <1>6. /\ module' = Insert(module, insertBlock, <<x>>) /\ insertBlock' = BlockIn(b)
        /\ tasks' = (IF HasElse THEN <<Visit(kid(3)), [top EXCEPT !.do = "endElse"]>> ELSE << >>)
                      \o Tail(tasks)
        /\ ast' = ast /\ currentFunction' = currentFunction /\ namedValues' = namedValues
        /\ nextId' = nextId /\ lastValue' = lastValue /\ crashed' = crashed
    BY ThenEnded DEF EndThen, Continue, input, scope
  <1> HIDE DEF b, c
  <1>7. Inserts(module', nextId)
    <2>1. Insertable(x, nextId)
      BY <1>1, <1>5, InsertableBranches
    <2> HIDE DEF x
    <2> QED BY <1>1, <1>6, <2>1, InsertStep
  <1>8. Advances /\ insertBlock' # NoBlock /\ insertBlock'[1] = currentFunction
    <2>1. b \in 1..Len(module'[currentFunction].blocks)
      BY <1>1, <1>5, <1>7, BlocksStay
    <2> QED BY <1>1, <1>5, <1>6, <1>7, <2>1, AdvancesToBlock
  <1>9. CASE HasElse
    <2>1. tasks' = <<Visit(kid(3)), [top EXCEPT !.do = "endElse"]>> \o Tail(tasks)
      BY <1>6, <1>9
    <2>2. kid(3) \in DOMAIN ast /\ ast[kid(3)].kind \in StmtKinds
      BY <1>4, <1>9 DEF HasElse
    <2> QED BY <1>1, <1>3, <1>5, <1>6, <1>7, <1>8, <2>1, <2>2, BodyVisited
  <1>10. CASE ~HasElse
    <2>1. tasks' = << >> \o Tail(tasks)
      BY <1>6, <1>10
    <2> QED BY <1>1, <1>8, <2>1, StepNone
  <1> QED BY <1>9, <1>10

(* A branch to a block of the statement, and on in another of its blocks.  *)
LEMMA BranchedOut ==
  ASSUME IInv, tasks # << >>, ~Yields(ast, top),
         top.val \in Operands(Below(nextId)), Good(module, insertBlock, top.val),
         insertBlock # NoBlock, insertBlock[1] = currentFunction,
         NEW b \in 1..Len(module[currentFunction].blocks),
         NEW c \in 1..Len(module[currentFunction].blocks),
         module' = Insert(module, insertBlock, <<Br(b)>>), insertBlock' = BlockIn(c),
         tasks' = << >> \o Tail(tasks),
         ast' = ast, currentFunction' = currentFunction, namedValues' = namedValues,
         nextId' = nextId, lastValue' = lastValue, crashed' = crashed
  PROVE  IInv'
  <1>1. Insertable(Br(b), nextId)
    BY InsertableBranches
  <1>2. Inserts(module', nextId)
    BY <1>1, InsertStep
  <1>3. c \in 1..Len(module'[currentFunction].blocks)
    BY <1>2, BlocksStay
  <1>4. Advances
    BY <1>2, <1>3, AdvancesToBlock
  <1> QED BY <1>4, StepNone

LEMMA EndElseKeeps ==
  ASSUME IInv, EndElse
  PROVE  IInv'
  <1> DEFINE b == Last(top.blocks)
  <1>1. /\ tasks # << >> /\ top.do = "endElse" /\ top.node \in DOMAIN ast /\ node = ast[top.node]
        /\ node.kind = KindOf(ast, top) /\ TaskOk(ast, top) /\ ~Yields(ast, top)
        /\ top.blocks # << >> => insertBlock # NoBlock /\ insertBlock[1] = currentFunction
        /\ \A p \in 1..Len(top.blocks) :
             top.blocks[p] \in 1..Len(module[currentFunction].blocks)
        /\ top.val \in Operands(Below(nextId)) /\ Good(module, insertBlock, top.val)
    <2>1. Doing("endElse") /\ top.do = "endElse"
      BY DEF EndElse, Doing
    <2>2. "endElse" # "visit" /\ "endElse" \notin {"offset", "assign", "rhs", "combine"}
      OBVIOUS
    <2> QED BY <2>1, <2>2, TopDoing
  <1>2. Len(node.kids) \in 2..3 /\ Len(top.blocks) = Len(node.kids)
    <2>1. node.kind = "if" /\ Len(top.blocks) = Len(node.kids)
      BY <1>1 DEF TaskOk
    <2> QED BY <1>1, <2>1, TopShape, KidsShape
  <1>3. /\ insertBlock # NoBlock /\ insertBlock[1] = currentFunction
        /\ b \in 1..Len(module[currentFunction].blocks)
    <2>1. Len(top.blocks) \in 2..3
      BY <1>2
    <2>2. top.blocks # << >> /\ Len(top.blocks) \in 1..Len(top.blocks)
      BY ONLY <2>1, TwoOrThree
    <2> QED BY <1>1, <2>2 DEF Last
  <1>4. /\ module' = Insert(module, insertBlock, <<Br(b)>>) /\ insertBlock' = BlockIn(b)
        /\ tasks' = << >> \o Tail(tasks)
        /\ ast' = ast /\ currentFunction' = currentFunction /\ namedValues' = namedValues
        /\ nextId' = nextId /\ lastValue' = lastValue /\ crashed' = crashed
    BY ElseEnded DEF EndElse, Continue, input, scope
  <1> HIDE DEF b
  <1> QED BY <1>1, <1>3, <1>4, BranchedOut

LEMMA EndBodyKeeps ==
  ASSUME IInv, EndBody
  PROVE  IInv'
  <1> DEFINE b == top.blocks[1]
             c == top.blocks[3]
  <1>1. /\ tasks # << >> /\ TaskOk(ast, top) /\ ~Yields(ast, top) /\ top.do = "endBody"
        /\ top.blocks # << >> => insertBlock # NoBlock /\ insertBlock[1] = currentFunction
        /\ \A p \in 1..Len(top.blocks) :
             top.blocks[p] \in 1..Len(module[currentFunction].blocks)
        /\ top.val \in Operands(Below(nextId)) /\ Good(module, insertBlock, top.val)
    <2>1. Doing("endBody") /\ top.do = "endBody"
      BY DEF EndBody, Doing
    <2>2. "endBody" # "visit" /\ "endBody" \notin {"offset", "assign", "rhs", "combine"}
      OBVIOUS
    <2> QED BY <2>1, <2>2, TopDoing
  <1>2. /\ insertBlock # NoBlock /\ insertBlock[1] = currentFunction
        /\ b \in 1..Len(module[currentFunction].blocks)
        /\ c \in 1..Len(module[currentFunction].blocks)
    <2>1. Len(top.blocks) = 3
      BY <1>1 DEF TaskOk
    <2>2. top.blocks # << >>
      BY <2>1
    <2> QED BY <1>1, <2>1, <2>2
  <1>3. /\ module' = Insert(module, insertBlock, <<Br(b)>>) /\ insertBlock' = BlockIn(c)
        /\ tasks' = << >> \o Tail(tasks)
        /\ ast' = ast /\ currentFunction' = currentFunction /\ namedValues' = namedValues
        /\ nextId' = nextId /\ lastValue' = lastValue /\ crashed' = crashed
    BY BodyEnded DEF EndBody, Continue, input, scope
  <1> HIDE DEF b, c
  <1> QED BY <1>1, <1>2, <1>3, BranchedOut

LEMMA LoopOnConditionKeeps ==
  ASSUME IInv, LoopOnCondition
  PROVE  IInv'
  <1> DEFINE b == top.blocks[2]
             c == top.blocks[3]
             x == CondBr(lastValue, b, c)
  <1>1. /\ tasks # << >> /\ top.do = "loop" /\ top.node \in DOMAIN ast /\ node = ast[top.node]
        /\ node.kind = KindOf(ast, top) /\ TaskOk(ast, top) /\ ~Yields(ast, top)
        /\ top.blocks # << >> => insertBlock # NoBlock /\ insertBlock[1] = currentFunction
        /\ \A p \in 1..Len(top.blocks) :
             top.blocks[p] \in 1..Len(module[currentFunction].blocks)
        /\ Good(module, insertBlock, lastValue)
    <2>1. Doing("loop") /\ top.do = "loop" /\ Reads(top)
      BY DEF LoopOnCondition, Doing, Reads
    <2>2. "loop" # "visit" /\ "loop" \notin {"offset", "assign", "rhs", "combine"}
      OBVIOUS
    <2> QED BY <2>1, <2>2, TopDoing
  <1>2. TreeOk(ast) /\ lastValue \in Operands(Below(nextId))
    BY <1>1, TopShape
  <1>3. node.kind = "while" /\ Len(top.blocks) = 3
    BY <1>1 DEF TaskOk
  <1>4. kid(2) \in DOMAIN ast /\ ast[kid(2)].kind \in StmtKinds
    <2>1. Len(node.kids) = 2 /\ ast[node.kids[2]].kind \in StmtKinds
      BY <1>1, <1>2, <1>3, KidsShape
    <2>2. \A k \in 1..Len(node.kids) : node.kids[k] \in DOMAIN ast
      BY <1>1, <1>2, TreeShape
    <2> QED BY <2>1, <2>2 DEF kid
  <1>5. /\ insertBlock # NoBlock /\ insertBlock[1] = currentFunction
        /\ b \in 1..Len(module[currentFunction].blocks)
        /\ c \in 1..Len(module[currentFunction].blocks)
    <2>1. top.blocks # << >>
      BY <1>3
    <2> QED BY <1>1, <1>3, <2>1
  <1>6. /\ module' = Insert(module, insertBlock, <<x>>) /\ insertBlock' = BlockIn(b)
        /\ tasks' = <<Visit(kid(2)), [top EXCEPT !.do = "endBody"]>> \o Tail(tasks)
        /\ ast' = ast /\ currentFunction' = currentFunction /\ namedValues' = namedValues
        /\ nextId' = nextId /\ lastValue' = lastValue /\ crashed' = crashed
    BY LoopMade DEF LoopOnCondition, Continue, input, scope
  <1> HIDE DEF b, c
  <1>7. Inserts(module', nextId)
    <2>1. Insertable(x, nextId)
      BY <1>1, <1>2, <1>5, InsertableBranches
    <2> HIDE DEF x
    <2> QED BY <1>1, <1>6, <2>1, InsertStep
  <1>8. Advances /\ insertBlock' # NoBlock /\ insertBlock'[1] = currentFunction
    <2>1. b \in 1..Len(module'[currentFunction].blocks)
      BY <1>1, <1>5, <1>7, BlocksStay
    <2> QED BY <1>1, <1>5, <1>6, <1>7, <2>1, AdvancesToBlock
  <1> QED BY <1>1, <1>3, <1>4, <1>5, <1>6, <1>7, <1>8, BodyVisited

LEMMA VisitWhileStmtKeeps ==
  ASSUME IInv, VisitWhileStmt
  PROVE  IInv'
  <1> DEFINE names == <<"while.cond", "while.body", "while.end">>
             bbs == <<NextBlock(1), NextBlock(2), NextBlock(3)>>
             l == Len(module[currentFunction].blocks)
             n == CreateBlocks(module, currentFunction, names)
             b == bbs[1]
             x == Br(b)
  <1>1. /\ tasks # << >> /\ node.kind = "while" /\ top.node \in DOMAIN ast
        /\ node = ast[top.node] /\ \A k \in 1..Len(node.kids) : node.kids[k] \in DOMAIN ast
        /\ insertBlock # NoBlock /\ insertBlock[1] = currentFunction /\ ~Yields(ast, top)
    <2>1. Visiting({"while"})
      BY DEF VisitWhileStmt
    <2>2. node.kind \in {"while"}
      BY <2>1, TopVisit
    <2>3. node.kind \in StmtKinds /\ node.kind \notin ExprKinds
      BY <2>2 DEF StmtKinds, ExprKinds
    <2>4. /\ insertBlock # NoBlock /\ insertBlock[1] = currentFunction /\ ~Yields(ast, top)
      BY <2>1, <2>3, TopVisit
    <2>5. node.kind = "while"
      BY <2>2
    <2> QED BY <2>1, <2>4, <2>5, TopVisit
  <1>2. /\ TreeOk(ast) /\ nextId \in Nat \ {0} /\ ModuleOk(module, nextId)
        /\ PlaceOk(module, insertBlock)
    BY <1>1, TopShape
  <1>3. /\ kid(1) \in DOMAIN ast /\ ast[kid(1)].kind \in ExprKinds
    BY <1>1, <1>2, KidsShape DEF kid
  <1>4. names \in Seq(STRING) /\ Len(names) = 3
    BY ShortLists, StringsGiven
  <1>5. /\ module' = Insert(n, insertBlock, <<x>>) /\ insertBlock' = BlockIn(b)
        /\ tasks' = <<Visit(kid(1)), BlockTask("loop", top.node, bbs)>> \o Tail(tasks)
        /\ ast' = ast /\ currentFunction' = currentFunction /\ namedValues' = namedValues
        /\ nextId' = nextId /\ lastValue' = lastValue /\ crashed' = crashed
    BY LoopEntered DEF VisitWhileStmt, Continue, input, scope
  <1> HIDE DEF names
  <1>6. /\ Inserts(n, nextId) /\ l \in Nat /\ Len(n[currentFunction].blocks) = l + 3
    BY <1>1, <1>4, BlocksMade
  <1>7. bbs \in Seq(Nat \ {0}) /\ Len(bbs) = 3 /\ \A p \in 1..Len(bbs) : bbs[p] \in 1..(l + 3)
    <2>1. bbs = <<l + 1, l + 2, l + 3>>
      BY DEF NextBlock
    <2> HIDE DEF bbs, l
    <2>2. l + 1 \in Nat \ {0} /\ l + 2 \in Nat \ {0} /\ l + 3 \in Nat \ {0}
      BY <1>6
    <2>3. /\ bbs \in Seq(Nat \ {0}) /\ Len(bbs) = 3
          /\ bbs[1] = l + 1 /\ bbs[2] = l + 2 /\ bbs[3] = l + 3
      BY <2>1, <2>2
    <2>4. \A p \in 1..3 : p = 1 \/ p = 2 \/ p = 3
      OBVIOUS
    <2> QED BY <1>6, <2>3, <2>4
  <1> HIDE DEF bbs, l, n
  <1>8. b \in 1..(l + 3) /\ b \in Nat \ {0}
    BY <1>6, <1>7
  <1> HIDE DEF b
  <1>9. /\ ModuleOk(n, nextId) /\ Len(n) = Len(module) /\ Extends(module, n)
        /\ PlaceOk(n, insertBlock)
    BY <1>6 DEF Inserts
  <1>10. /\ ModuleOk(module', nextId) /\ Len(module') = Len(n) /\ Extends(n, module')
         /\ PlaceOk(module', insertBlock)
    <2>1. NoId \in Below(nextId) /\ Null \in Operands(Below(nextId))
      BY <1>2, NullFits DEF Below
    <2>2. x \in Code(Below(nextId))
      BY <1>8, <2>1, InstructionTypes
    <2>3. x.id = NoId /\ 1..Len(x.args) = {} /\ \A t \in 1..Len(x.targets) : x.targets[t] = b
      BY DEF Br, Instr
    <2>4. \A a \in 1..Len(x.args) : Good(n, insertBlock, x.args[a])
      BY <2>3
    <2>5. \A t \in 1..Len(x.targets) :
            insertBlock # NoBlock => x.targets[t] \in 1..Len(n[insertBlock[1]].blocks)
      BY <1>1, <1>6, <1>8, <2>3
    <2> HIDE DEF x
    <2>6. /\ ModuleOk(module', nextId) /\ Len(module') = Len(n) /\ Extends(n, module')
      BY <1>2, <1>5, <1>9, <2>2, <2>3, <2>4, <2>5, Inserted
    <2> QED BY <1>2, <1>9, <2>6, ExtendsKeeps
  <1>11. Inserts(module', nextId)
    <2>1. Extends(module, module') /\ Len(module') = Len(module)
      BY <1>2, <1>9, <1>10, ExtendsOn
    <2>2. \A o : Good(module, insertBlock, o) => Good(module', insertBlock, o)
      BY <1>2, <1>10, <2>1, ExtendsKeeps
    <2> QED BY <1>10, <2>1, <2>2 DEF Inserts
  <1>12. l + 3 <= Len(module'[currentFunction].blocks)
         /\ Len(module'[currentFunction].blocks) \in Nat
    <2>1. currentFunction \in 1..Len(module)
      BY <1>1, <1>11, BlocksStay
    <2>2. currentFunction \in 1..Len(n) /\ currentFunction \in 1..Len(module')
      BY <1>9, <1>10, <2>1
    <2>3. Len(module'[currentFunction].blocks) \in Nat
      BY <1>10, <2>2, ModuleShape DEF ModuleOk
    <2> QED BY <1>6, <1>10, <2>2, <2>3 DEF Extends
  <1>13. /\ b \in 1..Len(module'[currentFunction].blocks)
         /\ \A p \in 1..Len(bbs) : bbs[p] \in 1..Len(module'[currentFunction].blocks)
    BY <1>6, <1>7, <1>8, <1>12
  <1>14. Advances /\ insertBlock' # NoBlock /\ insertBlock'[1] = currentFunction
    BY <1>1, <1>5, <1>11, <1>13, AdvancesToBlock
  <1> QED BY <1>1, <1>3, <1>5, <1>7, <1>11, <1>13, <1>14, ConditionVisited

LEMMA VisitVarDeclKeeps ==
  ASSUME IInv, VisitVarDecl
  PROVE  IInv'
  <1> DEFINE x == Alloca(nextId)
             y == Task("store", top.node, Ref(nextId))
             rest == IF node.kids = << >> THEN << >> ELSE <<y>>
  <1>1. /\ tasks # << >> /\ node.kind = "vardecl" /\ top.node \in DOMAIN ast
        /\ node = ast[top.node] /\ node.kids \in Seq(DOMAIN ast) /\ Len(node.kids) \in Nat
        /\ \A k \in 1..Len(node.kids) : node.kids[k] \in DOMAIN ast
        /\ ~Yields(ast, top) /\ node.name \in Names
    <2>1. Visiting({"vardecl"})
      BY DEF VisitVarDecl
    <2>2. node.kind \in {"vardecl"} /\ (Yields(ast, top) => node.kind \in ExprKinds)
      BY <2>1, TopVisit
    <2>3. "vardecl" \notin ExprKinds
      BY DEF ExprKinds
    <2> QED BY <2>1, <2>2, <2>3, TopVisit
  <1>2. /\ TreeOk(ast) /\ nextId \in Nat \ {0} /\ crashed \in BOOLEAN
        /\ lastValue \in Operands(Below(nextId))
        /\ NamesGood(module, insertBlock, namedValues, nextId)
    BY <1>1, TopShape
  <1>3. /\ module' = Insert(module, insertBlock, <<x>>) /\ insertBlock' = insertBlock
        /\ tasks' = (VisitAll(node.kids) \o rest) \o Tail(tasks)
        /\ ast' = ast /\ currentFunction' = currentFunction
        /\ namedValues' = [namedValues EXCEPT ![node.name] = nextId]
        /\ nextId' = nextId + 1 /\ lastValue' = lastValue /\ crashed' = crashed
    BY DEF VisitVarDecl, Continue, input
  <1>4. /\ nextId' \in Nat \ {0} /\ nextId <= nextId' /\ nextId \in Below(nextId')
        /\ Ref(nextId) \in Operands(Below(nextId'))
        /\ Below(nextId) \subseteq Below(nextId')
        /\ lastValue' \in Operands(Below(nextId'))
    BY <1>2, <1>3, FreshValue, OperandsGrow
  <1>5. Inserts(module', nextId') /\ Good(module', insertBlock', Ref(nextId))
    <2>1. Null \in Operands(Below(nextId)) /\ Good(module, insertBlock, Null)
      BY <1>2, NullFits
    <2>2. Insertable(x, nextId + 1)
      BY <1>1, <2>1, Insertables
    <2>3. x.id = nextId
      BY DEF Alloca, Instr
    <2> HIDE DEF x
    <2>4. Inserts(module', nextId + 1) /\ Good(module', insertBlock, Ref(nextId))
      BY <1>1, <1>3, <2>2, <2>3, InsertStep
    <2> QED BY <1>3, <2>4
  <1>6. NamesGood(module', insertBlock', namedValues', nextId')
    <2>1. namedValues' \in [Names -> Below(nextId')]
      BY <1>1, <1>2, <1>3, <1>4 DEF NamesGood
    <2>2. ASSUME NEW z \in Names
          PROVE  Good(module', insertBlock', Ref(namedValues'[z]))
      <3>1. CASE z = node.name
        <4>1. namedValues'[z] = nextId
          BY <1>2, <1>3, <3>1 DEF NamesGood
        <4> QED BY <1>5, <4>1
      <3>2. CASE z # node.name
        <4>1. namedValues'[z] = namedValues[z]
          BY <1>2, <1>3, <3>2 DEF NamesGood
        <4>2. Good(module, insertBlock, Ref(namedValues[z]))
          BY <1>2 DEF NamesGood
        <4>3. Good(module', insertBlock, Ref(namedValues[z]))
          BY <1>5, <4>2 DEF Inserts
        <4> QED BY <1>3, <4>1, <4>3
      <3> QED BY <3>1, <3>2
    <2> QED BY <2>1, <2>2 DEF NamesGood
  <1>7. Advances
    <2>1. ModuleOk(module', nextId') /\ Extends(module, module') /\ PlaceOk(module', insertBlock')
      BY <1>3, <1>5 DEF Inserts
    <2>2. crashed' \in BOOLEAN
      BY <1>2, <1>3
    <2> QED BY <1>3, <1>4, <1>6, <2>1, <2>2 DEF Advances
  <1> HIDE DEF x, y
  <1>8. CASE node.kids = << >>
    <2>1. VisitAll(node.kids) \o rest = << >>
      BY <1>8, VisitAllNone
    <2>2. tasks' = << >> \o Tail(tasks)
      BY <1>3, <2>1
    <2> QED BY <1>1, <1>7, <2>2, StepNone
  <1>9. CASE node.kids # << >>
    <2>1. Len(node.kids) <= 1 /\ \A k \in 1..Len(node.kids) : ast[node.kids[k]].kind \in ExprKinds
      BY <1>1, <1>2, KidsShape
    <2>2. node.kids = <<node.kids[1]>> /\ Len(node.kids) = 1
      BY <1>1, <1>9, <2>1, OneOrNone
    <2>3. node.kids[1] \in DOMAIN ast /\ ast[node.kids[1]].kind \in ExprKinds
      BY <1>1, <2>1, <2>2
    <2>4. VisitAll(node.kids) = <<Visit(node.kids[1])>>
      BY <2>2, VisitOne
    <2>5. tasks' = (VisitAll(node.kids) \o <<y>>) \o Tail(tasks)
      BY <1>3, <1>9
    <2>6. tasks' = <<Visit(node.kids[1]), y>> \o Tail(tasks)
      BY <2>4, <2>5, PairOfOnes
    <2>7. /\ y \in TaskSet(ast) /\ TaskOk(ast, y) /\ y.do = "store"
          /\ Fits(ast, y, module', currentFunction, insertBlock', nextId')
      <3>1. y = Task("store", top.node, Ref(nextId))
        BY DEF y
      <3>2. y.do = "store"
        BY <3>1 DEF Task
      <3>3. "store" \in {"store", "ret", "offset", "assign", "rhs", "combine"}
            /\ "store" \notin {"assign", "rhs", "combine"}
        OBVIOUS
      <3>4. y \in TaskSet(ast)
        BY <1>1, <1>4, <1>5, <3>1, <3>3, LocalTask
      <3>5. TaskOk(ast, y)
        BY <1>1, <1>4, <1>5, <3>1, <3>3, LocalTask
      <3>6. Fits(ast, y, module', currentFunction, insertBlock', nextId')
        BY <1>1, <1>4, <1>5, <3>1, <3>3, LocalTask
      <3> QED BY <3>2, <3>4, <3>5, <3>6
    <2>8. /\ ast[node.kids[1]].kind \notin OpenKinds /\ ast[node.kids[1]].kind \notin StmtKinds
          /\ y.do # "visit"
      BY <2>3, <2>7 DEF ExprKinds, OpenKinds, StmtKinds
    <2> QED BY <1>1, <1>7, <2>3, <2>6, <2>7, <2>8, StepThen
  <1> QED BY <1>8, <1>9

(* A record's methods are some of its members.                             *)
LEMMA LeastIsMember ==
  ASSUME NEW T, T \subseteq Nat, T # {}
  PROVE  Min(T) \in T
  <1>1. PICK x \in T : \A y \in T : ~(<<y, x>> \in OpToRel(<, Nat))
    BY WFMin, NatLessThanWellFounded, Zenon
  <1>2. \A y \in T : ~(y < x)
    BY <1>1, Zenon DEF OpToRel
  <1>3. \A y \in T : x <= y
    BY <1>2
  <1> QED BY <1>3 DEF Min

LEMMA MethodsListed ==
  ASSUME TreeOk(ast), NEW n \in DOMAIN ast, ast[n].kind = "record", NEW ns, ns = MethodsOf(n)
  PROVE  ns \in Seq(DOMAIN ast) /\ \A k \in 1..Len(ns) : ast[ns[k]].kind \in DeclKinds
  <1> DEFINE kids == ast[n].kids
             T == (1..(Len(kids) + 1)) \ {k \in DOMAIN kids : ast[kids[k]].kind = "field"}
  <1>1. kids \in Seq(DOMAIN ast) /\ Len(kids) \in Nat /\ DOMAIN kids = 1..Len(kids)
    BY TreeShape
  <1>2. \A k \in 1..Len(kids) : ast[kids[k]].kind \in DeclKinds
    BY KidsShape
  <1>3. Min(T) \in 1..(Len(kids) + 1)
    <2>1. T \subseteq Nat /\ Len(kids) + 1 \in T
      BY <1>1
    <2>2. Min(T) \in T
      <3> HIDE DEF T
      <3> QED BY <2>1, LeastIsMember
    <2> QED BY <2>2
  <1>4. ns = SubSeq(kids, Min(T), Len(kids))
    BY DEF MethodsOf
  <1> HIDE DEF kids, T
  <1> DEFINE j == Min(T)
             S == DOMAIN ast
  <1>5. kids \in Seq(S) /\ j \in 1..(Len(kids) + 1) /\ Len(kids) \in Nat /\ ns = SubSeq(kids, j, Len(kids))
    BY <1>1, <1>3, <1>4
  <1> HIDE DEF j, S
  <1>6. /\ ns \in Seq(S) /\ Len(ns) = Len(kids) - j + 1
        /\ \A k \in 1..Len(ns) : ns[k] = kids[k + j - 1]
    BY <1>5
  <1>7. \A k \in 1..Len(ns) : k + j - 1 \in 1..Len(kids)
    BY <1>5, <1>6
  <1> QED BY <1>2, <1>6, <1>7 DEF S

LEMMA VisitRecordDeclKeeps ==
  ASSUME IInv, VisitRecordDecl
  PROVE  IInv'
  <1> DEFINE ns == MethodsOf(top.node)
  <1>1. /\ tasks # << >> /\ node.kind = "record" /\ top.node \in DOMAIN ast
        /\ node = ast[top.node] /\ KindOf(ast, top) = node.kind /\ top.do = "visit"
        /\ ~Yields(ast, top)
    <2>1. Visiting({"record"})
      BY DEF VisitRecordDecl
    <2>2. node.kind \in {"record"} /\ (Yields(ast, top) => node.kind \in ExprKinds)
      BY <2>1, TopVisit
    <2>3. "record" \notin ExprKinds
      BY DEF ExprKinds
    <2> QED BY <2>1, <2>2, <2>3, TopVisit
  <1>2. /\ tasks' = VisitAll(ns) \o Tail(tasks)
        /\ UNCHANGED <<ast, currentFunction, namedValues, module, insertBlock, lastValue, nextId,
                       crashed>>
    BY DEF VisitRecordDecl, Continue, input, scope
  <1>6. ns \in Seq(DOMAIN ast) /\ \A k \in 1..Len(ns) : ast[ns[k]].kind \in DeclKinds
    BY <1>1, TopShape, MethodsListed
  <1>7. Opens(ast, top)
    BY <1>1 DEF Opens, OpenKinds
  <1> HIDE DEF ns
  <1> QED BY <1>1, <1>2, <1>6, <1>7, StepVisits

(* A declaration that opens a function.  What is left to do after it are   *)
(* other declarations, which hold nothing of the function before.          *)
LEMMA FunctionOpened ==
  ASSUME IInv, tasks # << >>, Opens(ast, top), NEW new, Line(ast, new),
         tasks' = new \o Tail(tasks), ast' = ast, crashed' = crashed, lastValue' = lastValue,
         \A p \in 1..Len(new) : ~Opens(ast, new[p]) /\ ~Reads(new[p]),
         nextId' \in Nat \ {0}, nextId <= nextId',
         ModuleOk(module', nextId'), currentFunction' \in 0..Len(module'),
         PlaceOk(module', insertBlock'), NamesGood(module', insertBlock', namedValues', nextId'),
         \A p \in 1..Len(new) :
           Fits(ast, new[p], module', currentFunction', insertBlock', nextId')
  PROVE  IInv'
  <1>1. /\ TreeOk(ast) /\ crashed \in BOOLEAN /\ top = tasks[1] /\ top = Head(tasks)
        /\ nextId \in Nat \ {0} /\ lastValue \in Operands(Below(nextId))
    BY TopShape
  <1>2. Line(ast, tasks)
    BY DEF IInv, State
  <1>3. top.do = "visit" /\ KindOf(ast, top) \notin ExprKinds
    BY DEF Opens, OpenKinds, ExprKinds
  <1>4. ~Yields(ast, Head(tasks))
    BY <1>1, <1>3 DEF Yields
  <1>5. \A p \in 1..Len(new) : Opens(ast, new[p]) => Opens(ast, Head(tasks))
    OBVIOUS
  <1>6. /\ tasks # << >> /\ Line(ast, new) /\ tasks' = new \o Tail(tasks)
        /\ new # << >> /\ Yields(ast, Head(tasks)) => Yields(ast, new[Len(new)])
    BY <1>4
  <1>7. Line(ast, tasks')
    BY ONLY <1>2, <1>5, <1>6, Replaced
  <1>8. /\ \A p \in 1..Len(tasks') :
              \/ \E q \in 1..Len(new) : tasks'[p] = new[q]
              \/ \E q \in 2..Len(tasks) : tasks'[p] = tasks[q]
    BY ONLY <1>2, <1>5, <1>6, Replaced
  <1>9. tasks' # << >> /\ Reads(tasks'[1]) => new # << >> /\ tasks'[1] = new[1]
    <2>1. tasks' # << >> /\ Reads(tasks'[1]) =>
              \/ new # << >> /\ tasks'[1] = new[1]
              \/ new = << >> /\ Yields(ast, Head(tasks))
      BY ONLY <1>2, <1>5, <1>6, Replaced
    <2> QED BY <1>4, <2>1
  <1>10. ~(tasks' # << >> /\ Reads(tasks'[1]))
    <2>1. new # << >> => 1 \in 1..Len(new)
      <3> DEFINE S == TaskSet(ast)
      <3>1. new \in Seq(S)
        BY DEF Line
      <3> HIDE DEF S
      <3> QED BY <3>1, EmptySeq
    <2> QED BY <1>9, <2>1
  <1>11. ASSUME NEW q \in 2..Len(tasks)
         PROVE  Fits(ast, tasks[q], module', currentFunction', insertBlock', nextId')
    <2>1. Len(tasks) \in Nat
      BY <1>2, LenProperties DEF Line
    <2>2. 1 \in 1..Len(tasks) /\ q \in 1..Len(tasks) /\ 1 < q
      BY <2>1
    <2>3. Declares(ast, tasks[q]) /\ TaskOk(ast, tasks[q])
      BY <1>1, <1>2, <2>2 DEF Line
    <2>4. /\ tasks[q].do = "visit" /\ KindOf(ast, tasks[q]) \in DeclKinds
          /\ tasks[q].val = Null /\ tasks[q].blocks = << >>
      BY <2>3 DEF Declares, TaskOk
    <2>5. ~InBody(ast, tasks[q]) /\ 1..Len(tasks[q].blocks) = {}
      BY <2>4 DEF InBody, DeclKinds, StmtKinds
    <2>6. Null \in Operands(Below(nextId')) /\ Good(module', insertBlock', Null)
      BY NullFits
    <2> QED BY <2>4, <2>5, <2>6 DEF Fits
  <1>12. \A p \in 1..Len(tasks') :
           Fits(ast, tasks'[p], module', currentFunction', insertBlock', nextId')
    BY <1>8, <1>11
  <1>13. lastValue' \in Operands(Below(nextId'))
    BY <1>1, OperandsGrow
  <1>14. State(ast, tasks', module', currentFunction', insertBlock', namedValues', lastValue',
               nextId')
    BY <1>7, <1>10, <1>12, <1>13 DEF State
  <1> QED BY <1>1, <1>14 DEF IInv

LEMMA VisitFunctionDeclKeeps ==
  ASSUME IInv, VisitFunctionDecl
  PROVE  IInv'
  <1> DEFINE f == Len(module) + 1
             this == IF node.kind = "method" THEN <<Alloca(nextId)>> ELSE << >>
             entry == Block("entry", this)
             blocks == IF node.kids = << >> THEN << >> ELSE <<entry>>
             fun == Func(node.name, blocks)
             kids == node.kids
             new == VisitAll(kids)
  <1>1. /\ tasks # << >> /\ node.kind \in {"function", "method"} /\ top.node \in DOMAIN ast
        /\ node = ast[top.node] /\ KindOf(ast, top) = node.kind /\ top.do = "visit"
        /\ kids \in Seq(DOMAIN ast) /\ Len(kids) \in Nat /\ node.name \in Names
    BY TopVisit DEF VisitFunctionDecl
  <1>2. /\ TreeOk(ast) /\ nextId \in Nat \ {0} /\ ModuleOk(module, nextId)
        /\ PlaceOk(module, insertBlock) /\ Len(module) \in Nat
        /\ NamesGood(module, insertBlock, namedValues, nextId)
    BY <1>1, TopShape
  <1>3. Opens(ast, top)
    BY <1>1 DEF Opens, OpenKinds
  <1>4. /\ tasks' = new \o Tail(tasks) /\ ast' = ast /\ crashed' = crashed
        /\ lastValue' = lastValue /\ currentFunction' = f /\ module' = Append(module, fun)
    BY DEF VisitFunctionDecl, Continue, input
  <1>5. IF blocks = << >>
        THEN insertBlock' = insertBlock /\ namedValues' = namedValues /\ nextId' = nextId
        ELSE /\ insertBlock' = <<f, 1>> /\ namedValues' = NamesAtEntry(this)
             /\ nextId' = nextId + Len(this)
    BY DEF VisitFunctionDecl
  <1>6. Len(kids) <= 1 /\ \A k \in 1..Len(kids) : ast[kids[k]].kind = "compound"
    BY <1>1, <1>2, KidsShape
  <1>7. /\ Line(ast, new) /\ Len(new) = Len(kids)
        /\ \A p \in 1..Len(kids) : new[p] = Visit(kids[p]) /\ kids[p] \in DOMAIN ast
    <2>1. \A k \in 1..Len(kids) : ast[kids[k]].kind \notin OpenKinds
      BY <1>6 DEF OpenKinds
    <2> HIDE DEF kids
    <2> QED BY <1>1, <2>1, LineVisits
  <1> HIDE DEF new
  <1>8. \A p \in 1..Len(new) : ~Opens(ast, new[p]) /\ ~Reads(new[p])
    <2> SUFFICES ASSUME NEW p \in 1..Len(new) PROVE ~Opens(ast, new[p]) /\ ~Reads(new[p])
      OBVIOUS
    <2>1. kids[p] \in DOMAIN ast /\ new[p] = Visit(kids[p]) /\ ast[kids[p]].kind = "compound"
      BY <1>6, <1>7
    <2>2. new[p].do = "visit" /\ KindOf(ast, new[p]) = "compound"
      BY <2>1, VisitShape
    <2> QED BY <2>2 DEF Opens, Reads, OpenKinds
  <1>9. /\ (this = << >> \/ this = <<Alloca(nextId)>>)
        /\ (node.kind = "method" => this = <<Alloca(nextId)>>)
        /\ Len(this) \in {0, 1}
    OBVIOUS
  <1> DEFINE l == nextId + Len(this)
  <1>10. /\ l \in Nat \ {0} /\ nextId <= l
         /\ this = <<Alloca(nextId)>> => l = nextId + 1
         /\ this = << >> => l = nextId
    BY <1>2, <1>9
  <1>11. /\ this \in Seq(Code(Below(l)))
         /\ \A j \in 1..Len(this) : /\ j = 1 /\ this[1].args = << >> /\ this[1].targets = << >>
                                    /\ this[1].id = nextId /\ l = nextId + 1
    <2>1. CASE this = << >>
      <3> HIDE DEF this
      <3> QED BY <2>1, EmptySeq
    <2>2. CASE this = <<Alloca(nextId)>>
      <3> DEFINE a == Alloca(nextId)
                 C == Code(Below(l))
      <3>1. l = nextId + 1
        BY <1>10, <2>2
      <3>2. nextId \in Below(l) /\ Null \in Operands(Below(l)) /\ l \in Nat \ {0}
        BY <1>2, <1>10, <3>1, FreshValue, NullFits
      <3>3. a \in C
        <4> HIDE DEF l
        <4>1. 1 \in Nat \ {0}
          OBVIOUS
        <4> QED BY <3>2, <4>1, InstructionTypes
      <3>4. a.args = << >> /\ a.targets = << >> /\ a.id = nextId
        BY DEF Alloca, Instr
      <3>5. this = <<a>>
        BY <2>2
      <3> HIDE DEF a, C, this, l
      <3>6. this \in Seq(C) /\ Len(this) = 1 /\ this[1] = a
        BY <3>3, <3>5
      <3> QED BY <3>1, <3>4, <3>6 DEF C
    <2> QED BY <1>9, <2>1, <2>2
  <1> HIDE DEF this, l
  <1>12. nextId' \in Nat \ {0} /\ nextId <= nextId' /\ (blocks # << >> => nextId' = l)
    BY <1>2, <1>5, <1>10 DEF l
  <1>13. /\ fun \in Functions(Below(nextId'))
         /\ \A b \in 1..Len(fun.blocks) : \A j \in 1..Len(fun.blocks[b].insts) :
              fun.blocks[b].insts[j].args = << >> /\ fun.blocks[b].insts[j].targets = << >>
         /\ fun.blocks = blocks
    <2>1. node.name \in STRING /\ "entry" \in STRING
      BY <1>1, StringsGiven
    <2>2. fun.blocks = blocks /\ fun = [name |-> node.name, blocks |-> blocks]
      BY DEF Func
    <2>3. CASE node.kids = << >>
      <3>1. blocks = << >>
        BY <2>3
      <3> HIDE DEF blocks, fun
      <3>2. blocks \in Seq(Blocks(Below(nextId'))) /\ 1..Len(blocks) = {}
        BY <3>1, EmptySeq
      <3>3. fun \in Functions(Below(nextId'))
        BY <2>1, <2>2, <3>2 DEF Functions
      <3> QED BY <2>2, <3>2, <3>3
    <2>4. CASE node.kids # << >>
      <3> DEFINE B == Blocks(Below(nextId'))
      <3>1. blocks = <<entry>> /\ nextId' = l
        <4>1. blocks = <<entry>> /\ blocks # << >>
          BY <2>4
        <4> HIDE DEF blocks
        <4> QED BY <1>12, <4>1
      <3>2. entry = [name |-> "entry", insts |-> this] /\ entry.insts = this
        BY DEF Block
      <3>3. entry \in B
        BY <1>11, <2>1, <3>1, <3>2 DEF Blocks, Code
      <3> HIDE DEF blocks, fun, entry, B
      <3>4. blocks \in Seq(B) /\ Len(blocks) = 1 /\ blocks[1] = entry
        BY <3>1, <3>3
      <3>5. fun \in Functions(Below(nextId'))
        BY <2>1, <2>2, <3>4 DEF Functions, B
      <3>6. \A b \in 1..Len(blocks) : blocks[b].insts = this
        BY <3>2, <3>4
      <3> QED BY <1>11, <2>2, <3>5, <3>6
    <2> QED BY <2>3, <2>4
  <1> HIDE DEF fun
  <1>14. /\ ModuleOk(module', nextId') /\ Len(module') = f /\ Extends(module, module')
         /\ module'[f] = fun
    <2>1. /\ nextId \in Nat \ {0} /\ nextId' \in Nat \ {0} /\ nextId <= nextId'
          /\ ModuleOk(module, nextId) /\ module' = WithFunction(module, fun)
          /\ fun \in Functions(Below(nextId')) /\ Plain(fun)
      BY <1>2, <1>4, <1>12, <1>13 DEF Plain, WithFunction
    <2> HIDE DEF blocks
    <2>2. /\ ModuleOk(module', nextId') /\ Len(module') = Len(module) + 1
          /\ Extends(module, module') /\ module'[Len(module) + 1] = fun
      BY ONLY <2>1, FunctionAppended
    <2> QED BY <2>2
  <1>15. currentFunction' \in 0..Len(module')
    BY <1>2, <1>4, <1>14
  <1>16. CASE node.kids = << >>
    <2>1. blocks = << >>
      BY <1>16
    <2> HIDE DEF blocks
    <2>2. insertBlock' = insertBlock /\ namedValues' = namedValues /\ nextId' = nextId
      BY <1>5, <2>1
    <2>3. /\ PlaceOk(module', insertBlock')
          /\ \A o : Good(module, insertBlock, o) => Good(module', insertBlock', o)
      BY <1>2, <1>12, <1>14, <2>2, ExtendsKeeps
    <2>4. NamesGood(module', insertBlock', namedValues', nextId')
      BY <1>2, <2>2, <2>3 DEF NamesGood
    <2>5. 1..Len(new) = {}
      BY <1>7, <1>16
    <2>6. \A p \in 1..Len(new) :
            Fits(ast, new[p], module', currentFunction', insertBlock', nextId')
      BY <2>5
    <2> QED BY <1>1, <1>3, <1>4, <1>7, <1>8, <1>12, <1>14, <1>15, <2>3, <2>4, <2>6, FunctionOpened
  <1>17. CASE node.kids # << >>
    <2>1. blocks = <<entry>> /\ blocks # << >> /\ Len(blocks) = 1 /\ blocks[1].insts = this
      BY <1>17 DEF Block
    <2> HIDE DEF blocks, entry
    <2>2. /\ insertBlock' = <<f, 1>> /\ namedValues' = NamesAtEntry(this) /\ nextId' = l
      BY <1>5, <1>12, <2>1
    <2>3. f \in 1..Len(module') /\ 1 \in 1..Len(module'[f].blocks) /\ insertBlock' # NoBlock
          /\ insertBlock'[1] = f
      <3>1. f \in 1..Len(module') /\ f # 0
        BY <1>2, <1>14
      <3>2. 1 \in 1..Len(module'[f].blocks)
        <4>1. module'[f].blocks = blocks
          BY <1>13, <1>14, Zenon
        <4> QED BY <2>1, <4>1
      <3> HIDE DEF f
      <3> QED BY <2>2, <3>1, <3>2 DEF NoBlock
    <2>4. PlaceOk(module', insertBlock')
      BY <2>2, <2>3 DEF PlaceOk
    <2>5. NamesGood(module', insertBlock', namedValues', nextId')
      <3>1. NoId \in Below(nextId') /\ Good(module', insertBlock', Ref(NoId))
        <4>1. Null = Ref(NoId)
          BY DEF Null
        <4> QED BY <4>1, <1>12, NullFits DEF Below
      <3>2. CASE this = << >>
        <4>1. namedValues' = NoNames
          BY <2>2, <3>2 DEF NamesAtEntry
        <4> QED BY <3>1, <4>1 DEF NamesGood, NoNames
      <3>3. CASE this = <<Alloca(nextId)>>
        <4>1. /\ this # << >> /\ 1 \in 1..Len(this) /\ this[1].id = nextId
          <5>1. Len(this) = 1
            BY <3>3
          <5>2. this # << >> /\ 1 \in 1..Len(this)
            BY <5>1
          <5> QED BY <1>11, <5>2
        <4>2. namedValues' = [NoNames EXCEPT !["this"] = nextId]
          BY <2>2, <4>1 DEF NamesAtEntry
        <4>3. nextId \in Below(nextId')
          BY <1>2, <1>10, <2>2, <3>3, FreshValue
        <4>4. Good(module', insertBlock', Ref(nextId))
          <5>1. Body(module', f, 1) = this
            BY <1>13, <1>14, <2>1 DEF Body
          <5>2. Has(module', f, nextId)
            BY <2>3, <4>1, <5>1 DEF Has
          <5>3. Ref(nextId).id = nextId
            BY DEF Ref
          <5> QED BY <2>3, <5>2, <5>3 DEF Good, Known
        <4>5. \A z \in Names : namedValues'[z] = nextId \/ namedValues'[z] = NoId
          BY <4>2 DEF NoNames
        <4>6. namedValues' \in [Names -> Below(nextId')]
          BY <3>1, <4>2, <4>3 DEF NoNames
        <4> QED BY <3>1, <4>4, <4>5, <4>6 DEF NamesGood
      <3> QED BY <1>9, <3>2, <3>3
    <2>6. \A p \in 1..Len(new) :
            Fits(ast, new[p], module', currentFunction', insertBlock', nextId')
      <3>1. insertBlock' # NoBlock /\ insertBlock'[1] = currentFunction' /\ nextId' \in Nat \ {0}
        BY <1>4, <1>12, <2>3
      <3> SUFFICES ASSUME NEW p \in 1..Len(new)
                   PROVE  Fits(ast, new[p], module', currentFunction', insertBlock', nextId')
        OBVIOUS
      <3>2. new[p] = Visit(kids[p]) /\ kids[p] \in DOMAIN ast
        BY <1>7
      <3>3. Fits(ast, Visit(kids[p]), module', currentFunction', insertBlock', nextId')
        BY <3>1, <3>2, VisitFits
      <3> QED BY <3>2, <3>3
    <2> QED BY <1>1, <1>3, <1>4, <1>7, <1>8, <1>12, <1>14, <1>15, <2>4, <2>5, <2>6, FunctionOpened
  <1> QED BY <1>16, <1>17

-----------------------------------------------------------------------------
(* The invariant, from the start on.                                       *)
LEMMA StartsWell ==
  ASSUME Init, NoLocalFunctions
  PROVE  IInv
  <1>1. PICK u \in Analyzed : ast = u.ast /\ isField = u.isField
    BY DEF Init
  <1>2. TreeOk(ast)
    BY <1>1, AnalyzedAssumption DEF TreeOk, NoLocalFunctions
  <1>3. /\ tasks = <<Visit(1)>> /\ module = << >> /\ currentFunction = 0 /\ nextId = 1
        /\ insertBlock = NoBlock /\ namedValues = NoNames /\ lastValue = Null
        /\ crashed = FALSE
    BY DEF Init, Start
  <1>4. 1 \in DOMAIN ast /\ ast[1].kind = "unit"
    BY <1>2, TreeShape
  <1>5. nextId \in Nat \ {0} /\ NoId \in Below(nextId)
    BY <1>3 DEF Below
  <1>6. Line(ast, tasks)
    BY <1>3, <1>4, VisitShape, LineOne
  <1>7. ASSUME NEW p \in 1..Len(tasks)
        PROVE  tasks[p] = Visit(1) /\ ~Reads(tasks[p])
               /\ Fits(ast, tasks[p], module, currentFunction, insertBlock, nextId)
    <2>1. tasks[p] = Visit(1)
      BY <1>3
    <2>2. ast[1].kind \notin StmtKinds
      BY <1>4 DEF StmtKinds
    <2>3. Fits(ast, Visit(1), module, currentFunction, insertBlock, nextId)
      BY <1>4, <1>5, <2>2, VisitFits
    <2>4. ~Reads(Visit(1))
      BY <1>4, VisitShape DEF Reads
    <2> QED BY <2>1, <2>3, <2>4
  <1>8. ModuleOk(module, nextId) /\ currentFunction \in 0..Len(module)
    <2>1. module \in Seq(Functions(Below(nextId))) /\ Len(module) = 0 /\ 1..Len(module) = {}
      BY <1>3, EmptySeq
    <2> QED BY <1>3, <2>1 DEF ModuleOk
  <1>9. NamesGood(module, insertBlock, namedValues, nextId)
    BY <1>3, <1>5 DEF NamesGood, NoNames, Good
  <1>10. PlaceOk(module, insertBlock) /\ lastValue \in Operands(Below(nextId))
    BY <1>3, <1>5, NullFits DEF PlaceOk
  <1>11. tasks # << >> /\ Reads(tasks[1]) => Good(module, insertBlock, lastValue)
    BY <1>3 DEF Good
  <1> QED BY <1>2, <1>3, <1>5, <1>6, <1>7, <1>8, <1>9, <1>10, <1>11 DEF IInv, State

LEMMA StepsKeep ==
  ASSUME IInv, [Next]_genVars
  PROVE  IInv'
  <1>1. CASE VisitChildren BY <1>1, VisitChildrenKeeps
  <1>2. CASE VisitRecordDecl BY <1>2, VisitRecordDeclKeeps
  <1>3. CASE VisitFunctionDecl BY <1>3, VisitFunctionDeclKeeps
  <1>4. CASE VisitVarDecl BY <1>4, VisitVarDeclKeeps
  <1>5. CASE StoreInitializer BY <1>5, StoreInitializerKeeps
  <1>6. CASE VisitReturnStmt BY <1>6, VisitReturnStmtKeeps
  <1>7. CASE CreateRet BY <1>7, CreateRetKeeps
  <1>8. CASE VisitIfStmt BY <1>8, VisitIfStmtKeeps
  <1>9. CASE BranchOnCondition BY <1>9, BranchOnConditionKeeps
  <1>10. CASE EndThen BY <1>10, EndThenKeeps
  <1>11. CASE EndElse BY <1>11, EndElseKeeps
  <1>12. CASE VisitWhileStmt BY <1>12, VisitWhileStmtKeeps
  <1>13. CASE LoopOnCondition BY <1>13, LoopOnConditionKeeps
  <1>14. CASE EndBody BY <1>14, EndBodyKeeps
  <1>15. CASE VisitLiteralExpr BY <1>15, VisitLiteralExprKeeps
  <1>16. CASE VisitVariableExpr BY <1>16, VisitVariableExprKeeps
  <1>17. CASE VisitFieldExpr BY <1>17, VisitFieldExprKeeps
  <1>18. CASE VisitMemberExpr BY <1>18, VisitMemberExprKeeps
  <1>19. CASE AddOffset BY <1>19, AddOffsetKeeps
  <1>20. CASE VisitAssignment BY <1>20, VisitAssignmentKeeps
  <1>21. CASE StoreAssigned BY <1>21, StoreAssignedKeeps
  <1>22. CASE VisitBinaryExpr BY <1>22, VisitBinaryExprKeeps
  <1>23. CASE VisitRightOperand BY <1>23, VisitRightOperandKeeps
  <1>24. CASE Combine BY <1>24, CombineKeeps
  <1>25. CASE UNCHANGED genVars
    <2>1. /\ ast' = ast /\ tasks' = tasks /\ module' = module /\ crashed' = crashed
          /\ currentFunction' = currentFunction /\ insertBlock' = insertBlock
          /\ namedValues' = namedValues /\ lastValue' = lastValue /\ nextId' = nextId
      BY <1>25 DEF genVars
    <2> QED BY <2>1, Zenon DEF IInv
  <1> QED BY <1>1, <1>2, <1>3, <1>4, <1>5, <1>6, <1>7, <1>8, <1>9, <1>10, <1>11, <1>12,
             <1>13, <1>14, <1>15, <1>16, <1>17, <1>18, <1>19, <1>20, <1>21, <1>22, <1>23,
             <1>24, <1>25 DEF Next

(* The invariant says enough.                                              *)
LEMMA ElementsTell ==
  ASSUME NEW S, NEW T, NEW s \in Seq(S), \A p \in 1..Len(s) : s[p] \in T
  PROVE  s \in Seq(T)
  OBVIOUS

LEMMA TargetsGrow ==
  ASSUME NEW V
  PROVE  Instructions(V, Nat \ {0}) \subseteq Instructions(V, Nat)
  <1> DEFINE B == Nat \ {0}
             O == Operands(V)
  <1>1. [1..1 -> B] \subseteq [1..1 -> Nat] /\ [1..2 -> B] \subseteq [1..2 -> Nat]
    OBVIOUS
  <1> SUFFICES ASSUME NEW x \in Instructions(V, B) PROVE x \in Instructions(V, Nat)
    OBVIOUS
  <1> HIDE DEF B
  <1>2. \/ x \in [op : {"br"}, id : {NoId}, args : {<< >>}, targets : [1..1 -> B]]
        \/ x \in [op : {"condbr"}, id : {NoId}, args : [1..1 -> O], targets : [1..2 -> B]]
        \/ x \in Instructions(V, Nat)
    BY DEF Instructions
  <1>3. CASE x \in [op : {"br"}, id : {NoId}, args : {<< >>}, targets : [1..1 -> B]]
    <2>1. x \in [op : {"br"}, id : {NoId}, args : {<< >>}, targets : [1..1 -> Nat]]
      BY <1>1, <1>3
    <2> QED BY <2>1 DEF Instructions
  <1>4. CASE x \in [op : {"condbr"}, id : {NoId}, args : [1..1 -> O], targets : [1..2 -> B]]
    <2>1. x \in [op : {"condbr"}, id : {NoId}, args : [1..1 -> O], targets : [1..2 -> Nat]]
      <3> HIDE DEF O
      <3> QED BY <1>1, <1>4
    <2> QED BY <2>1 DEF Instructions
  <1> QED BY <1>2, <1>3, <1>4

LEMMA TypesFollow ==
  ASSUME IInv
  PROVE  TypeOK
  <1> DEFINE V == {NoId} \cup Ids
             Dos == {"visit", "store", "ret", "branch", "endThen", "endElse",
                     "loop", "endBody", "offset", "assign", "rhs", "combine"}
             R == [do : Dos, node : DOMAIN ast, val : Operands(V), func : 0..Len(module),
                   blocks : Seq(Nat \ {0})]
  <1>1. /\ Line(ast, tasks) /\ nextId \in Nat \ {0} /\ ModuleOk(module, nextId)
        /\ currentFunction \in 0..Len(module) /\ PlaceOk(module, insertBlock)
        /\ NamesGood(module, insertBlock, namedValues, nextId)
        /\ lastValue \in Operands(Below(nextId)) /\ crashed \in BOOLEAN
        /\ \A p \in 1..Len(tasks) :
             Fits(ast, tasks[p], module, currentFunction, insertBlock, nextId)
    BY DEF IInv, State
  <1>2. Below(nextId) = V
    BY DEF Below, Ids
  <1>3. tasks \in Seq(TaskSet(ast)) /\ DOMAIN tasks = 1..Len(tasks)
    BY <1>1, LenProperties DEF Line
  <1>4. ASSUME NEW p \in 1..Len(tasks)
        PROVE  /\ tasks[p] \in R /\ DOMAIN tasks[p].blocks = 1..Len(tasks[p].blocks)
               /\ \A q \in 1..Len(tasks[p].blocks) :
                    tasks[p].blocks[q] \in 1..Len(module[currentFunction].blocks)
    <2>1. tasks[p] \in [do : Dos, node : DOMAIN ast, val : Operands(Nat), func : Nat,
                        blocks : Seq(Nat \ {0})]
      <3>1. tasks[p] \in TaskSet(ast)
        BY <1>3, ElementOfSeq
      <3> QED BY <3>1 DEF TaskSet
    <2>2. tasks[p].val \in Operands(V)
      BY <1>1, <1>2 DEF Fits
    <2>6. tasks[p].func \in 0..Len(module)
      <3>1. tasks[p].blocks = << >> => tasks[p].func = 0
        BY <1>1 DEF Line, TaskOk
      <3>2. tasks[p].blocks # << >> => tasks[p].func = currentFunction
        BY <1>1 DEF Fits
      <3>3. 0 \in 0..Len(module)
        BY <1>1
      <3> QED BY <1>1, <3>1, <3>2, <3>3
    <2>3. tasks[p] \in R
      <3> HIDE DEF Dos, V
      <3> QED BY <2>1, <2>2, <2>6
    <2>4. tasks[p].blocks \in Seq(Nat \ {0})
      BY <2>1
    <2>5. DOMAIN tasks[p].blocks = 1..Len(tasks[p].blocks)
      BY <2>4, LenProperties
    <2> QED BY <1>1, <2>3, <2>5 DEF Fits
  <1>5. tasks \in Seq(R)
    <2>1. tasks \in Seq(TaskSet(ast)) /\ \A p \in 1..Len(tasks) : tasks[p] \in R
      BY <1>3, <1>4
    <2> HIDE DEF R
    <2> QED BY ONLY <2>1, ElementsTell
  <1>6. module \in Seq(Functions(V)) /\ DOMAIN module = 1..Len(module) /\ Len(module) \in Nat
        /\ \A f \in 1..Len(module) : DOMAIN module[f].blocks = 1..Len(module[f].blocks)
    BY <1>1, <1>2, ModuleShape DEF ModuleOk
  <1>7. insertBlock = NoBlock
        \/ \E b \in DOMAIN module[insertBlock[1]].blocks : insertBlock[2] = b
    BY <1>1, <1>6 DEF PlaceOk
  <1>8. namedValues \in [Names -> V] /\ lastValue \in Operands(V)
    BY <1>1, <1>2 DEF NamesGood
  <1>9. ASSUME NEW t \in ToSet(tasks), NEW b \in ToSet(t.blocks)
        PROVE  b \in DOMAIN module[t.func].blocks
    <2>1. PICK p \in 1..Len(tasks) : t = tasks[p]
      BY <1>3 DEF ToSet
    <2>2. PICK q \in 1..Len(t.blocks) : b = t.blocks[q]
      BY <1>4, <2>1 DEF ToSet
    <2>3. b \in 1..Len(module[currentFunction].blocks)
      BY <1>4, <2>1, <2>2
    <2>4. t.blocks # << >> /\ currentFunction \in 1..Len(module)
      <3>1. t.blocks # << >>
        BY <2>2
      <3>2. InBody(ast, t)
        BY <3>1 DEF InBody
      <3>3. insertBlock # NoBlock /\ insertBlock[1] = currentFunction
        BY <1>1, <2>1, <3>2 DEF Fits
      <3> QED BY <1>1, <3>1, <3>3 DEF PlaceOk
    <2>5. t.func = currentFunction
      BY <1>1, <2>1, <2>4 DEF Fits
    <2> QED BY <1>6, <2>3, <2>4, <2>5
  <1>10. module \in Seq([name : STRING,
                         blocks : Seq([name : STRING, insts : Seq(Instructions(V, Nat))])])
    <2>1. \A S, T : S \subseteq T => Seq(S) \subseteq Seq(T)
      OBVIOUS
    <2>2. Instructions(V, Nat \ {0}) \subseteq Instructions(V, Nat)
      <3> HIDE DEF V
      <3> QED BY TargetsGrow
    <2>3. Seq(Instructions(V, Nat \ {0})) \subseteq Seq(Instructions(V, Nat))
      BY ONLY <2>1, <2>2
    <2> DEFINE L == Seq(Instructions(V, Nat))
               B == [name : STRING, insts : L]
               F == [name : STRING, blocks : Seq(B)]
    <2>4. Blocks(V) \subseteq B
      <3> HIDE DEF L, V
      <3> QED BY <2>3 DEF Blocks, L
    <2> HIDE DEF B
    <2>5. Seq(Blocks(V)) \subseteq Seq(B)
      BY ONLY <2>1, <2>4
    <2>6. Functions(V) \subseteq F
      <3> HIDE DEF V
      <3> QED BY <2>5 DEF Functions
    <2> HIDE DEF F
    <2>7. module \in Seq(F)
      BY ONLY <1>6, <2>1, <2>6
    <2> QED BY <2>7 DEF F, B
  <1> QED BY <1>1, <1>5, <1>7, <1>8, <1>9, <1>10 DEF TypeOK

LEMMA AssumptionFollows ==
  ASSUME IInv
  PROVE  BackendAssumption
  <1>1. ModuleOk(module, nextId) /\ nextId \in Nat \ {0}
    BY DEF IInv, State
  <1>2. /\ DOMAIN module = 1..Len(module)
        /\ \A f \in 1..Len(module) :
             /\ DOMAIN module[f].blocks = 1..Len(module[f].blocks)
             /\ \A b \in 1..Len(module[f].blocks) :
                  /\ DOMAIN Body(module, f, b) = 1..Len(Body(module, f, b))
                  /\ \A j \in 1..Len(Body(module, f, b)) :
                       Body(module, f, b)[j] \in Code(Below(nextId))
    BY <1>1, ModuleShape DEF ModuleOk
  <1>3. ASSUME NEW f \in DOMAIN module, NEW b \in DOMAIN module[f].blocks,
               NEW x \in ToSet(Body(module, f, b)), NEW o \in ToSet(x.args)
        PROVE  o.imm \/ o = Null \/ o.id \in DefinedIn(module[f])
    <2>1. PICK j \in 1..Len(Body(module, f, b)) : x = Body(module, f, b)[j]
      BY <1>2 DEF ToSet
    <2>2. DOMAIN x.args = 1..Len(x.args)
      BY <1>2, <2>1, CodeShape
    <2>3. PICK a \in 1..Len(x.args) : o = x.args[a]
      BY <2>2 DEF ToSet
    <2>4. Known(module, f, o)
      BY <1>1, <1>2, <2>1, <2>3 DEF ModuleOk, OperandsKnown
    <2>5. CASE Has(module, f, o.id)
      <3>1. PICK c \in 1..Len(module[f].blocks) :
              \E i \in 1..Len(Body(module, f, c)) : Body(module, f, c)[i].id = o.id
        BY <2>5 DEF Has
      <3>2. PICK i \in 1..Len(Body(module, f, c)) : Body(module, f, c)[i].id = o.id
        BY <3>1
      <3>3. c \in DOMAIN module[f].blocks /\ i \in DOMAIN module[f].blocks[c].insts
            /\ module[f].blocks[c].insts[i].id = o.id
        BY <1>2, <3>2 DEF Body
      <3> QED BY <3>3 DEF DefinedIn
    <2> QED BY <2>4, <2>5 DEF Known
  <1>4. \A f \in DOMAIN module : BranchesInside(module[f]) /\ UsesFollowDefinition(module[f])
    BY <1>1, <1>2 DEF ModuleOk
  <1> QED BY <1>3, <1>4 DEF BackendAssumption, TakenForGranted, Body

(* The tree stays; where it declares no function in a body, the invariant  *)
(* holds at all times.                                                     *)
LEMMA TreeStays ==
  ASSUME [Next]_genVars
  PROVE  ast' = ast
  <1>1. CASE \E ts : Continue(ts)
    BY <1>1 DEF Continue, input
  <1>2. CASE UNCHANGED genVars
    BY <1>2 DEF genVars
  <1>3. CASE Next
    <2>1. CASE VisitChildren \/ VisitRecordDecl \/ VisitFunctionDecl \/ VisitVarDecl
      BY <1>1, <2>1 DEF VisitChildren, VisitRecordDecl, VisitFunctionDecl, VisitVarDecl
    <2>2. CASE StoreInitializer \/ VisitReturnStmt \/ CreateRet
      BY <1>1, <2>2 DEF StoreInitializer, VisitReturnStmt, CreateRet
    <2>3. CASE VisitIfStmt \/ BranchOnCondition \/ EndThen \/ EndElse
      BY <1>1, <2>3 DEF VisitIfStmt, BranchOnCondition, EndThen, EndElse
    <2>4. CASE VisitWhileStmt \/ LoopOnCondition \/ EndBody
      BY <1>1, <2>4 DEF VisitWhileStmt, LoopOnCondition, EndBody
    <2>5. CASE VisitLiteralExpr \/ VisitVariableExpr \/ VisitFieldExpr \/ VisitMemberExpr
      BY <1>1, <2>5 DEF VisitLiteralExpr, VisitVariableExpr, VisitFieldExpr, VisitMemberExpr
    <2>6. CASE AddOffset \/ VisitAssignment \/ StoreAssigned
      BY <1>1, <2>6 DEF AddOffset, VisitAssignment, StoreAssigned
    <2>7. CASE VisitBinaryExpr \/ VisitRightOperand \/ Combine
      BY <1>1, <2>7 DEF VisitBinaryExpr, VisitRightOperand, Combine
    <2> QED BY <1>3, <2>1, <2>2, <2>3, <2>4, <2>5, <2>6, <2>7 DEF Next
  <1> QED BY <1>2, <1>3

LEMMA NoneBefore ==
  ASSUME [Next]_genVars, NoLocalFunctions'
  PROVE  NoLocalFunctions
  BY TreeStays DEF NoLocalFunctions, KindsOfKids, KidsOf, Kid

LEMMA InvariantHolds == Spec => [](NoLocalFunctions => IInv)
  <1>1. Init => (NoLocalFunctions => IInv)
    BY StartsWell
  <1>2. (NoLocalFunctions => IInv) /\ [Next]_genVars => (NoLocalFunctions => IInv)'
    BY NoneBefore, StepsKeep
  <1> QED BY <1>1, <1>2, PTL DEF Spec

(* For every set of analyzed trees that declare no function in a body: the *)
(* values that the visits hold are ones that they have made, the insertion *)
(* point exists, and so do the blocks that the visit of an if or a while   *)
(* keeps for later.                                                        *)
THEOREM GeneratorTypeCorrect == Spec => [](NoLocalFunctions => TypeOK)
  <1>1. IInv => TypeOK
    BY TypesFollow
  <1> QED BY <1>1, InvariantHolds, PTL

(* For every set of analyzed trees that declare no function in a body, as  *)
(* BackendAssumption says: a branch goes to a block of the same function,  *)
(* an instruction is made before it is used, and what is used belongs to   *)
(* the function: namedValues never hands out an alloca of another one,     *)
(* although its names are kept where no body clears them.                  *)
THEOREM MadeForBackend == Spec => []BackendAssumption
  <1>1. (NoLocalFunctions => IInv) => BackendAssumption
    BY AssumptionFollows DEF BackendAssumption
  <1> QED BY <1>1, InvariantHolds, PTL

-----------------------------------------------------------------------------
(* Blocks are closed.  The blocks that a task has made and not yet moved   *)
(* the insertion point to are empty; they are what it waits to fill.       *)
FirstWaiting(do) ==
  CASE do = "branch" -> 1
    [] do \in {"endThen", "loop"} -> 2
    [] do \in {"endElse", "endBody"} -> 3
    [] OTHER -> 1
Awaits(t) == {t.blocks[p] : p \in FirstWaiting(t.do)..Len(t.blocks)}
Waiting(ts) == UNION {Awaits(ts[p]) : p \in 1..Len(ts)}

(* No block is waited for twice.                                           *)
Distinct(t) ==
  \A p, q \in FirstWaiting(t.do)..Len(t.blocks) : t.blocks[p] = t.blocks[q] => p = q
Apart(ts) ==
  /\ \A p \in 1..Len(ts) :
       /\ Distinct(ts[p])
       /\ ts[p].do = "endElse" => Len(ts[p].blocks) = 3
  /\ \A p, q \in 1..Len(ts) : p # q => Awaits(ts[p]) \cap Awaits(ts[q]) = {}

OpenBlocks(m, g) ==
  {b \in 1..Len(m[g].blocks) :
     Body(m, g, b) = << >> \/ Body(m, g, b)[Len(Body(m, g, b))].op \notin Terminators}

(* W: the blocks of function f that are still to be filled.                *)
Shut(m, f, at, W) ==
  /\ \A g \in 1..Len(m) : g # at[1] =>
       \A b \in OpenBlocks(m, g), c \in OpenBlocks(m, g) : b = c
  /\ at # NoBlock => OpenBlocks(m, at[1]) \subseteq {at[2]} \cup W
  /\ W # {} => at # NoBlock /\ at[1] = f /\ at[2] \notin W
  /\ \A b \in W : b \in 1..Len(m[f].blocks) /\ Body(m, f, b) = << >>
  /\ f \in 1..Len(m) /\ at[1] # f => m[f].blocks = << >>

ShutInv ==
  /\ Apart(tasks)
  /\ Shut(module, currentFunction, insertBlock, Waiting(tasks))

LEMMA PlaceParts ==
  ASSUME NEW m, NEW at, PlaceOk(m, at), at # NoBlock
  PROVE  /\ at[1] \in 1..Len(m) /\ at[2] \in 1..Len(m[at[1]].blocks) /\ at = <<at[1], at[2]>>
  <1>1. PICK g \in 1..Len(m) : \E b \in 1..Len(m[g].blocks) : at = <<g, b>>
    BY DEF PlaceOk
  <1>2. PICK b \in 1..Len(m[g].blocks) : at = <<g, b>>
    BY <1>1
  <1> QED BY <1>2

(* What Insert leaves as it is.                                            *)
LEMMA InsertedBodies ==
  ASSUME NEW k, NEW m, ModuleOk(m, k), NEW at, PlaceOk(m, at), NEW code,
         NEW n, n = Insert(m, at, code)
  PROVE  /\ Len(n) = Len(m)
         /\ \A g \in 1..Len(m) :
              /\ g # at[1] => n[g] = m[g]
              /\ Len(n[g].blocks) = Len(m[g].blocks)
              /\ \A c \in 1..Len(m[g].blocks) :
                   Body(n, g, c) = IF at # NoBlock /\ g = at[1] /\ c = at[2]
                                   THEN Body(m, g, c) \o code ELSE Body(m, g, c)
  <1>1. /\ DOMAIN m = 1..Len(m) /\ Len(m) \in Nat
        /\ \A g \in 1..Len(m) : DOMAIN m[g].blocks = 1..Len(m[g].blocks) /\ Len(m[g].blocks) \in Nat
    BY ModuleShape DEF ModuleOk
  <1>2. CASE at = NoBlock
    BY <1>2 DEF Insert, Body
  <1>3. CASE at # NoBlock
    <2> DEFINE f == at[1]
               b == at[2]
               blocks == [m[f].blocks EXCEPT ![b].insts = @ \o code]
               fun == [m[f] EXCEPT !.blocks = blocks]
    <2>1. f \in 1..Len(m) /\ b \in 1..Len(m[f].blocks)
      BY <1>3, PlaceParts
    <2>2. n = [m EXCEPT ![f] = fun]
      BY <1>3 DEF Insert
    <2>3. m[f] \in Functions(Below(k)) /\ m \in Seq(Functions(Below(k)))
      BY <2>1, ElementOfSeq DEF ModuleOk
    <2>4. m[f].blocks \in Seq(Blocks(Below(k))) /\ m[f] = [name |-> m[f].name, blocks |-> m[f].blocks]
      BY <2>3 DEF Functions
    <2>5. m[f].blocks[b] \in Blocks(Below(k))
      BY <2>1, <2>4, ElementOfSeq
    <2>6. fun.blocks = blocks
      BY <2>4
    <2>7. /\ DOMAIN blocks = 1..Len(m[f].blocks)
          /\ \A c \in 1..Len(m[f].blocks) : c # b => blocks[c] = m[f].blocks[c]
          /\ blocks[b].insts = m[f].blocks[b].insts \o code
      <3>1. blocks = [m[f].blocks EXCEPT ![b] = [m[f].blocks[b] EXCEPT !.insts = @ \o code]]
        OBVIOUS
      <3>2. [m[f].blocks[b] EXCEPT !.insts = @ \o code].insts = m[f].blocks[b].insts \o code
        BY <2>5 DEF Blocks
      <3> QED BY <1>1, <2>1, <3>1, <3>2
    <2>8. Len(blocks) = Len(m[f].blocks)
      <3> DEFINE new == [m[f].blocks[b] EXCEPT !.insts = @ \o code]
      <3>1. blocks = [m[f].blocks EXCEPT ![b] = new]
        OBVIOUS
      <3>2. m[f].blocks \in Seq(Blocks(Below(k)) \cup {new})
        <4>1. ASSUME NEW S, NEW T, NEW s \in Seq(S) PROVE s \in Seq(S \cup T)
          OBVIOUS
        <4> HIDE DEF new
        <4> QED BY <2>4, <4>1
      <3> HIDE DEF new, blocks
      <3> QED BY <2>1, <3>1, <3>2, ExceptSeq
    <2> HIDE DEF blocks
    <2>9. DOMAIN n = 1..Len(m) /\ n[f] = fun /\ \A g \in 1..Len(m) : g # f => n[g] = m[g]
      BY <1>1, <2>1, <2>2
    <2>10. Len(n) = Len(m)
      BY <1>1, <2>9
    <2> HIDE DEF fun
    <2>11. n[f].blocks = blocks
      BY <2>6, <2>9
    <2> QED BY <1>3, <2>7, <2>8, <2>9, <2>10, <2>11 DEF Body
  <1> QED BY <1>2, <1>3

(* An instruction at the insertion point opens or closes no other block.   *)
LEMMA ShutInsert ==
  ASSUME NEW k, NEW m, ModuleOk(m, k), NEW at, PlaceOk(m, at), NEW code,
         NEW f, NEW W, Shut(m, f, at, W), NEW n, n = Insert(m, at, code)
  PROVE  Shut(n, f, at, W)
  <1>1. /\ Len(n) = Len(m)
        /\ \A g \in 1..Len(m) :
             /\ g # at[1] => n[g] = m[g]
             /\ Len(n[g].blocks) = Len(m[g].blocks)
             /\ \A c \in 1..Len(m[g].blocks) :
                  at = NoBlock \/ g # at[1] \/ c # at[2] => Body(n, g, c) = Body(m, g, c)
    BY InsertedBodies
  <1>2. at # NoBlock => at[1] \in 1..Len(m) /\ at[2] \in 1..Len(m[at[1]].blocks)
    BY PlaceParts
  <1>3. \A g \in 1..Len(m) : g # at[1] => OpenBlocks(n, g) = OpenBlocks(m, g)
    BY <1>1 DEF OpenBlocks, Body
  <1>4. at # NoBlock => OpenBlocks(n, at[1]) \subseteq {at[2]} \cup OpenBlocks(m, at[1])
    BY <1>1, <1>2 DEF OpenBlocks
  <1>5. \A b \in W : b \in 1..Len(n[f].blocks) /\ Body(n, f, b) = << >>
    BY <1>1, <1>2 DEF Shut
  <1>6. f \in 1..Len(n) /\ at[1] # f => n[f].blocks = << >>
    BY <1>1 DEF Shut
  <1> QED BY <1>1, <1>3, <1>4, <1>5, <1>6 DEF Shut

(* A branch or a return ends the block; a waiting one is filled next.      *)
LEMMA ShutJump ==
  ASSUME NEW k, NEW m, ModuleOk(m, k), NEW at, PlaceOk(m, at), NEW x, x.op \in Terminators,
         NEW f, NEW W, Shut(m, f, at, W), NEW b \in W,
         NEW code, code = <<x>>, NEW n, n = Insert(m, at, code)
  PROVE  Shut(n, f, <<f, b>>, W \ {b})
  <1>1. /\ Len(n) = Len(m)
        /\ \A g \in 1..Len(m) :
             /\ g # at[1] => n[g] = m[g]
             /\ Len(n[g].blocks) = Len(m[g].blocks)
             /\ \A c \in 1..Len(m[g].blocks) :
                  Body(n, g, c) = IF at # NoBlock /\ g = at[1] /\ c = at[2]
                                  THEN Body(m, g, c) \o code ELSE Body(m, g, c)
    BY InsertedBodies
  <1>2. at # NoBlock /\ at[1] = f /\ at[2] \notin W /\ b \in 1..Len(m[f].blocks)
    <2>1. W # {}
      OBVIOUS
    <2>2. at # NoBlock /\ at[1] = f /\ at[2] \notin W
      BY <2>1, Zenon DEF Shut
    <2>3. b \in 1..Len(m[f].blocks)
      BY Zenon DEF Shut
    <2> QED BY <2>2, <2>3, Zenon
  <1>3. f \in 1..Len(m) /\ at[2] \in 1..Len(m[f].blocks)
    BY <1>2, PlaceParts
  <1>4. at[2] \notin OpenBlocks(n, f)
    <2> DEFINE s == Body(m, f, at[2])
    <2>1. s \in Seq(Code(Below(k)))
      BY <1>3, ModuleShape DEF ModuleOk
    <2>2. Body(n, f, at[2]) = s \o <<x>>
      BY <1>1, <1>2, <1>3
    <2>3. s \o <<x>> # << >> /\ (s \o <<x>>)[Len(s \o <<x>>)] = x
      BY <2>1
    <2> HIDE DEF s
    <2> QED BY <2>2, <2>3 DEF OpenBlocks
  <1>5. OpenBlocks(n, f) \subseteq W
    <2>1. \A c \in 1..Len(m[f].blocks) : c # at[2] => Body(n, f, c) = Body(m, f, c)
      BY <1>1, <1>3
    <2>2. Len(n[f].blocks) = Len(m[f].blocks)
      BY <1>1, <1>3
    <2>3. \A c \in OpenBlocks(n, f) : c \in OpenBlocks(m, f)
      BY <1>4, <2>1, <2>2 DEF OpenBlocks
    <2>4. OpenBlocks(m, f) \subseteq {at[2]} \cup W
      BY <1>2 DEF Shut
    <2> QED BY <1>4, <2>3, <2>4
  <1>6. \A g \in 1..Len(m) : g # f => OpenBlocks(n, g) = OpenBlocks(m, g)
    <2>1. \A g \in 1..Len(m) : g # f => n[g] = m[g]
      BY <1>1, <1>2
    <2> QED BY <2>1 DEF OpenBlocks, Body
  <1>7. \A c \in W : c \in 1..Len(n[f].blocks) /\ Body(n, f, c) = << >>
    BY <1>1, <1>2, <1>3 DEF Shut
  <1>8. <<f, b>> # NoBlock /\ <<f, b>>[1] = f /\ <<f, b>>[2] = b
    BY <1>3 DEF NoBlock
  <1> QED BY <1>1, <1>2, <1>5, <1>6, <1>7, <1>8 DEF Shut

(* New blocks of the function in hand wait to be filled.                   *)
MadeIn(m, f, names) == (Len(m[f].blocks) + 1)..(Len(m[f].blocks) + Len(names))

LEMMA ShutCreate ==
  ASSUME NEW k \in Nat \ {0}, NEW m, ModuleOk(m, k), NEW at, PlaceOk(m, at), at # NoBlock,
         NEW f, at[1] = f, NEW names \in Seq(STRING),
         NEW W, Shut(m, f, at, W), NEW n, n = CreateBlocks(m, f, names)
  PROVE  Shut(n, f, at, W \cup MadeIn(m, f, names)) /\ W \cap MadeIn(m, f, names) = {}
  <1> DEFINE l == Len(m[f].blocks)
             U == (l + 1)..(l + Len(names))
  <1>0. MadeIn(m, f, names) = U
    BY DEF MadeIn
  <1>1. /\ f \in 1..Len(m) /\ at[2] \in 1..l /\ l \in Nat /\ Len(names) \in Nat
        /\ DOMAIN m = 1..Len(m) /\ Len(m) \in Nat
    BY PlaceParts, ModuleShape, LenProperties DEF ModuleOk
  <1>7. /\ Len(n) = Len(m) /\ Len(n[f].blocks) = l + Len(names)
        /\ \A g \in 1..Len(m) : g # f => n[g] = m[g]
        /\ \A c \in 1..l : Body(n, f, c) = Body(m, f, c)
        /\ \A c \in (l + 1)..Len(n[f].blocks) : Body(n, f, c) = << >>
    BY <1>1, BlocksCreated
  <1>8. /\ \A c \in 1..l : Body(n, f, c) = Body(m, f, c)
        /\ \A c \in U : Body(n, f, c) = << >>
        /\ Len(n[f].blocks) = l + Len(names)
    BY <1>7
  <1>9. OpenBlocks(n, f) \subseteq OpenBlocks(m, f) \cup U
    <2>1. \A c \in 1..(l + Len(names)) : c \in 1..l \/ c \in U
      BY <1>1
    <2> QED BY <1>8, <2>1 DEF OpenBlocks
  <1>10. OpenBlocks(m, f) \subseteq {at[2]} \cup W
    BY DEF Shut
  <1>11. \A g \in 1..Len(m) : g # f => OpenBlocks(n, g) = OpenBlocks(m, g)
    BY <1>7 DEF OpenBlocks, Body
  <1>12. \A c \in W \cup U : c \in 1..(l + Len(names)) /\ Body(n, f, c) = << >>
    <2>1. \A c \in W : c \in 1..l /\ Body(m, f, c) = << >>
      BY DEF Shut
    <2> QED BY <1>1, <1>8, <2>1
  <1>13. at[2] \notin W \cup U /\ W \cap U = {}
    <2>1. at[2] \notin W /\ W \subseteq 1..l
      BY DEF Shut
    <2> QED BY <1>1, <2>1
  <1> HIDE DEF l, U
  <1>14. Shut(n, f, at, W \cup U)
    BY <1>7, <1>8, <1>9, <1>10, <1>11, <1>12, <1>13 DEF Shut
  <1> QED BY <1>0, <1>13, <1>14

(* A function is opened when nothing waits; the one before is left.        *)
LEMMA ShutFunction ==
  ASSUME NEW k, NEW m, ModuleOk(m, k), NEW at, PlaceOk(m, at), NEW e, Shut(m, e, at, {}),
         NEW fun, NEW n, n = Append(m, fun), NEW f, f = Len(m) + 1, NEW to,
         \/ fun.blocks = << >> /\ to = at
         \/ Len(fun.blocks) = 1 /\ to = <<f, 1>>
  PROVE  Shut(n, f, to, {})
  <1>1. Len(m) \in Nat /\ DOMAIN m = 1..Len(m) /\ m \in Seq(Functions(Below(k)))
    BY ModuleShape DEF ModuleOk
  <1>2. Len(n) = f /\ n[f] = fun /\ \A g \in 1..Len(m) : n[g] = m[g]
    BY <1>1
  <1>3. \A g \in 1..f : g = f \/ g \in 1..Len(m)
    BY <1>1
  <1>4. \A g \in 1..Len(m) : OpenBlocks(n, g) = OpenBlocks(m, g)
    BY <1>2 DEF OpenBlocks, Body
  <1>5. at # NoBlock => at[1] \in 1..Len(m) /\ OpenBlocks(m, at[1]) \subseteq {at[2]}
    BY PlaceParts DEF Shut
  <1>6. at = NoBlock => at[1] = 0
    BY DEF NoBlock
  <1>7. \A g \in 1..Len(m) : \A b \in OpenBlocks(m, g), c \in OpenBlocks(m, g) : b = c
    <2>1. \A g \in 1..Len(m) : g # at[1] =>
            \A b \in OpenBlocks(m, g), c \in OpenBlocks(m, g) : b = c
      BY Zenon DEF Shut
    <2>2. ASSUME NEW g \in 1..Len(m), g = at[1],
                 NEW b \in OpenBlocks(m, g), NEW c \in OpenBlocks(m, g)
          PROVE  b = c
      <3>1. at # NoBlock
        BY <1>1, <1>6, <2>2
      <3> QED BY <1>5, <2>2, <3>1
    <2> QED BY <2>1, <2>2
  <1>8. CASE fun.blocks = << >> /\ to = at
    <2>1. OpenBlocks(n, f) = {}
      BY <1>2, <1>8 DEF OpenBlocks
    <2>2. at # NoBlock => OpenBlocks(n, at[1]) \subseteq {at[2]}
      BY <1>4, <1>5
    <2>3. \A g \in 1..f : \A b \in OpenBlocks(n, g), c \in OpenBlocks(n, g) : b = c
      BY <1>3, <1>4, <1>7, <2>1
    <2> QED BY <1>2, <1>8, <2>2, <2>3 DEF Shut
  <1>9. CASE Len(fun.blocks) = 1 /\ to = <<f, 1>>
    <2>1. OpenBlocks(n, f) \subseteq {1}
      BY <1>2, <1>9 DEF OpenBlocks
    <2>2. to[1] = f /\ to[2] = 1
      BY <1>9
    <2>3. \A g \in 1..f : g # f => \A b \in OpenBlocks(n, g), c \in OpenBlocks(n, g) : b = c
      BY <1>3, <1>4, <1>7
    <2> QED BY <1>2, <2>1, <2>2, <2>3 DEF Shut
  <1> QED BY <1>8, <1>9

-----------------------------------------------------------------------------
(* What waits, as the first task gives way to others.                      *)
Idle(ts) == \A p \in 1..Len(ts) : ts[p].blocks = << >> /\ ts[p].do # "endElse"

LEMMA IdleWaits ==
  ASSUME NEW S, NEW ts \in Seq(S), Idle(ts)
  PROVE  Apart(ts) /\ Waiting(ts) = {}
  <1>1. \A do : FirstWaiting(do) \in 1..3
    BY DEF FirstWaiting
  <1>2. ASSUME NEW p \in 1..Len(ts)
        PROVE  Awaits(ts[p]) = {} /\ Distinct(ts[p])
    <2>1. FirstWaiting(ts[p].do)..Len(ts[p].blocks) = {}
      <3>1. Len(ts[p].blocks) = 0
        BY DEF Idle
      <3>2. FirstWaiting(ts[p].do) \in 1..3
        BY <1>1
      <3> QED BY <3>1, <3>2
    <2> QED BY <2>1 DEF Awaits, Distinct
  <1> QED BY <1>2 DEF Apart, Waiting, Idle

LEMMA WaitingParts ==
  ASSUME NEW S, NEW ts \in Seq(S), ts # << >>, Apart(ts)
  PROVE  /\ Waiting(ts) = Awaits(Head(ts)) \cup Waiting(Tail(ts))
         /\ Awaits(Head(ts)) \cap Waiting(Tail(ts)) = {}
         /\ Apart(Tail(ts))
  <1> DEFINE tl == Tail(ts)
  <1>1. /\ Len(ts) \in Nat \ {0} /\ Len(tl) = Len(ts) - 1 /\ Head(ts) = ts[1]
        /\ \A p \in 1..Len(tl) : tl[p] = ts[p + 1]
    BY EmptySeq
  <1>2. \A p \in 1..Len(tl) : p + 1 \in 1..Len(ts) /\ p + 1 # 1
    BY <1>1
  <1>3. \A p \in 1..Len(ts) : p = 1 \/ (p - 1 \in 1..Len(tl) /\ (p - 1) + 1 = p)
    BY <1>1
  <1>4. 1 \in 1..Len(ts)
    BY <1>1
  <1> HIDE DEF tl
  <1>5. \A p \in 1..Len(ts) : ts[p] = Head(ts) \/ \E q \in 1..Len(tl) : ts[p] = tl[q]
    BY <1>1, <1>3
  <1>6. Waiting(ts) = Awaits(Head(ts)) \cup Waiting(tl)
    <2>1. Waiting(ts) \subseteq Awaits(Head(ts)) \cup Waiting(tl)
      BY <1>5 DEF Waiting
    <2>2. Awaits(Head(ts)) \subseteq Waiting(ts)
      BY <1>1, <1>4 DEF Waiting
    <2>3. Waiting(tl) \subseteq Waiting(ts)
      BY <1>1, <1>2 DEF Waiting
    <2> QED BY <2>1, <2>2, <2>3
  <1>7. \A p, q \in 1..Len(ts) : p # q => Awaits(ts[p]) \cap Awaits(ts[q]) = {}
    BY DEF Apart
  <1>8. Awaits(Head(ts)) \cap Waiting(tl) = {}
    <2>1. \A q \in 1..Len(tl) : Awaits(Head(ts)) \cap Awaits(tl[q]) = {}
      BY <1>1, <1>2, <1>4, <1>7
    <2> QED BY <2>1 DEF Waiting
  <1>9. \A p, q \in 1..Len(tl) : p # q => Awaits(tl[p]) \cap Awaits(tl[q]) = {}
    <2> SUFFICES ASSUME NEW p \in 1..Len(tl), NEW q \in 1..Len(tl), p # q
                 PROVE  Awaits(tl[p]) \cap Awaits(tl[q]) = {}
      OBVIOUS
    <2>1. p + 1 \in 1..Len(ts) /\ q + 1 \in 1..Len(ts) /\ p + 1 # q + 1
      BY <1>1
    <2>2. Awaits(ts[p + 1]) \cap Awaits(ts[q + 1]) = {}
      BY <1>7, <2>1
    <2> QED BY <1>1, <2>2
  <1>10. \A p \in 1..Len(tl) :
           Distinct(tl[p]) /\ (tl[p].do = "endElse" => Len(tl[p].blocks) = 3)
    BY <1>1, <1>2 DEF Apart
  <1> QED BY <1>6, <1>8, <1>9, <1>10 DEF Apart, tl

LEMMA WaitingJoined ==
  ASSUME NEW S, NEW s \in Seq(S), NEW T, NEW t \in Seq(T), Apart(s), Apart(t),
         Waiting(s) \cap Waiting(t) = {}, NEW next, next = s \o t
  PROVE  Apart(next) /\ Waiting(next) = Waiting(s) \cup Waiting(t)
  <1>1. /\ Len(s) \in Nat /\ Len(t) \in Nat /\ Len(next) = Len(s) + Len(t)
        /\ \A p \in 1..(Len(s) + Len(t)) :
             next[p] = IF p <= Len(s) THEN s[p] ELSE t[p - Len(s)]
    <2>1. s \in Seq(S \cup T) /\ t \in Seq(S \cup T)
      OBVIOUS
    <2> QED BY <2>1, ConcatProperties, LenProperties
  <1>2. ASSUME NEW p \in 1..Len(s)
        PROVE  p \in 1..Len(next) /\ next[p] = s[p]
    <2>1. p \in 1..(Len(s) + Len(t)) /\ p <= Len(s)
      BY <1>1
    <2> QED BY <1>1, <2>1
  <1>3. ASSUME NEW p \in 1..Len(t)
        PROVE  Len(s) + p \in 1..Len(next) /\ next[Len(s) + p] = t[p]
    <2>1. Len(s) + p \in 1..(Len(s) + Len(t)) /\ ~(Len(s) + p <= Len(s)) /\ (Len(s) + p) - Len(s) = p
      BY <1>1
    <2> QED BY <1>1, <2>1
  <1>4. ASSUME NEW p \in 1..Len(next)
        PROVE  p \in 1..Len(s) \/ \E q \in 1..Len(t) : p = Len(s) + q
    <2>1. p \in 1..Len(s) \/ (p - Len(s) \in 1..Len(t) /\ p = Len(s) + (p - Len(s)))
      BY <1>1
    <2> QED BY <2>1
  <1>5. Waiting(next) = Waiting(s) \cup Waiting(t)
    <2>1. Waiting(next) \subseteq Waiting(s) \cup Waiting(t)
      BY <1>2, <1>3, <1>4 DEF Waiting
    <2>2. Waiting(s) \subseteq Waiting(next)
      BY <1>2 DEF Waiting
    <2>3. Waiting(t) \subseteq Waiting(next)
      BY <1>3 DEF Waiting
    <2> QED BY <2>1, <2>2, <2>3
  <1>6. \A p \in 1..Len(next) :
          Distinct(next[p]) /\ (next[p].do = "endElse" => Len(next[p].blocks) = 3)
    <2> SUFFICES ASSUME NEW p \in 1..Len(next)
                 PROVE  Distinct(next[p]) /\ (next[p].do = "endElse" => Len(next[p].blocks) = 3)
      OBVIOUS
    <2>1. CASE p \in 1..Len(s)
      BY <1>2, <2>1 DEF Apart
    <2>2. CASE \E q \in 1..Len(t) : p = Len(s) + q
      <3>1. PICK q \in 1..Len(t) : p = Len(s) + q
        BY <2>2
      <3> QED BY <1>3, <3>1 DEF Apart
    <2> QED BY <1>4, <2>1, <2>2
  <1>7. \A p \in 1..Len(s) : \A q \in 1..Len(t) : Awaits(s[p]) \cap Awaits(t[q]) = {}
    BY DEF Waiting
  <1>8. \A p \in 1..Len(s) : \A q \in 1..Len(s) : p # q => Awaits(s[p]) \cap Awaits(s[q]) = {}
    BY DEF Apart
  <1>9. \A p \in 1..Len(t) : \A q \in 1..Len(t) : p # q => Awaits(t[p]) \cap Awaits(t[q]) = {}
    BY DEF Apart
  <1>10. ASSUME NEW p \in 1..Len(next), NEW q \in 1..Len(next), p # q
         PROVE  Awaits(next[p]) \cap Awaits(next[q]) = {}
    <2>1. CASE p \in 1..Len(s) /\ q \in 1..Len(s)
      BY <1>2, <1>8, <1>10, <2>1
    <2>2. CASE p \in 1..Len(s) /\ \E r \in 1..Len(t) : q = Len(s) + r
      BY <1>2, <1>3, <1>7, <2>2
    <2>3. CASE q \in 1..Len(s) /\ \E r \in 1..Len(t) : p = Len(s) + r
      BY <1>2, <1>3, <1>7, <2>3
    <2>4. CASE (\E r \in 1..Len(t) : p = Len(s) + r) /\ (\E r \in 1..Len(t) : q = Len(s) + r)
      <3>1. PICK i \in 1..Len(t) : p = Len(s) + i
        BY <2>4
      <3>2. PICK j \in 1..Len(t) : q = Len(s) + j
        BY <2>4
      <3>3. i # j
        BY <1>10, <3>1, <3>2
      <3>4. Awaits(t[i]) \cap Awaits(t[j]) = {}
        BY <1>9, <3>3
      <3> QED BY <1>3, <3>1, <3>2, <3>4
    <2> QED BY <1>4, <2>1, <2>2, <2>3, <2>4
  <1> QED BY <1>5, <1>6, <1>10 DEF Apart

LEMMA TasksReplaced ==
  ASSUME IInv, ShutInv, tasks # << >>, NEW S, NEW new \in Seq(S), Apart(new),
         NEW rest, rest = Waiting(tasks) \ Awaits(top), Waiting(new) \cap rest = {},
         tasks' = new \o Tail(tasks)
  PROVE  Apart(tasks') /\ Waiting(tasks') = Waiting(new) \cup rest
  <1> DEFINE T == TaskSet(ast)
  <1>1. tasks \in Seq(T) /\ top = Head(tasks) /\ Apart(tasks)
    BY TopShape DEF IInv, State, Line, ShutInv
  <1>2. Tail(tasks) \in Seq(T)
    <2> HIDE DEF T
    <2> QED BY <1>1, EmptySeq
  <1> HIDE DEF T
  <1>3. /\ Waiting(tasks) = Awaits(top) \cup Waiting(Tail(tasks))
        /\ Awaits(top) \cap Waiting(Tail(tasks)) = {} /\ Apart(Tail(tasks))
    BY <1>1, WaitingParts
  <1>4. rest = Waiting(Tail(tasks))
    BY <1>3
  <1>5. Waiting(new) \cap Waiting(Tail(tasks)) = {}
    BY <1>4
  <1> DEFINE tl == Tail(tasks)
             next == new \o tl
  <1>6. new \in Seq(S) /\ tl \in Seq(T) /\ Apart(new) /\ Apart(tl) /\ Waiting(new) \cap Waiting(tl) = {}
    BY <1>2, <1>3, <1>5
  <1>7. Apart(next) /\ Waiting(next) = Waiting(new) \cup Waiting(tl)
    <2> HIDE DEF tl
    <2> QED BY ONLY <1>6, WaitingJoined
  <1>8. tasks' = next
    OBVIOUS
  <1> QED BY <1>4, <1>7, <1>8

LEMMA NothingAwaited ==
  ASSUME NEW t, t.blocks = << >>
  PROVE  Awaits(t) = {} /\ Distinct(t)
  <1>1. FirstWaiting(t.do) \in 1..3
    BY DEF FirstWaiting
  <1>2. FirstWaiting(t.do)..Len(t.blocks) = {}
    BY <1>1
  <1> QED BY <1>2 DEF Awaits, Distinct

(* A task that holds no block gives way to others that hold none.          *)
LEMMA QuietStep ==
  ASSUME IInv, ShutInv, tasks # << >>, top.blocks = << >>, NEW S, NEW new \in Seq(S), Idle(new),
         tasks' = new \o Tail(tasks),
         currentFunction' = currentFunction, insertBlock' = insertBlock,
         \/ module' = module
         \/ \E code : module' = Insert(module, insertBlock, code)
  PROVE  ShutInv'
  <1> DEFINE W == Waiting(tasks)
  <1>1. Apart(new) /\ Waiting(new) = {}
    BY IdleWaits
  <1>2. Awaits(top) = {}
    BY NothingAwaited
  <1>3. Apart(tasks') /\ Waiting(tasks') = W
    BY <1>1, <1>2, TasksReplaced
  <1>4. Shut(module, currentFunction, insertBlock, W)
    BY DEF ShutInv
  <1>5. Shut(module', currentFunction, insertBlock, W)
    <2> HIDE DEF W
    <2>1. ModuleOk(module, nextId) /\ PlaceOk(module, insertBlock)
      BY TopShape
    <2>2. CASE module' = module
      BY <1>4, <2>2
    <2>3. CASE \E code : module' = Insert(module, insertBlock, code)
      <3>1. PICK code : module' = Insert(module, insertBlock, code)
        BY <2>3
      <3> QED BY <1>4, <2>1, <3>1, ShutInsert
    <2> QED BY <2>2, <2>3
  <1> HIDE DEF W
  <1> QED BY <1>3, <1>5 DEF ShutInv

(* The insertion point moves on to the next block that a task waits for.   *)
LEMMA JumpStep ==
  ASSUME IInv, ShutInv, tasks # << >>,
         NEW j \in 1..Len(top.blocks), j = FirstWaiting(top.do),
         NEW x, x.op \in Terminators, module' = Insert(module, insertBlock, <<x>>),
         insertBlock' = BlockIn(top.blocks[j]), currentFunction' = currentFunction,
         NEW S, NEW new \in Seq(S), Apart(new), Waiting(new) = Awaits(top) \ {top.blocks[j]},
         tasks' = new \o Tail(tasks)
  PROVE  ShutInv'
  <1> DEFINE W == Waiting(tasks)
             b == top.blocks[j]
             f == currentFunction
             code == <<x>>
  <1>1. ModuleOk(module, nextId) /\ PlaceOk(module, insertBlock) /\ top \in TaskSet(ast)
        /\ top = tasks[1] /\ 1 \in 1..Len(tasks)
    <2>1. tasks \in Seq(TaskSet(ast))
      BY DEF IInv, State, Line
    <2>2. 1 \in 1..Len(tasks)
      <3> DEFINE T == TaskSet(ast)
      <3>1. tasks \in Seq(T)
        BY <2>1
      <3> HIDE DEF T
      <3> QED BY <3>1, EmptySeq
    <2> QED BY <2>2, TopShape
  <1>2. Len(top.blocks) \in Nat
    <2>1. top.blocks \in Seq(Nat \ {0})
      BY <1>1 DEF TaskSet
    <2> QED BY <2>1, LenProperties
  <1>3. b \in Awaits(top)
    <2>1. j \in FirstWaiting(top.do)..Len(top.blocks)
      BY <1>2
    <2> QED BY <2>1 DEF Awaits
  <1>4. Awaits(top) \subseteq W
    BY <1>1 DEF Waiting
  <1> HIDE DEF W, b
  <1>5. Apart(tasks') /\ Waiting(tasks') = W \ {b}
    <2> DEFINE rest == W \ Awaits(top)
    <2>1. Waiting(new) = Awaits(top) \ {b}
      BY DEF b
    <2>2. Waiting(new) \cap rest = {}
      BY <2>1
    <2>3. rest = Waiting(tasks) \ Awaits(top)
      BY DEF W
    <2> HIDE DEF rest
    <2>4. Apart(tasks') /\ Waiting(tasks') = Waiting(new) \cup rest
      BY <2>2, <2>3, TasksReplaced
    <2> QED BY <1>3, <1>4, <2>1, <2>4 DEF rest
  <1>6. Shut(module, f, insertBlock, W)
    BY DEF ShutInv, W
  <1>7. b \in W
    BY <1>3, <1>4
  <1>8. module' = Insert(module, insertBlock, code) /\ code = <<x>>
    OBVIOUS
  <1> HIDE DEF code
  <1>9. Shut(module', f, <<f, b>>, W \ {b})
    BY <1>1, <1>6, <1>7, <1>8, ShutJump
  <1>10. insertBlock' = <<f, b>>
    BY DEF BlockIn, b
  <1> QED BY <1>5, <1>9, <1>10 DEF ShutInv

(* The lists of tasks that follow.                                         *)
LEMMA PairWaits ==
  ASSUME NEW x, x.blocks = << >>, x.do # "endElse",
         NEW y, Distinct(y), y.do = "endElse" => Len(y.blocks) = 3,
         NEW new, new = <<x, y>>
  PROVE  new \in Seq({x, y}) /\ Apart(new) /\ Waiting(new) = Awaits(y)
  <1>1. /\ new \in Seq({x, y}) /\ Len(new) = 2 /\ new[1] = x /\ new[2] = y
        /\ 1 \in 1..2 /\ 2 \in 1..2
    OBVIOUS
  <1>2. Awaits(x) = {} /\ Distinct(x)
    BY NothingAwaited
  <1>3. \A p \in 1..Len(new) : (p = 1 /\ new[p] = x) \/ (p = 2 /\ new[p] = y)
    BY <1>1
  <1>4. Waiting(new) = Awaits(y)
    BY <1>1, <1>2, <1>3 DEF Waiting
  <1>5. \A p, q \in 1..Len(new) : p # q => Awaits(new[p]) \cap Awaits(new[q]) = {}
    <2> SUFFICES ASSUME NEW p \in 1..Len(new), NEW q \in 1..Len(new), p # q
                 PROVE  Awaits(new[p]) \cap Awaits(new[q]) = {}
      OBVIOUS
    <2>1. new[p] = x \/ new[q] = x
      BY <1>3
    <2> QED BY <1>2, <2>1
  <1>6. \A p \in 1..Len(new) :
          Distinct(new[p]) /\ (new[p].do = "endElse" => Len(new[p].blocks) = 3)
    BY <1>2, <1>3
  <1> QED BY <1>1, <1>4, <1>5, <1>6 DEF Apart

LEMMA IdleNone ==
  << >> \in Seq(Nat) /\ Idle(<< >>) /\ Apart(<< >>) /\ Waiting(<< >>) = {}
  <1>1. << >> \in Seq(Nat) /\ Idle(<< >>)
    BY DEF Idle
  <1> QED BY <1>1, IdleWaits

LEMMA IdlePair ==
  ASSUME NEW c, NEW do, do # "endElse", NEW n, NEW v,
         NEW new, new = <<Visit(c), Task(do, n, v)>>
  PROVE  Idle(new) /\ new \in Seq({Visit(c), Task(do, n, v)})
  <1> DEFINE x == Visit(c)
             y == Task(do, n, v)
  <1>1. x.blocks = << >> /\ x.do = "visit" /\ y.blocks = << >> /\ y.do = do
    BY DEF Visit, Task
  <1>2. new = <<x, y>>
    OBVIOUS
  <1> HIDE DEF x, y
  <1>3. new \in Seq({x, y}) /\ \A p \in 1..Len(new) : new[p] = x \/ new[p] = y
    BY <1>2
  <1> QED BY <1>1, <1>3 DEF Idle, x, y

LEMMA IdleVisits ==
  ASSUME NEW S, NEW ns \in Seq(S), NEW new, new = VisitAll(ns)
  PROVE  /\ Idle(new) /\ new \in Seq({Visit(n) : n \in S})
         /\ Len(new) = Len(ns)
  <1>1. Len(ns) \in Nat /\ DOMAIN ns = 1..Len(ns) /\ \A p \in 1..Len(ns) : ns[p] \in S
    BY LenProperties, ElementOfSeq
  <1>2. new = [p \in 1..Len(ns) |-> Visit(ns[p])]
    BY <1>1 DEF VisitAll
  <1> DEFINE T == {Visit(n) : n \in S}
  <1>3. \A p \in 1..Len(ns) : Visit(ns[p]) \in T
    BY <1>1
  <1> HIDE DEF T
  <1>4. new \in Seq(T) /\ Len(new) = Len(ns)
    <2>1. new \in [1..Len(ns) -> T]
      BY <1>2, <1>3
    <2> QED BY <1>1, <2>1
  <1>5. \A p \in 1..Len(new) : new[p].blocks = << >> /\ new[p].do = "visit"
    BY <1>2, <1>4 DEF Visit, Task
  <1> QED BY <1>4, <1>5 DEF Idle, T

(* A statement or declaration of at most one child, and what follows it.   *)
LEMMA IdleChildThen ==
  ASSUME NEW S, NEW ns \in Seq(S), Len(ns) <= 1, NEW do, do # "endElse", NEW n, NEW v,
         NEW new, \/ ns = << >> /\ new = VisitAll(ns) \o << >>
                  \/ ns # << >> /\ new = VisitAll(ns) \o <<Task(do, n, v)>>
  PROVE  Idle(new) /\ \E T : new \in Seq(T)
  <1>1. CASE ns = << >> /\ new = VisitAll(ns) \o << >>
    <2>1. new = << >>
      BY <1>1, VisitAllNone
    <2> QED BY <2>1, IdleNone
  <1>2. CASE ns # << >> /\ new = VisitAll(ns) \o <<Task(do, n, v)>>
    <2>1. ns = <<ns[1]>>
      BY <1>2, OneOrNone
    <2>2. VisitAll(ns) = <<Visit(ns[1])>>
      BY <2>1, VisitOne
    <2>3. new = <<Visit(ns[1]), Task(do, n, v)>>
      BY <1>2, <2>2, PairOfOnes
    <2> QED BY <2>3, IdlePair
  <1> QED BY <1>1, <1>2

-----------------------------------------------------------------------------
(* Every action keeps the blocks closed.                                   *)
BlockDos == {"branch", "endThen", "endElse", "loop", "endBody"}

LEMMA QuietTop ==
  ASSUME IInv, NEW do, Doing(do), do \notin BlockDos
  PROVE  tasks # << >> /\ top.blocks = << >>
  <1>1. tasks # << >> /\ top.do = do
    BY DEF Doing
  <1>2. TaskOk(ast, top)
    BY <1>1, TopShape
  <1> QED BY <1>1, <1>2 DEF TaskOk, BlockDos

(* Nothing else is done after these.                                       *)
LEMMA EndsKeepShut ==
  ASSUME IInv, ShutInv,
         \/ StoreInitializer \/ CreateRet \/ VisitLiteralExpr \/ VisitVariableExpr
         \/ VisitFieldExpr \/ AddOffset \/ StoreAssigned \/ Combine
  PROVE  ShutInv'
  <1>1. PICK do : Doing(do) /\ do \notin BlockDos
    <2>1. Doing("store") \/ Doing("ret") \/ Doing("visit") \/ Doing("offset")
            \/ Doing("assign") \/ Doing("combine")
      BY DEF StoreInitializer, CreateRet, VisitLiteralExpr, VisitVariableExpr, VisitFieldExpr,
             AddOffset, StoreAssigned, Combine, Visiting
    <2> QED BY <2>1 DEF BlockDos
  <1>2. tasks # << >> /\ top.blocks = << >>
    BY <1>1, QuietTop
  <1>3. /\ tasks' = << >> \o Tail(tasks)
        /\ currentFunction' = currentFunction /\ insertBlock' = insertBlock
    BY DEF StoreInitializer, CreateRet, VisitLiteralExpr, VisitVariableExpr, VisitFieldExpr,
           AddOffset, StoreAssigned, Combine, Continue, scope
  <1>4. module' = module \/ \E code : module' = Insert(module, insertBlock, code)
    <2>1. CASE StoreInitializer
      BY <2>1, Zenon DEF StoreInitializer
    <2>2. CASE CreateRet
      BY <2>2, Zenon DEF CreateRet
    <2>3. CASE VisitLiteralExpr
      BY <2>3 DEF VisitLiteralExpr
    <2>4. CASE VisitVariableExpr
      BY <2>4, Zenon DEF VisitVariableExpr
    <2>5. CASE VisitFieldExpr
      BY <2>5, Zenon DEF VisitFieldExpr
    <2>6. CASE AddOffset
      BY <2>6, Zenon DEF AddOffset
    <2>7. CASE StoreAssigned
      BY <2>7, Zenon DEF StoreAssigned
    <2>8. CASE Combine
      BY <2>8, Zenon DEF Combine
    <2> QED BY <2>1, <2>2, <2>3, <2>4, <2>5, <2>6, <2>7, <2>8
  <1> QED BY <1>2, <1>3, <1>4, IdleNone, QuietStep

(* An operand is visited first.                                            *)
LEMMA OperandsKeepShut ==
  ASSUME IInv, ShutInv,
         VisitMemberExpr \/ VisitAssignment \/ VisitBinaryExpr \/ VisitRightOperand
  PROVE  ShutInv'
  <1>1. PICK do : Doing(do) /\ do \notin BlockDos
    <2>1. Doing("visit") \/ Doing("rhs")
      BY DEF VisitMemberExpr, VisitAssignment, VisitBinaryExpr, VisitRightOperand, Visiting
    <2> QED BY <2>1 DEF BlockDos
  <1>2. tasks # << >> /\ top.blocks = << >>
    BY <1>1, QuietTop
  <1>3. /\ module' = module
        /\ currentFunction' = currentFunction /\ insertBlock' = insertBlock
    BY DEF VisitMemberExpr, VisitAssignment, VisitBinaryExpr, VisitRightOperand, scope
  <1>4. \E c, d, n, v : /\ d # "endElse"
                        /\ tasks' = <<Visit(c), Task(d, n, v)>> \o Tail(tasks)
    <2>1. CASE VisitMemberExpr
      BY <2>1 DEF VisitMemberExpr, Continue
    <2>2. CASE VisitAssignment
      <3> DEFINE v == IF ast[kid(1)].kind = "variable" THEN Variable(ast[kid(1)].name) ELSE Null
      <3>1. tasks' = <<Visit(kid(2)), Task("assign", top.node, v)>> \o Tail(tasks)
        BY <2>2, Zenon DEF VisitAssignment, Continue
      <3> HIDE DEF v
      <3> QED BY <3>1
    <2>3. CASE VisitBinaryExpr
      BY <2>3 DEF VisitBinaryExpr, Continue
    <2>4. CASE VisitRightOperand
      BY <2>4 DEF VisitRightOperand, Continue
    <2> QED BY <2>1, <2>2, <2>3, <2>4
  <1>5. PICK c, d, n, v : /\ d # "endElse"
                          /\ tasks' = <<Visit(c), Task(d, n, v)>> \o Tail(tasks)
    BY <1>4
  <1> DEFINE new == <<Visit(c), Task(d, n, v)>>
  <1>6. Idle(new) /\ \E S : new \in Seq(S)
    BY <1>5, IdlePair
  <1>7. tasks' = new \o Tail(tasks)
    BY <1>5
  <1> HIDE DEF new
  <1> QED BY <1>2, <1>3, <1>6, <1>7, QuietStep

(* The children are visited.                                               *)
LEMMA ChildrenKeepShut ==
  ASSUME IInv, ShutInv, VisitChildren \/ VisitRecordDecl
  PROVE  ShutInv'
  <1>1. Doing("visit") /\ "visit" \notin BlockDos
    BY DEF VisitChildren, VisitRecordDecl, Visiting, BlockDos
  <1>2. tasks # << >> /\ top.blocks = << >>
    BY <1>1, QuietTop
  <1>3. /\ module' = module
        /\ currentFunction' = currentFunction /\ insertBlock' = insertBlock
    BY DEF VisitChildren, VisitRecordDecl, scope
  <1>4. PICK ns \in Seq(DOMAIN ast) : tasks' = VisitAll(ns) \o Tail(tasks)
    <2>1. CASE VisitChildren
      <3>1. node.kids \in Seq(DOMAIN ast)
        BY <2>1, TopVisit DEF VisitChildren
      <3>2. tasks' = VisitAll(node.kids) \o Tail(tasks)
        BY <2>1 DEF VisitChildren, Continue
      <3> QED BY <3>1, <3>2
    <2>2. CASE VisitRecordDecl
      <3>1. node.kind \in {"record"} /\ node = ast[top.node] /\ top.node \in DOMAIN ast
        BY <2>2, TopVisit DEF VisitRecordDecl
      <3>2. MethodsOf(top.node) \in Seq(DOMAIN ast)
        BY <1>2, <3>1, TopShape, MethodsListed
      <3>3. tasks' = VisitAll(MethodsOf(top.node)) \o Tail(tasks)
        BY <2>2 DEF VisitRecordDecl, Continue
      <3> QED BY <3>2, <3>3
    <2> QED BY <2>1, <2>2
  <1> DEFINE new == VisitAll(ns)
  <1>5. Idle(new) /\ \E S : new \in Seq(S)
    BY IdleVisits
  <1>6. tasks' = new \o Tail(tasks)
    BY <1>4
  <1> HIDE DEF new
  <1> QED BY <1>2, <1>3, <1>5, <1>6, QuietStep

(* A child, if there is one, and what is done with its value.              *)
LEMMA ValuesKeepShut ==
  ASSUME IInv, ShutInv, VisitVarDecl \/ VisitReturnStmt
  PROVE  ShutInv'
  <1>1. Doing("visit") /\ "visit" \notin BlockDos
    BY DEF VisitVarDecl, VisitReturnStmt, Visiting, BlockDos
  <1>2. tasks # << >> /\ top.blocks = << >>
    BY <1>1, QuietTop
  <1>3. currentFunction' = currentFunction /\ insertBlock' = insertBlock
    BY DEF VisitVarDecl, VisitReturnStmt, scope
  <1>4. module' = module \/ \E code : module' = Insert(module, insertBlock, code)
    <2>1. CASE VisitVarDecl
      BY <2>1, Zenon DEF VisitVarDecl
    <2>2. CASE VisitReturnStmt
      BY <2>2, Zenon DEF VisitReturnStmt
    <2> QED BY <2>1, <2>2
  <1>5. node.kids \in Seq(DOMAIN ast) /\ Len(node.kids) <= 1
    <2>1. PICK kind \in {"vardecl", "return"} : Visiting({kind})
      BY DEF VisitVarDecl, VisitReturnStmt
    <2>2. /\ node = ast[top.node] /\ top.node \in DOMAIN ast /\ node.kind \in {kind}
          /\ node.kids \in Seq(DOMAIN ast)
      BY <2>1, TopVisit
    <2>3. TreeOk(ast)
      BY <1>2, TopShape
    <2> QED BY <2>2, <2>3, KidsShape
  <1>6. PICK new : /\ tasks' = new \o Tail(tasks)
                   /\ \E d, n, v :
                        /\ d # "endElse"
                        /\ \/ node.kids = << >> /\ new = VisitAll(node.kids) \o << >>
                           \/ /\ node.kids # << >>
                              /\ new = VisitAll(node.kids) \o <<Task(d, n, v)>>
    <2>1. CASE VisitVarDecl
      <3> DEFINE y == Task("store", top.node, Ref(nextId))
                 new == VisitAll(node.kids) \o (IF node.kids = << >> THEN << >> ELSE <<y>>)
      <3>1. tasks' = new \o Tail(tasks)
        BY <2>1 DEF VisitVarDecl, Continue
      <3>2. \/ node.kids = << >> /\ new = VisitAll(node.kids) \o << >>
            \/ node.kids # << >> /\ new = VisitAll(node.kids) \o <<y>>
        OBVIOUS
      <3> HIDE DEF new
      <3>3. \E d, n, v :
              /\ d # "endElse"
              /\ \/ node.kids = << >> /\ new = VisitAll(node.kids) \o << >>
                 \/ /\ node.kids # << >>
                    /\ new = VisitAll(node.kids) \o <<Task(d, n, v)>>
        <4>1. "store" # "endElse"
          OBVIOUS
        <4>2. CASE node.kids = << >>
          BY <3>2, <4>1, <4>2
        <4>3. CASE node.kids # << >>
          BY <3>2, <4>1, <4>3, Zenon
        <4> QED BY <4>2, <4>3
      <3> QED BY <3>1, <3>3, Zenon
    <2>2. CASE VisitReturnStmt
      <3> DEFINE y == Task("ret", top.node, Null)
      <3>1. CASE node.kids = << >>
        <4>1. tasks' = << >> \o Tail(tasks)
          BY <2>2, <3>1 DEF VisitReturnStmt, Continue
        <4>2. << >> = VisitAll(node.kids) \o << >> /\ "store" # "endElse"
          BY <3>1, VisitAllNone
        <4> QED BY <3>1, <4>1, <4>2
      <3>2. CASE node.kids # << >>
        <4>1. tasks' = (VisitAll(node.kids) \o <<y>>) \o Tail(tasks)
          BY <2>2, <3>2 DEF VisitReturnStmt, Continue
        <4>2. "ret" # "endElse"
          OBVIOUS
        <4> QED BY <3>2, <4>1, <4>2, Zenon
      <3> QED BY <3>1, <3>2
    <2> QED BY <2>1, <2>2
  <1>7. Idle(new) /\ \E T : new \in Seq(T)
    <2>1. PICK d, n, v : /\ d # "endElse"
                         /\ \/ node.kids = << >> /\ new = VisitAll(node.kids) \o << >>
                            \/ /\ node.kids # << >>
                               /\ new = VisitAll(node.kids) \o <<Task(d, n, v)>>
      BY <1>6
    <2> QED BY <1>5, <2>1, IdleChildThen
  <1> QED BY <1>2, <1>3, <1>4, <1>6, <1>7, QuietStep

LEMMA TopApart ==
  ASSUME IInv, ShutInv, tasks # << >>
  PROVE  /\ Distinct(top) /\ (top.do = "endElse" => Len(top.blocks) = 3)
         /\ Len(top.blocks) \in Nat /\ DOMAIN top = {"do", "node", "val", "func", "blocks"}
  <1> DEFINE T == TaskSet(ast)
  <1>1. tasks \in Seq(T) /\ Apart(tasks) /\ top = tasks[1] /\ top \in TaskSet(ast)
    BY TopShape DEF IInv, State, Line, ShutInv
  <1>2. 1 \in 1..Len(tasks)
    <2> HIDE DEF T
    <2> QED BY <1>1, EmptySeq
  <1>3. top.blocks \in Seq(Nat \ {0}) /\ DOMAIN top = {"do", "node", "val", "func", "blocks"}
    BY <1>1 DEF TaskSet
  <1> QED BY <1>1, <1>2, <1>3, LenProperties DEF Apart

LEMMA NextWaits ==
  ASSUME IInv, ShutInv, tasks # << >>, NEW j \in 1..Len(top.blocks), j = FirstWaiting(top.do),
         NEW d, FirstWaiting(d) = j + 1, d = "endElse" => Len(top.blocks) = 3,
         NEW c, NEW new, new = <<Visit(c), [top EXCEPT !.do = d]>>
  PROVE  /\ Apart(new) /\ Waiting(new) = Awaits(top) \ {top.blocks[j]}
         /\ \E S : new \in Seq(S)
  <1> DEFINE x == Visit(c)
             y == [top EXCEPT !.do = d]
             len == Len(top.blocks)
  <1>1. Distinct(top) /\ len \in Nat /\ DOMAIN top = {"do", "node", "val", "func", "blocks"}
    BY TopApart
  <1>2. y.do = d /\ y.blocks = top.blocks /\ x.blocks = << >> /\ x.do = "visit"
    BY <1>1 DEF Visit, Task
  <1>3. new = <<x, y>>
    OBVIOUS
  <1> HIDE DEF x, y, len
  <1>4. Distinct(y)
    <2>1. \A p, q \in j..len : top.blocks[p] = top.blocks[q] => p = q
      BY <1>1 DEF Distinct, len
    <2>2. \A p \in (j + 1)..len : p \in j..len
      OBVIOUS
    <2> QED BY <1>2, <2>1, <2>2 DEF Distinct, len
  <1>5. Awaits(y) = Awaits(top) \ {top.blocks[j]}
    <2>1. Awaits(top) = {top.blocks[p] : p \in j..len}
      BY DEF Awaits, len
    <2>2. Awaits(y) = {top.blocks[p] : p \in (j + 1)..len}
      BY <1>2 DEF Awaits, len
    <2>3. \A p \in j..len : p = j \/ p \in (j + 1)..len
      BY <1>1
    <2>4. \A p \in (j + 1)..len : p \in j..len /\ j \in j..len /\ p # j
      BY <1>1
    <2>5. \A p, q \in j..len : top.blocks[p] = top.blocks[q] => p = q
      BY <1>1 DEF Distinct, len
    <2>6. \A p \in (j + 1)..len : top.blocks[p] # top.blocks[j]
      BY <2>4, <2>5
    <2> QED BY <2>1, <2>2, <2>3, <2>4, <2>6
  <1>6. y.do = "endElse" => Len(y.blocks) = 3
    BY <1>2
  <1> QED BY <1>2, <1>3, <1>4, <1>5, <1>6, PairWaits

LEMMA LastWaits ==
  ASSUME IInv, ShutInv, tasks # << >>, NEW j, j = Len(top.blocks), j = FirstWaiting(top.do)
  PROVE  Waiting(<< >>) = Awaits(top) \ {top.blocks[j]}
  <1>1. Awaits(top) = {top.blocks[p] : p \in j..j}
    BY DEF Awaits
  <1>2. j \in Nat
    BY TopApart
  <1>3. j..j = {j}
    BY <1>2
  <1> QED BY <1>1, <1>3, IdleNone

(* Branches within the statement.                                          *)
LEMMA BranchesClose ==
  ASSUME NEW x, NEW b, NEW c
  PROVE  Br(b).op \in Terminators /\ CondBr(x, b, c).op \in Terminators
  BY DEF Br, CondBr, Instr, Terminators

LEMMA ConditionsKeepShut ==
  ASSUME IInv, ShutInv, BranchOnCondition \/ LoopOnCondition
  PROVE  ShutInv'
  <1> DEFINE j == FirstWaiting(top.do)
             d == IF top.do = "branch" THEN "endThen" ELSE "endBody"
             new == <<Visit(kid(2)), [top EXCEPT !.do = d]>>
             x == IF top.do = "branch" THEN CondBr(lastValue, top.blocks[1], top.blocks[2])
                  ELSE CondBr(lastValue, top.blocks[2], top.blocks[3])
  <1>1. /\ tasks # << >> /\ TaskOk(ast, top) /\ top.do \in {"branch", "loop"}
        /\ top.node \in DOMAIN ast /\ TreeOk(ast)
    <2>1. tasks # << >> /\ top.do \in {"branch", "loop"}
      BY DEF BranchOnCondition, LoopOnCondition, Doing
    <2> QED BY <2>1, TopShape
  <1>2. Len(top.blocks) \in 2..3 /\ (top.do = "loop" => Len(top.blocks) = 3)
    <2>1. CASE top.do = "branch"
      <3>1. ast[top.node].kind = "if" /\ Len(top.blocks) = Len(ast[top.node].kids)
        BY <1>1, <2>1 DEF TaskOk, KindOf
      <3>2. Len(ast[top.node].kids) \in 2..3
        BY <1>1, <3>1, KidsShape
      <3> QED BY <2>1, <3>1, <3>2
    <2>2. CASE top.do = "loop"
      BY <1>1, <2>2 DEF TaskOk
    <2> QED BY <1>1, <2>1, <2>2
  <1>3. /\ j \in 1..Len(top.blocks) /\ FirstWaiting(d) = j + 1 /\ d # "endElse"
        /\ j = IF top.do = "branch" THEN 1 ELSE 2
    <2>1. CASE top.do = "branch"
      <3>1. j = 1 /\ FirstWaiting(d) = 2 /\ d # "endElse"
        BY <2>1 DEF FirstWaiting
      <3> HIDE DEF j, d
      <3> QED BY <1>2, <2>1, <3>1, SMTT(20)
    <2>2. CASE top.do = "loop"
      <3>1. j = 2 /\ FirstWaiting(d) = 3 /\ d # "endElse"
        BY <2>2 DEF FirstWaiting
      <3> HIDE DEF j, d
      <3> QED BY <1>2, <2>2, <3>1, SMTT(20)
    <2> QED BY <1>1, <2>1, <2>2
  <1>4. /\ module' = Insert(module, insertBlock, <<x>>)
        /\ insertBlock' = BlockIn(top.blocks[j]) /\ currentFunction' = currentFunction
        /\ tasks' = new \o Tail(tasks)
    <2>1. CASE BranchOnCondition
      <3>1. top.do = "branch"
        BY <2>1 DEF BranchOnCondition, Doing
      <3> QED BY <1>3, <2>1, <3>1, BranchMade DEF BranchOnCondition, Continue, scope
    <2>2. CASE LoopOnCondition
      <3>1. top.do = "loop"
        BY <2>2 DEF LoopOnCondition, Doing
      <3> QED BY <1>3, <2>2, <3>1, LoopMade DEF LoopOnCondition, Continue, scope
    <2> QED BY <2>1, <2>2
  <1>5. x.op \in Terminators
    BY BranchesClose
  <1> HIDE DEF j, d, x
  <1>6. /\ Apart(new) /\ Waiting(new) = Awaits(top) \ {top.blocks[j]}
        /\ \E S : new \in Seq(S)
    <2>1. j = FirstWaiting(top.do)
      BY DEF j
    <2> QED BY <1>1, <1>3, <2>1, NextWaits
  <1>7. j = FirstWaiting(top.do)
    BY DEF j
  <1> HIDE DEF new
  <1> QED BY <1>1, <1>3, <1>4, <1>5, <1>6, <1>7, JumpStep

LEMMA LastsKeepShut ==
  ASSUME IInv, ShutInv, EndElse \/ EndBody
  PROVE  ShutInv'
  <1>1. /\ tasks # << >> /\ TaskOk(ast, top) /\ top.do \in {"endElse", "endBody"}
    <2>1. tasks # << >> /\ top.do \in {"endElse", "endBody"}
      BY DEF EndElse, EndBody, Doing
    <2> QED BY <2>1, TopShape
  <1>2. Len(top.blocks) = 3 /\ FirstWaiting(top.do) = 3
    <2>1. CASE top.do = "endElse"
      BY <1>1, <2>1, TopApart DEF FirstWaiting
    <2>2. CASE top.do = "endBody"
      BY <1>1, <2>2 DEF TaskOk, FirstWaiting
    <2> QED BY <1>1, <2>1, <2>2
  <1>3. /\ \E b : module' = Insert(module, insertBlock, <<Br(b)>>)
        /\ insertBlock' = BlockIn(top.blocks[3]) /\ currentFunction' = currentFunction
        /\ tasks' = << >> \o Tail(tasks)
    <2>1. CASE EndElse
      <3>1. Last(top.blocks) = top.blocks[3]
        BY <1>2 DEF Last
      <3>2. /\ module' = Insert(module, insertBlock, <<Br(Last(top.blocks))>>)
            /\ insertBlock' = BlockIn(Last(top.blocks))
        BY <2>1, ElseEnded
      <3> QED BY <2>1, <3>1, <3>2, Zenon DEF EndElse, Continue, scope
    <2>2. CASE EndBody
      <3>1. /\ module' = Insert(module, insertBlock, <<Br(top.blocks[1])>>)
            /\ insertBlock' = BlockIn(top.blocks[3])
        BY <2>2, BodyEnded
      <3> QED BY <2>2, <3>1, Zenon DEF EndBody, Continue, scope
    <2> QED BY <2>1, <2>2
  <1>4. PICK b : module' = Insert(module, insertBlock, <<Br(b)>>)
    BY <1>3
  <1>5. 3 \in 1..Len(top.blocks) /\ 3 = FirstWaiting(top.do) /\ 3 = Len(top.blocks)
    BY <1>2
  <1>6. Waiting(<< >>) = Awaits(top) \ {top.blocks[3]}
    BY <1>1, <1>5, LastWaits
  <1>7. Br(b).op \in Terminators
    BY BranchesClose
  <1> DEFINE x == Br(b)
  <1> HIDE DEF x
  <1>8. x.op \in Terminators /\ module' = Insert(module, insertBlock, <<x>>)
    BY <1>4, <1>7 DEF x
  <1> QED BY <1>1, <1>3, <1>5, <1>6, <1>8, IdleNone, JumpStep

LEMMA EndThenKeepsShut ==
  ASSUME IInv, ShutInv, EndThen
  PROVE  ShutInv'
  <1> DEFINE x == Br(Last(top.blocks))
  <1>1. /\ tasks # << >> /\ TaskOk(ast, top) /\ top.do = "endThen"
        /\ top.node \in DOMAIN ast /\ TreeOk(ast)
    <2>1. tasks # << >> /\ top.do = "endThen"
      BY DEF EndThen, Doing
    <2> QED BY <2>1, TopShape
  <1>2. Len(top.blocks) = Len(node.kids) /\ Len(node.kids) \in 2..3
    <2>1. node.kind = "if" /\ Len(top.blocks) = Len(node.kids) /\ node = ast[top.node]
      BY <1>1 DEF TaskOk, KindOf, node
    <2> QED BY <1>1, <2>1, KidsShape
  <1>3. 2 \in 1..Len(top.blocks) /\ 2 = FirstWaiting(top.do)
    <2>1. 2 = FirstWaiting(top.do)
      BY <1>1 DEF FirstWaiting
    <2>2. Len(top.blocks) \in 2..3
      BY <1>2
    <2>3. 2 \in 1..Len(top.blocks)
      BY ONLY <2>2, TwoOrThree
    <2> QED BY <2>1, <2>3
  <1>4. /\ module' = Insert(module, insertBlock, <<x>>)
        /\ insertBlock' = BlockIn(top.blocks[2]) /\ currentFunction' = currentFunction
        /\ tasks' = (IF HasElse THEN <<Visit(kid(3)), [top EXCEPT !.do = "endElse"]>> ELSE << >>)
                      \o Tail(tasks)
    BY ThenEnded DEF EndThen, Continue, scope
  <1>5. x.op \in Terminators
    BY BranchesClose
  <1> HIDE DEF x
  <1>6. CASE HasElse
    <2> DEFINE new == <<Visit(kid(3)), [top EXCEPT !.do = "endElse"]>>
    <2>1. tasks' = new \o Tail(tasks)
      BY <1>4, <1>6
    <2>2. FirstWaiting("endElse") = 2 + 1 /\ Len(top.blocks) = 3
      BY <1>2, <1>6 DEF FirstWaiting, HasElse
    <2>3. /\ Apart(new) /\ Waiting(new) = Awaits(top) \ {top.blocks[2]}
          /\ \E S : new \in Seq(S)
      BY <1>1, <1>3, <2>2, NextWaits
    <2> HIDE DEF new
    <2> QED BY <1>1, <1>3, <1>4, <1>5, <2>1, <2>3, JumpStep
  <1>7. CASE ~HasElse
    <2>1. tasks' = << >> \o Tail(tasks)
      BY <1>4, <1>7
    <2>2. 2 = Len(top.blocks)
      BY <1>2, <1>7 DEF HasElse
    <2>3. Waiting(<< >>) = Awaits(top) \ {top.blocks[2]}
      BY <1>1, <1>3, <2>2, LastWaits
    <2> QED BY <1>1, <1>3, <1>4, <1>5, <2>1, <2>3, IdleNone, JumpStep
  <1> QED BY <1>6, <1>7

LEMMA MadeShut ==
  ASSUME IInv, tasks # << >>, insertBlock # NoBlock, insertBlock[1] = currentFunction,
         NEW W, Shut(module, currentFunction, insertBlock, W), NEW names \in Seq(STRING)
  PROVE  /\ Shut(CreateBlocks(module, currentFunction, names), currentFunction, insertBlock,
                 W \cup MadeIn(module, currentFunction, names))
         /\ W \cap MadeIn(module, currentFunction, names) = {}
  <1> DEFINE n == CreateBlocks(module, currentFunction, names)
  <1>1. /\ nextId \in Nat \ {0} /\ ModuleOk(module, nextId) /\ PlaceOk(module, insertBlock)
        /\ n = CreateBlocks(module, currentFunction, names)
    BY TopShape
  <1> HIDE DEF n
  <1>2. /\ Shut(n, currentFunction, insertBlock, W \cup MadeIn(module, currentFunction, names))
        /\ W \cap MadeIn(module, currentFunction, names) = {}
    BY <1>1, ShutCreate
  <1> QED BY <1>2 DEF n

(* The blocks of an if or a while are made, and waited for.                *)
LEMMA VisitIfStmtKeepsShut ==
  ASSUME IInv, ShutInv, VisitIfStmt
  PROVE  ShutInv'
  <1> DEFINE names == IF HasElse THEN <<"if.then", "if.else", "if.end">>
                      ELSE <<"if.then", "if.end">>
             bbs == [k \in DOMAIN names |-> NextBlock(k)]
             l == Len(module[currentFunction].blocks)
             y == BlockTask("branch", top.node, bbs)
             new == <<Visit(kid(1)), y>>
             W == Waiting(tasks)
             U == (l + 1)..(l + Len(names))
  <1>1. /\ tasks # << >> /\ top.blocks = << >>
        /\ insertBlock # NoBlock /\ insertBlock[1] = currentFunction
    <2>1. Visiting({"if"}) /\ Doing("visit") /\ "visit" \notin BlockDos
      BY DEF VisitIfStmt, Visiting, BlockDos
    <2>2. node.kind \in {"if"}
      BY <2>1, TopVisit
    <2>3. node.kind \in StmtKinds
      BY <2>2 DEF StmtKinds
    <2> QED BY <2>1, <2>3, TopVisit, QuietTop
  <1>2. /\ nextId \in Nat \ {0} /\ ModuleOk(module, nextId) /\ PlaceOk(module, insertBlock)
    BY <1>1, TopShape
  <1>3. names \in Seq(STRING) /\ Len(names) \in 2..3 /\ DOMAIN names = 1..Len(names)
    <2>1. /\ <<"if.then", "if.else", "if.end">> \in Seq(STRING)
          /\ Len(<<"if.then", "if.else", "if.end">>) = 3
          /\ <<"if.then", "if.end">> \in Seq(STRING) /\ Len(<<"if.then", "if.end">>) = 2
      BY ShortLists, StringsGiven
    <2>2. names \in Seq(STRING) /\ (Len(names) = 2 \/ Len(names) = 3)
      <3>1. CASE HasElse
        BY <2>1, <3>1
      <3>2. CASE ~HasElse
        BY <2>1, <3>2
      <3> QED BY <3>1, <3>2
    <2> HIDE DEF names
    <2> QED BY <2>2, LenProperties
  <1>4. /\ module' = CreateBlocks(module, currentFunction, names)
        /\ insertBlock' = insertBlock /\ currentFunction' = currentFunction
        /\ tasks' = new \o Tail(tasks)
    <2>1. Continue(new) /\ module' = CreateBlocks(module, currentFunction, names)
      BY Zenon DEF VisitIfStmt
    <2> HIDE DEF new, names
    <2> QED BY <2>1 DEF VisitIfStmt, Continue, scope
  <1>5. Shut(module, currentFunction, insertBlock, W)
    BY DEF ShutInv
  <1> HIDE DEF names, W
  <1>6. Shut(module', currentFunction, insertBlock, W \cup U) /\ W \cap U = {}
    BY <1>1, <1>2, <1>3, <1>4, <1>5, MadeShut DEF MadeIn
  <1>7. l \in Nat
    <2>1. currentFunction \in 1..Len(module)
      BY <1>1, <1>2, PlaceParts
    <2> QED BY <1>2, <2>1, ModuleShape DEF ModuleOk
  <1>8. Len(bbs) = Len(names) /\ \A k \in 1..Len(names) : bbs[k] = l + k
    BY <1>3 DEF NextBlock
  <1>9. y.do = "branch" /\ y.blocks = bbs /\ FirstWaiting(y.do) = 1
    BY DEF BlockTask, FirstWaiting
  <1> HIDE DEF l, bbs, y
  <1>10. Awaits(y) = U
    <2>1. Awaits(y) = {bbs[p] : p \in 1..Len(names)}
      BY <1>8, <1>9 DEF Awaits
    <2>2. \A u \in U : u - l \in 1..Len(names) /\ l + (u - l) = u
      BY <1>3, <1>7
    <2>3. \A p \in 1..Len(names) : l + p \in U
      BY <1>3, <1>7
    <2> QED BY <1>8, <2>1, <2>2, <2>3
  <1>11. Distinct(y)
    <2>1. \A p, q \in 1..Len(names) : l + p = l + q => p = q
      BY <1>3, <1>7
    <2> QED BY <1>8, <1>9, <2>1 DEF Distinct
  <1>12. Apart(new) /\ Waiting(new) = U /\ \E S : new \in Seq(S)
    <2>1. Visit(kid(1)).blocks = << >> /\ Visit(kid(1)).do # "endElse"
      BY DEF Visit, Task
    <2>2. y.do # "endElse"
      BY <1>9
    <2> QED BY <1>10, <1>11, <2>1, <2>2, PairWaits
  <1> HIDE DEF new, U
  <1>13. Apart(tasks') /\ Waiting(tasks') = U \cup W
    <2>1. Awaits(top) = {}
      BY <1>1, NothingAwaited
    <2>2. W = Waiting(tasks) \ Awaits(top)
      BY <2>1 DEF W
    <2>3. Waiting(new) \cap W = {}
      BY <1>6, <1>12
    <2> QED BY <1>1, <1>4, <1>12, <2>2, <2>3, TasksReplaced
  <1>14. U \cup W = W \cup U
    OBVIOUS
  <1> QED BY <1>4, <1>6, <1>13, <1>14 DEF ShutInv

LEMMA VisitWhileStmtKeepsShut ==
  ASSUME IInv, ShutInv, VisitWhileStmt
  PROVE  ShutInv'
  <1> DEFINE names == <<"while.cond", "while.body", "while.end">>
             bbs == <<NextBlock(1), NextBlock(2), NextBlock(3)>>
             l == Len(module[currentFunction].blocks)
             n == CreateBlocks(module, currentFunction, names)
             y == BlockTask("loop", top.node, bbs)
             new == <<Visit(kid(1)), y>>
             W == Waiting(tasks)
             U == (l + 1)..(l + Len(names))
             b == l + 1
             x == Br(b)
             code == <<x>>
  <1>1. /\ tasks # << >> /\ top.blocks = << >>
        /\ insertBlock # NoBlock /\ insertBlock[1] = currentFunction
    <2>1. Visiting({"while"}) /\ Doing("visit") /\ "visit" \notin BlockDos
      BY DEF VisitWhileStmt, Visiting, BlockDos
    <2>2. node.kind \in {"while"}
      BY <2>1, TopVisit
    <2>3. node.kind \in StmtKinds
      BY <2>2 DEF StmtKinds
    <2> QED BY <2>1, <2>3, TopVisit, QuietTop
  <1>2. /\ nextId \in Nat \ {0} /\ ModuleOk(module, nextId) /\ PlaceOk(module, insertBlock)
    BY <1>1, TopShape
  <1>3. names \in Seq(STRING) /\ Len(names) = 3
    BY ShortLists, StringsGiven
  <1>4. /\ module' = Insert(n, insertBlock, <<Br(bbs[1])>>)
        /\ insertBlock' = BlockIn(bbs[1]) /\ currentFunction' = currentFunction
        /\ tasks' = new \o Tail(tasks)
    <2>1. Continue(new) /\ insertBlock' = BlockIn(bbs[1])
      BY Zenon DEF VisitWhileStmt
    <2>2. n = CreateBlocks(module, currentFunction, <<"while.cond", "while.body", "while.end">>)
      OBVIOUS
    <2>3. bbs[1] = NextBlock(1)
      OBVIOUS
    <2> HIDE DEF new, n, bbs
    <2>4. module' = Insert(n, insertBlock, <<Br(bbs[1])>>)
      <3>1. module' = Insert(n, insertBlock, <<Br(NextBlock(1))>>)
        BY <2>2, LoopEntered
      <3> QED BY <2>3, <3>1
    <2> QED BY <2>1, <2>4 DEF VisitWhileStmt, Continue, scope
  <1>5. Shut(module, currentFunction, insertBlock, W)
    BY DEF ShutInv
  <1> HIDE DEF names, W
  <1>6. /\ Shut(n, currentFunction, insertBlock, W \cup U) /\ W \cap U = {}
    BY <1>1, <1>2, <1>3, <1>5, MadeShut DEF MadeIn
  <1>7. ModuleOk(n, nextId) /\ PlaceOk(n, insertBlock) /\ l \in Nat
    BY <1>1, <1>3, BlocksMade DEF Inserts
  <1>8. bbs = <<l + 1, l + 2, l + 3>>
    BY DEF NextBlock
  <1>9. y.do = "loop" /\ y.blocks = bbs /\ FirstWaiting(y.do) = 2
    BY DEF BlockTask, FirstWaiting
  <1> HIDE DEF l, bbs, y, n
  <1>10. Len(bbs) = 3 /\ bbs[1] = l + 1 /\ bbs[2] = l + 2 /\ bbs[3] = l + 3
    BY <1>8
  <1>11. U = {l + 1, l + 2, l + 3}
    BY <1>3, <1>7
  <1>12. Awaits(y) = {l + 2, l + 3} /\ Distinct(y)
    <2>1. FirstWaiting(y.do)..Len(y.blocks) = {2, 3}
      BY <1>9, <1>10
    <2>2. l + 2 # l + 3
      BY <1>7
    <2> QED BY <1>9, <1>10, <2>1, <2>2 DEF Awaits, Distinct
  <1> HIDE DEF U
  <1>13. /\ b \in W \cup U /\ (W \cup U) \ {b} = W \cup {l + 2, l + 3}
         /\ W \cap {l + 2, l + 3} = {}
    <2>1. b \in U /\ U \ {b} = {l + 2, l + 3} /\ {l + 2, l + 3} \subseteq U
      BY <1>7, <1>11
    <2> HIDE DEF b
    <2> QED BY <1>6, <2>1
  <1>14. Apart(new) /\ Waiting(new) = {l + 2, l + 3} /\ \E S : new \in Seq(S)
    <2>1. Visit(kid(1)).blocks = << >> /\ Visit(kid(1)).do # "endElse"
      BY DEF Visit, Task
    <2>2. y.do # "endElse"
      BY <1>9
    <2> QED BY <1>12, <2>1, <2>2, PairWaits
  <1>15. module' = Insert(n, insertBlock, code) /\ insertBlock' = <<currentFunction, b>>
    BY <1>4, <1>10 DEF BlockIn
  <1>16. x.op \in Terminators
    BY BranchesClose
  <1> HIDE DEF new, b, x
  <1>17. code = <<x>>
    OBVIOUS
  <1> HIDE DEF code
  <1>18. Shut(module', currentFunction, <<currentFunction, b>>, (W \cup U) \ {b})
    BY <1>6, <1>7, <1>13, <1>15, <1>16, <1>17, ShutJump
  <1>19. Apart(tasks') /\ Waiting(tasks') = {l + 2, l + 3} \cup W
    <2>1. Awaits(top) = {}
      BY <1>1, NothingAwaited
    <2>2. W = Waiting(tasks) \ Awaits(top)
      BY <2>1 DEF W
    <2>3. Waiting(new) \cap W = {}
      BY <1>13, <1>14
    <2> QED BY <1>1, <1>4, <1>14, <2>2, <2>3, TasksReplaced
  <1>20. Waiting(tasks') = (W \cup U) \ {b}
    BY <1>13, <1>19
  <1> QED BY <1>4, <1>15, <1>18, <1>19, <1>20 DEF ShutInv

(* A function begins when no block is waited for.                          *)
LEMMA VisitFunctionDeclKeepsShut ==
  ASSUME IInv, ShutInv, VisitFunctionDecl
  PROVE  ShutInv'
  <1> DEFINE f == Len(module) + 1
             this == IF node.kind = "method" THEN <<Alloca(nextId)>> ELSE << >>
             entry == Block("entry", this)
             blocks == IF node.kids = << >> THEN << >> ELSE <<entry>>
             fun == Func(node.name, blocks)
             new == VisitAll(node.kids)
  <1>1. /\ tasks # << >> /\ top.do = "visit" /\ node.kind \in {"function", "method"}
        /\ KindOf(ast, top) = node.kind /\ node.kids \in Seq(DOMAIN ast)
    BY TopVisit DEF VisitFunctionDecl
  <1>2. /\ ModuleOk(module, nextId) /\ PlaceOk(module, insertBlock) /\ top = tasks[1]
    BY <1>1, TopShape
  <1>3. /\ tasks' = new \o Tail(tasks) /\ currentFunction' = f /\ module' = Append(module, fun)
    BY DEF VisitFunctionDecl, Continue
  <1>4. IF blocks = << >> THEN insertBlock' = insertBlock ELSE insertBlock' = <<f, 1>>
    BY DEF VisitFunctionDecl
  <1>5. Idle(tasks)
    <2>1. Line(ast, tasks)
      BY DEF IInv, State
    <2>2. Len(tasks) \in Nat
      BY <2>1, LenProperties DEF Line
    <2>3. Opens(ast, tasks[1])
      BY <1>1, <1>2 DEF Opens, OpenKinds
    <2>4. ASSUME NEW p \in 1..Len(tasks)
          PROVE  tasks[p].do = "visit"
      <3>1. CASE p = 1
        BY <1>1, <1>2, <3>1
      <3>2. CASE p # 1
        <4>1. 1 \in 1..Len(tasks) /\ 1 < p
          BY <2>2, <3>2
        <4>2. Declares(ast, tasks[p])
          BY <2>1, <2>3, <4>1 DEF Line
        <4> QED BY <4>2 DEF Declares
      <3> QED BY <3>1, <3>2
    <2>5. \A p \in 1..Len(tasks) : tasks[p].blocks = << >>
      BY <2>1, <2>4 DEF Line, TaskOk
    <2> QED BY <2>4, <2>5 DEF Idle
  <1>6. Waiting(tasks) = {}
    BY <1>5, IdleWaits DEF IInv, State, Line
  <1>7. Idle(new) /\ \E S : new \in Seq(S)
    BY <1>1, IdleVisits
  <1>8. Apart(new) /\ Waiting(new) = {}
    BY <1>7, IdleWaits
  <1>9. Apart(tasks') /\ Waiting(tasks') = {}
    <2> DEFINE rest == Waiting(tasks) \ Awaits(top)
    <2>1. rest = {}
      BY <1>6
    <2> HIDE DEF new
    <2>2. Apart(tasks') /\ Waiting(tasks') = Waiting(new) \cup rest
      BY <1>1, <1>3, <1>7, <1>8, TasksReplaced
    <2> QED BY <1>8, <2>1, <2>2
  <1>10. Shut(module, currentFunction, insertBlock, {})
    BY <1>6 DEF ShutInv
  <1>11. fun.blocks = blocks
    BY DEF Func
  <1>12. \/ fun.blocks = << >> /\ insertBlock' = insertBlock
         \/ Len(fun.blocks) = 1 /\ insertBlock' = <<f, 1>>
    <2>1. blocks = << >> \/ Len(blocks) = 1
      <3> HIDE DEF entry
      <3> QED OBVIOUS
    <2>2. blocks # << >> => insertBlock' = <<f, 1>>
      BY <1>4
    <2>3. blocks = << >> => insertBlock' = insertBlock
      BY <1>4
    <2> HIDE DEF blocks, fun, f
    <2> QED BY <1>11, <2>1, <2>2, <2>3
  <1> HIDE DEF fun, blocks
  <1>13. f = Len(module) + 1
    OBVIOUS
  <1> HIDE DEF f
  <1>14. Shut(module', f, insertBlock', {})
    BY <1>2, <1>3, <1>10, <1>12, <1>13, ShutFunction
  <1> QED BY <1>3, <1>9, <1>14 DEF ShutInv

-----------------------------------------------------------------------------
LEMMA StartsShut ==
  ASSUME Init
  PROVE  ShutInv
  <1>1. /\ tasks = <<Visit(1)>> /\ module = << >> /\ currentFunction = 0
        /\ insertBlock = NoBlock
    BY DEF Init, Start
  <1>2. Visit(1).blocks = << >> /\ Visit(1).do = "visit"
    BY DEF Visit, Task
  <1> DEFINE x == Visit(1)
  <1> HIDE DEF x
  <1>3. tasks = <<x>> /\ x.blocks = << >> /\ x.do = "visit"
    BY <1>1, <1>2 DEF x
  <1>4. tasks \in Seq({x}) /\ Idle(tasks)
    BY <1>3 DEF Idle
  <1>5. Apart(tasks) /\ Waiting(tasks) = {}
    BY <1>4, IdleWaits
  <1>6. Shut(module, currentFunction, insertBlock, {})
    <2>1. Len(module) = 0 /\ 1..Len(module) = {}
      BY <1>1
    <2> QED BY <1>1, <2>1 DEF Shut
  <1> QED BY <1>5, <1>6 DEF ShutInv

LEMMA StepsKeepShut ==
  ASSUME IInv, ShutInv, [Next]_genVars
  PROVE  ShutInv'
  <1>1. CASE VisitChildren \/ VisitRecordDecl
    BY <1>1, ChildrenKeepShut
  <1>2. CASE VisitFunctionDecl
    BY <1>2, VisitFunctionDeclKeepsShut
  <1>3. CASE VisitVarDecl \/ VisitReturnStmt
    BY <1>3, ValuesKeepShut
  <1>4. CASE \/ StoreInitializer \/ CreateRet \/ VisitLiteralExpr \/ VisitVariableExpr
             \/ VisitFieldExpr \/ AddOffset \/ StoreAssigned \/ Combine
    BY <1>4, EndsKeepShut
  <1>5. CASE VisitIfStmt
    BY <1>5, VisitIfStmtKeepsShut
  <1>6. CASE BranchOnCondition \/ LoopOnCondition
    BY <1>6, ConditionsKeepShut
  <1>7. CASE EndThen
    BY <1>7, EndThenKeepsShut
  <1>8. CASE EndElse \/ EndBody
    BY <1>8, LastsKeepShut
  <1>9. CASE VisitWhileStmt
    BY <1>9, VisitWhileStmtKeepsShut
  <1>10. CASE VisitMemberExpr \/ VisitAssignment \/ VisitBinaryExpr \/ VisitRightOperand
    BY <1>10, OperandsKeepShut
  <1>11. CASE UNCHANGED genVars
    <2>1. /\ tasks' = tasks /\ module' = module
          /\ currentFunction' = currentFunction /\ insertBlock' = insertBlock
      BY <1>11 DEF genVars
    <2> QED BY <2>1, Zenon DEF ShutInv
  <1> QED BY <1>1, <1>2, <1>3, <1>4, <1>5, <1>6, <1>7, <1>8, <1>9, <1>10, <1>11 DEF Next

LEMMA ClosedFollows ==
  ASSUME NoLocalFunctions => IInv, NoLocalFunctions => ShutInv
  PROVE  BlocksClosed
  <1> DEFINE f == currentFunction
             at == insertBlock
             W == Waiting(tasks)
  <1> SUFFICES ASSUME IInv, ShutInv, NoLocalFunctions PROVE BlocksClosed
    BY DEF BlocksClosed
  <1>1. /\ ModuleOk(module, nextId) /\ PlaceOk(module, at)
        /\ f \in 0..Len(module) /\ tasks \in Seq(TaskSet(ast))
    BY DEF IInv, State, Line
  <1>2. /\ DOMAIN module = 1..Len(module) /\ Len(module) \in Nat
        /\ \A g \in 1..Len(module) : DOMAIN module[g].blocks = 1..Len(module[g].blocks)
    BY <1>1, ModuleShape DEF ModuleOk
  <1>3. Shut(module, f, at, W)
    BY DEF ShutInv
  <1>4. \A g \in 1..Len(module) : Unclosed(g) = OpenBlocks(module, g)
    BY <1>2 DEF Unclosed, OpenBlocks, Body, Last
  <1>5. at = NoBlock => at[1] = 0
    BY DEF NoBlock
  <1> HIDE DEF W
  <1>6. ASSUME f # 0, NEW b \in Unclosed(f), module[f].blocks[b].insts # << >>
        PROVE  BlockIn(b) = insertBlock
    <2>1. f \in 1..Len(module) /\ b \in OpenBlocks(module, f)
      BY <1>1, <1>2, <1>4, <1>6
    <2>2. at # NoBlock /\ at[1] = f
      <3>1. CASE at[1] # f
        <4>1. module[f].blocks = << >>
          BY <1>3, <2>1, <3>1 DEF Shut
        <4> QED BY <2>1, <4>1 DEF OpenBlocks
      <3>2. CASE at[1] = f
        BY <1>5, <1>6, <3>2
      <3> QED BY <3>1, <3>2
    <2>3. b = at[2] \/ b \in W
      BY <1>3, <2>1, <2>2 DEF Shut
    <2>4. b \notin W
      BY <1>3, <1>6 DEF Shut, Body
    <2>5. at = <<at[1], at[2]>>
      BY <1>1, <2>2, PlaceParts
    <2> QED BY <2>2, <2>3, <2>4, <2>5 DEF BlockIn
  <1>7. ASSUME Generated, NEW g \in DOMAIN module
        PROVE  Cardinality(Unclosed(g)) <= 1
    <2>1. W = {}
      <3>1. tasks = << >>
        BY <1>7 DEF Generated
      <3> QED BY <3>1, IdleNone DEF W
    <2>2. g \in 1..Len(module) /\ Unclosed(g) = OpenBlocks(module, g)
      BY <1>2, <1>4
    <2>3. \A b \in OpenBlocks(module, g), c \in OpenBlocks(module, g) : b = c
      <3>1. CASE g # at[1]
        BY <1>3, <2>2, <3>1 DEF Shut
      <3>2. CASE g = at[1]
        <4>1. at # NoBlock
          BY <1>5, <2>2, <3>2
        <4>2. OpenBlocks(module, g) \subseteq {at[2]}
          BY <1>3, <2>1, <3>2, <4>1 DEF Shut
        <4> QED BY <4>2
      <3> QED BY <3>1, <3>2
    <2> DEFINE O == OpenBlocks(module, g)
    <2> HIDE DEF O
    <2>4. Cardinality(O) <= 1
      <3>1. CASE O = {}
        BY <3>1, FS_EmptySet
      <3>2. CASE O # {}
        <4>1. PICK b \in O : TRUE
          BY <3>2
        <4>2. O = {b}
          BY <2>3, <4>1 DEF O
        <4>3. Cardinality({b}) = 1
          BY FS_Singleton
        <4> QED BY <4>2, <4>3
      <3> QED BY <3>1, <3>2
    <2> QED BY <2>2, <2>4 DEF O
  <1> QED BY <1>6, <1>7 DEF BlocksClosed

(* For every set of analyzed trees that declare no function in a body, as  *)
(* BlocksClosed says: while a function is generated the insertion block is *)
(* the only one that has code and no branch or return at its end, although *)
(* visits of conditions, branches and loops inside of them move it; and at *)
(* the end no function has two blocks left open.                           *)
THEOREM BlocksAreClosed == Spec => []BlocksClosed
  <1>1. Init => (NoLocalFunctions => ShutInv)
    BY StartsShut
  <1>2. (NoLocalFunctions => IInv) /\ (NoLocalFunctions => ShutInv) /\ [Next]_genVars
          => (NoLocalFunctions => ShutInv)'
    BY NoneBefore, StepsKeepShut
  <1>3. (NoLocalFunctions => IInv) /\ (NoLocalFunctions => ShutInv) => BlocksClosed
    BY ClosedFollows
  <1> QED BY <1>1, <1>2, <1>3, InvariantHolds, PTL DEF Spec

-----------------------------------------------------------------------------
(* Values are made once.                                                   *)
ValueOps == {"alloca", "load", "add", "sub"}

(* Instruction j of block b of function f has the identifier v.            *)
Sits(m, v, f, b, j) ==
  /\ f \in 1..Len(m) /\ b \in 1..Len(m[f].blocks) /\ j \in 1..Len(Body(m, f, b))
  /\ Body(m, f, b)[j].id = v

(* No two instructions of the module have the same identifier, and those   *)
(* that give a value have one.                                             *)
Named(m) ==
  \A f \in 1..Len(m) : \A b \in 1..Len(m[f].blocks) : \A j \in 1..Len(Body(m, f, b)) :
    Body(m, f, b)[j].op \in ValueOps => Body(m, f, b)[j].id # NoId
Once(m) ==
  \A v, f, b, j, g, c, l :
    v # NoId /\ Sits(m, v, f, b, j) /\ Sits(m, v, g, c, l) => f = g /\ b = c /\ j = l
Numbered(m) == Named(m) /\ Once(m)

(* New code: identifiers from k on.                                        *)
Fresh(code, k) ==
  \A p \in 1..Len(code) :
    /\ code[p].op \in ValueOps => code[p].id # NoId
    /\ code[p].id = NoId \/ code[p].id \notin Below(k)
    /\ \A q \in 1..Len(code) : code[p].id # NoId /\ code[q].id = code[p].id => p = q

LEMMA SitsBelow ==
  ASSUME NEW k, NEW m, ModuleOk(m, k), NEW v, NEW f, NEW b, NEW j, Sits(m, v, f, b, j)
  PROVE  v \in Below(k)
  <1>1. f \in 1..Len(m) /\ b \in 1..Len(m[f].blocks) /\ j \in 1..Len(Body(m, f, b))
        /\ Body(m, f, b)[j].id = v
    BY DEF Sits
  <1>2. Body(m, f, b)[j] \in Code(Below(k))
    BY <1>1, ModuleShape DEF ModuleOk
  <1> QED BY <1>1, <1>2, CodeShape DEF Below

LEMMA NumberedInsert ==
  ASSUME NEW k \in Nat \ {0}, NEW m, ModuleOk(m, k), Numbered(m), NEW at, PlaceOk(m, at),
         NEW S, NEW code \in Seq(S), Fresh(code, k), NEW n, n = Insert(m, at, code)
  PROVE  Numbered(n)
  <1>1. /\ Len(n) = Len(m)
        /\ \A g \in 1..Len(m) :
             /\ g # at[1] => n[g] = m[g]
             /\ Len(n[g].blocks) = Len(m[g].blocks)
             /\ \A c \in 1..Len(m[g].blocks) :
                  Body(n, g, c) = IF at # NoBlock /\ g = at[1] /\ c = at[2]
                                  THEN Body(m, g, c) \o code ELSE Body(m, g, c)
    BY InsertedBodies, SMTT(20)
  <1> DEFINE Old(f, b, j) == j \in 1..Len(Body(m, f, b)) /\ Body(n, f, b)[j] = Body(m, f, b)[j]
             New(f, b, j) == /\ f = at[1] /\ b = at[2]
                             /\ j - Len(Body(m, f, b)) \in 1..Len(code)
                             /\ Body(n, f, b)[j] = code[j - Len(Body(m, f, b))]
  <1>2. ASSUME NEW f \in 1..Len(m), NEW b \in 1..Len(m[f].blocks), NEW j \in 1..Len(Body(n, f, b))
        PROVE  Old(f, b, j) \/ New(f, b, j)
    <2>1. CASE at # NoBlock /\ f = at[1] /\ b = at[2]
      <3> DEFINE s == Body(m, f, b)
                 T == Code(Below(k)) \cup S
      <3>1. Body(n, f, b) = s \o code
        BY <1>1, <2>1
      <3>2. s \in Seq(Code(Below(k))) /\ Len(s) \in Nat /\ Len(code) \in Nat
        BY ModuleShape, LenProperties DEF ModuleOk
      <3>3. s \in Seq(T) /\ code \in Seq(T)
        <4> HIDE DEF s
        <4> QED BY <3>2
      <3> HIDE DEF s, T
      <3>4. /\ Len(s \o code) = Len(s) + Len(code)
            /\ \A i \in 1..Len(s) + Len(code) :
                 (s \o code)[i] = IF i <= Len(s) THEN s[i] ELSE code[i - Len(s)]
        BY <3>3, ConcatProperties
      <3>5. j \in 1..Len(s) + Len(code)
        BY <3>1, <3>4
      <3>6. j \in 1..Len(s) \/ j - Len(s) \in 1..Len(code)
        BY <3>2, <3>5
      <3>7. /\ j \in 1..Len(s) => (s \o code)[j] = s[j]
            /\ j - Len(s) \in 1..Len(code) => (s \o code)[j] = code[j - Len(s)]
        BY <3>2, <3>4, <3>5
      <3> QED BY <2>1, <3>1, <3>6, <3>7 DEF s
    <2>2. CASE ~(at # NoBlock /\ f = at[1] /\ b = at[2])
      BY <1>1, <2>2
    <2> QED BY <2>1, <2>2
  <1>3. ASSUME NEW v, NEW f, NEW b, NEW j, Sits(n, v, f, b, j)
        PROVE  \/ Sits(m, v, f, b, j)
               \/ New(f, b, j) /\ Body(n, f, b)[j].id = v /\ (v = NoId \/ v \notin Below(k))
                  /\ j \in Nat
    <2>1. /\ f \in 1..Len(m) /\ b \in 1..Len(m[f].blocks) /\ j \in 1..Len(Body(n, f, b))
          /\ Body(n, f, b)[j].id = v
      BY <1>1, <1>3 DEF Sits
    <2>2. CASE Old(f, b, j)
      BY <2>1, <2>2 DEF Sits
    <2>3. CASE New(f, b, j)
      BY <2>1, <2>3 DEF Fresh
    <2> HIDE DEF Old, New
    <2> QED BY <1>2, <2>1, <2>2, <2>3
  <1>4. Named(n)
    <2>1. ASSUME NEW f \in 1..Len(n), NEW b \in 1..Len(n[f].blocks), NEW j \in 1..Len(Body(n, f, b)),
                 Body(n, f, b)[j].op \in ValueOps
          PROVE  Body(n, f, b)[j].id # NoId
      <3>1. f \in 1..Len(m) /\ b \in 1..Len(m[f].blocks)
        BY <1>1
      <3>2. CASE Old(f, b, j)
        BY <2>1, <3>1, <3>2 DEF Numbered, Named
      <3>3. CASE New(f, b, j)
        BY <2>1, <3>3 DEF Fresh
      <3> HIDE DEF Old, New
      <3> QED BY <1>2, <3>1, <3>2, <3>3
    <2> QED BY <2>1, Zenon DEF Named
  <1>5. Once(n)
    <2> SUFFICES ASSUME NEW v, NEW f, NEW b, NEW j, NEW g, NEW c, NEW l,
                        v # NoId, Sits(n, v, f, b, j), Sits(n, v, g, c, l)
                 PROVE  f = g /\ b = c /\ j = l
      BY Zenon DEF Once
    <2>1. CASE Sits(m, v, f, b, j) /\ Sits(m, v, g, c, l)
      BY <2>1, Zenon DEF Numbered, Once
    <2>2. CASE /\ New(f, b, j) /\ Body(n, f, b)[j].id = v /\ j \in Nat
               /\ New(g, c, l) /\ Body(n, g, c)[l].id = v /\ l \in Nat
      <3>1. f = g /\ b = c
        BY <2>2
      <3> DEFINE L == Len(Body(m, f, b))
      <3>2. /\ j - L \in 1..Len(code) /\ code[j - L].id = v
            /\ l - L \in 1..Len(code) /\ code[l - L].id = v
        BY <2>2, <3>1
      <3>3. j - L = l - L
        <4> HIDE DEF L
        <4> QED BY <3>2 DEF Fresh
      <3>4. L \in Nat
        <4>1. f \in 1..Len(m) /\ b \in 1..Len(m[f].blocks)
          BY <1>1 DEF Sits
        <4> QED BY <4>1, ModuleShape DEF ModuleOk
      <3> HIDE DEF L
      <3>5. j = l
        BY <2>2, <3>3, <3>4
      <3> QED BY <3>1, <3>5
    <2> HIDE DEF New
    <2>3. CASE Sits(m, v, f, b, j)
      <3>1. v \in Below(k)
        BY <2>3, SitsBelow
      <3> QED BY <1>3, <2>1, <2>3, <3>1
    <2>4. CASE Sits(m, v, g, c, l)
      <3>1. v \in Below(k)
        BY <2>4, SitsBelow
      <3> QED BY <1>3, <2>1, <2>4, <3>1
    <2> QED BY <1>3, <2>2, <2>3, <2>4
  <1> QED BY <1>4, <1>5 DEF Numbered

(* What is added without code.                                             *)
LEMMA NumberedCreate ==
  ASSUME NEW k \in Nat \ {0}, NEW m, ModuleOk(m, k), Numbered(m), NEW f \in 1..Len(m),
         NEW names \in Seq(STRING), NEW n, n = CreateBlocks(m, f, names)
  PROVE  Numbered(n)
  <1>1. /\ Len(n) = Len(m)
        /\ \A g \in 1..Len(m) : g # f => n[g] = m[g]
        /\ \A b \in 1..Len(m[f].blocks) : Body(n, f, b) = Body(m, f, b)
        /\ \A b \in (Len(m[f].blocks) + 1)..Len(n[f].blocks) : Body(n, f, b) = << >>
        /\ Len(n[f].blocks) = Len(m[f].blocks) + Len(names)
    BY BlocksCreated
  <1>2. Len(m[f].blocks) \in Nat /\ Len(names) \in Nat
    BY ModuleShape, LenProperties DEF ModuleOk
  <1>3. ASSUME NEW g \in 1..Len(n), NEW b \in 1..Len(n[g].blocks), NEW j \in 1..Len(Body(n, g, b))
        PROVE  /\ g \in 1..Len(m) /\ b \in 1..Len(m[g].blocks) /\ j \in 1..Len(Body(m, g, b))
               /\ Body(n, g, b) = Body(m, g, b)
    <2>1. CASE g = f
      <3>1. b \in 1..Len(m[f].blocks) \/ b \in (Len(m[f].blocks) + 1)..Len(n[f].blocks)
        BY <1>1, <1>2, <2>1
      <3>2. b \notin (Len(m[f].blocks) + 1)..Len(n[f].blocks)
        BY <1>1, <2>1
      <3> QED BY <1>1, <2>1, <3>1, <3>2
    <2>2. CASE g # f
      BY <1>1, <2>2 DEF Body
    <2> QED BY <2>1, <2>2
  <1>4. Named(n)
    <2>1. ASSUME NEW g \in 1..Len(n), NEW b \in 1..Len(n[g].blocks), NEW j \in 1..Len(Body(n, g, b)),
                 Body(n, g, b)[j].op \in ValueOps
          PROVE  Body(n, g, b)[j].id # NoId
      <3>1. g \in 1..Len(m) /\ b \in 1..Len(m[g].blocks) /\ j \in 1..Len(Body(m, g, b))
            /\ Body(n, g, b) = Body(m, g, b)
        BY <1>3, Zenon
      <3>2. Body(m, g, b)[j].op \in ValueOps
        BY <2>1, <3>1
      <3> QED BY <3>1, <3>2 DEF Numbered, Named
    <2> QED BY <2>1, Zenon DEF Named
  <1>5. \A v, g, b, j : Sits(n, v, g, b, j) => Sits(m, v, g, b, j)
    BY <1>3 DEF Sits
  <1>6. Once(n)
    <2> SUFFICES ASSUME NEW v, NEW g, NEW b, NEW j, NEW h, NEW c, NEW l,
                        v # NoId, Sits(n, v, g, b, j), Sits(n, v, h, c, l)
                 PROVE  g = h /\ b = c /\ j = l
      BY Zenon DEF Once
    <2>1. Sits(m, v, g, b, j) /\ Sits(m, v, h, c, l)
      BY <1>5, Zenon
    <2> QED BY <2>1, Zenon DEF Numbered, Once
  <1> QED BY <1>4, <1>6 DEF Numbered

LEMMA NumberedFunction ==
  ASSUME NEW k \in Nat \ {0}, NEW m, ModuleOk(m, k), Numbered(m), NEW fun,
         \/ fun.blocks = << >>
         \/ /\ Len(fun.blocks) = 1
            /\ \/ fun.blocks[1].insts = << >>
               \/ fun.blocks[1].insts = <<Alloca(k)>>,
         NEW n, n = Append(m, fun)
  PROVE  Numbered(n)
  <1>1. Len(m) \in Nat /\ m \in Seq(Functions(Below(k)))
    BY ModuleShape DEF ModuleOk
  <1> DEFINE F == Len(m) + 1
  <1>2. Len(n) = F /\ n[F] = fun /\ \A g \in 1..Len(m) : n[g] = m[g]
    BY <1>1
  <1>3. \A g \in 1..Len(n) : g = F \/ g \in 1..Len(m)
    BY <1>1, <1>2
  <1>4. ASSUME NEW b \in 1..Len(n[F].blocks), NEW j \in 1..Len(Body(n, F, b))
        PROVE  /\ b = 1 /\ j = 1 /\ Body(n, F, b)[j].id = k
               /\ k # NoId /\ k \notin Below(k)
    <2>1. n[F] = fun /\ fun.blocks # << >> /\ Len(fun.blocks) = 1
      BY <1>2
    <2>2. b = 1
      BY <2>1
    <2>3. Body(n, F, b) = fun.blocks[1].insts
      BY <2>1, <2>2 DEF Body
    <2>4. fun.blocks[1].insts = <<Alloca(k)>>
      BY <2>1, <2>3
    <2>5. Body(n, F, b) = <<Alloca(k)>>
      BY <2>3, <2>4
    <2>6. j = 1 /\ Body(n, F, b)[j] = Alloca(k)
      <3> DEFINE x == Alloca(k)
      <3>1. Body(n, F, b) = <<x>>
        BY <2>5
      <3> HIDE DEF x
      <3>2. Len(<<x>>) = 1 /\ <<x>>[1] = x
        OBVIOUS
      <3>3. j \in 1..1
        BY <3>1, <3>2, Zenon
      <3>4. j = 1
        BY ONLY <3>3
      <3> QED BY <3>1, <3>2, <3>4 DEF x
    <2>7. Alloca(k).id = k
      BY DEF Alloca, Instr
    <2> QED BY <2>2, <2>6, <2>7 DEF NoId, Below
  <1> HIDE DEF F
  <1>5. ASSUME NEW v, NEW f, NEW b, NEW j, Sits(n, v, f, b, j)
        PROVE  \/ Sits(m, v, f, b, j)
               \/ f = F /\ b = 1 /\ j = 1 /\ v = k /\ k \notin Below(k)
    <2>1. f \in 1..Len(n) /\ b \in 1..Len(n[f].blocks) /\ j \in 1..Len(Body(n, f, b))
          /\ Body(n, f, b)[j].id = v
      BY <1>5 DEF Sits
    <2>2. CASE f = F
      BY <1>4, <2>1, <2>2
    <2>3. CASE f \in 1..Len(m)
      BY <1>2, <2>1, <2>3 DEF Sits, Body
    <2> QED BY <1>3, <2>1, <2>2, <2>3
  <1>6. Once(n)
    <2> SUFFICES ASSUME NEW v, NEW f, NEW b, NEW j, NEW g, NEW c, NEW l,
                        v # NoId, Sits(n, v, f, b, j), Sits(n, v, g, c, l)
                 PROVE  f = g /\ b = c /\ j = l
      BY Zenon DEF Once
    <2>1. CASE Sits(m, v, f, b, j) /\ Sits(m, v, g, c, l)
      BY <2>1, Zenon DEF Numbered, Once
    <2>2. CASE Sits(m, v, f, b, j)
      <3>1. v \in Below(k)
        BY <2>2, SitsBelow
      <3> QED BY <1>5, <2>1, <2>2, <3>1
    <2>3. CASE Sits(m, v, g, c, l)
      <3>1. v \in Below(k)
        BY <2>3, SitsBelow
      <3> QED BY <1>5, <2>1, <2>3, <3>1
    <2> QED BY <1>5, <2>2, <2>3
  <1>7. Named(n)
    <2>1. ASSUME NEW f \in 1..Len(n), NEW b \in 1..Len(n[f].blocks), NEW j \in 1..Len(Body(n, f, b)),
                 Body(n, f, b)[j].op \in ValueOps
          PROVE  Body(n, f, b)[j].id # NoId
      <3>1. CASE f \in 1..Len(m)
        <4>1. n[f] = m[f]
          BY <1>2, <3>1
        <4>2. Body(n, f, b) = Body(m, f, b) /\ b \in 1..Len(m[f].blocks)
          BY <4>1 DEF Body
        <4>3. j \in 1..Len(Body(m, f, b)) /\ Body(m, f, b)[j].op \in ValueOps
          BY <2>1, <4>2
        <4>4. Body(m, f, b)[j].id # NoId
          BY <3>1, <4>2, <4>3 DEF Numbered, Named
        <4> QED BY <4>2, <4>4
      <3>2. CASE f = F
        BY <1>4, <3>2
      <3> QED BY <1>3, <3>1, <3>2
    <2> QED BY <2>1, Zenon DEF Named
  <1> QED BY <1>6, <1>7 DEF Numbered

(* The code that the actions insert.                                       *)
LEMMA FreshOne ==
  ASSUME NEW k \in Nat \ {0}, NEW x, x.op \in ValueOps => x.id = k, x.id \in {NoId, k}
  PROVE  Fresh(<<x>>, k) /\ <<x>> \in Seq({x})
  <1>1. k # NoId /\ k \notin Below(k)
    BY DEF NoId, Below
  <1>2. Len(<<x>>) = 1 /\ <<x>>[1] = x /\ <<x>> \in Seq({x})
    OBVIOUS
  <1>3. \A p \in 1..Len(<<x>>) : p = 1 /\ <<x>>[p] = x
    BY <1>2
  <1> QED BY <1>1, <1>2, <1>3 DEF Fresh

LEMMA FreshCode ==
  ASSUME NEW k \in Nat \ {0}, NEW x, NEW y, NEW b, NEW c
  PROVE  /\ Fresh(<< >>, k)
         /\ Fresh(<<Alloca(k)>>, k) /\ Fresh(<<Load(k, x)>>, k) /\ Fresh(<<Store(x, y)>>, k)
         /\ Fresh(<<AddInst(k, x, y)>>, k) /\ Fresh(<<SubInst(k, x, y)>>, k)
         /\ Fresh(<<Ret(x)>>, k) /\ Fresh(<<RetVoid>>, k)
         /\ Fresh(<<Br(b)>>, k) /\ Fresh(<<CondBr(x, b, c)>>, k)
  <1>1. Fresh(<< >>, k)
    BY DEF Fresh
  <1>2. /\ Alloca(k).id = k /\ Load(k, x).id = k
        /\ AddInst(k, x, y).id = k /\ SubInst(k, x, y).id = k
    BY DEF Alloca, Load, AddInst, SubInst, Instr
  <1>3. /\ Store(x, y).id = NoId /\ Store(x, y).op \notin ValueOps
        /\ Ret(x).id = NoId /\ Ret(x).op \notin ValueOps
        /\ RetVoid.id = NoId /\ RetVoid.op \notin ValueOps
        /\ Br(b).id = NoId /\ Br(b).op \notin ValueOps
        /\ CondBr(x, b, c).id = NoId /\ CondBr(x, b, c).op \notin ValueOps
    BY DEF Store, Ret, RetVoid, Br, CondBr, Instr, ValueOps
  <1>4. Fresh(<<Alloca(k)>>, k)
    BY <1>2, FreshOne
  <1>5. Fresh(<<Load(k, x)>>, k)
    BY <1>2, FreshOne
  <1>6. Fresh(<<Store(x, y)>>, k)
    BY <1>3, FreshOne
  <1>7. Fresh(<<AddInst(k, x, y)>>, k) /\ Fresh(<<SubInst(k, x, y)>>, k)
    BY <1>2, FreshOne
  <1>8. Fresh(<<Ret(x)>>, k) /\ Fresh(<<RetVoid>>, k)
    BY <1>3, FreshOne
  <1>9. Fresh(<<Br(b)>>, k) /\ Fresh(<<CondBr(x, b, c)>>, k)
    BY <1>3, FreshOne
  <1> QED BY <1>1, <1>4, <1>5, <1>6, <1>7, <1>8, <1>9

LEMMA FreshField ==
  ASSUME NEW k \in Nat \ {0}, NEW x, NEW y, NEW z, NEW u, NEW code,
         code = <<Load(k, x), AddInst(k + 1, y, z), Load(k + 2, u)>>
  PROVE  Fresh(code, k) /\ \E S : code \in Seq(S)
  <1> DEFINE a == Load(k, x)
             b == AddInst(k + 1, y, z)
             c == Load(k + 2, u)
  <1>1. a.id = k /\ b.id = k + 1 /\ c.id = k + 2
    BY DEF Load, AddInst, Instr
  <1> HIDE DEF a, b, c
  <1>2. code = <<a, b, c>>
    BY DEF a, b, c
  <1>3. Len(code) = 3 /\ code[1] = a /\ code[2] = b /\ code[3] = c /\ code \in Seq({a, b, c})
    BY <1>2
  <1>4. \A p \in 1..Len(code) : code[p].id = k + p - 1
    BY <1>1, <1>3
  <1>5. ASSUME NEW p \in 1..Len(code)
        PROVE  /\ code[p].id # NoId /\ code[p].id \notin Below(k)
               /\ \A q \in 1..Len(code) : code[q].id = code[p].id => p = q
    <2>1. p \in 1..3 /\ \A q \in 1..Len(code) : q \in 1..3
      BY <1>3
    <2>2. k + p - 1 # NoId /\ k + p - 1 \notin Below(k)
      BY <2>1 DEF NoId, Below
    <2>3. \A q \in 1..Len(code) : k + q - 1 = k + p - 1 => p = q
      BY <2>1
    <2> QED BY <1>4, <2>2, <2>3
  <1>6. Fresh(code, k)
    BY <1>5 DEF Fresh
  <1> QED BY <1>3, <1>6

(* Most actions insert code or none.                                       *)
LEMMA StepInserts ==
  ASSUME IInv, tasks # << >>, Numbered(module),
         \/ module' = module
         \/ \E code, S : /\ code \in Seq(S) /\ Fresh(code, nextId)
                         /\ module' = Insert(module, insertBlock, code)
  PROVE  Numbered(module')
  <1>1. nextId \in Nat \ {0} /\ ModuleOk(module, nextId) /\ PlaceOk(module, insertBlock)
    BY TopShape
  <1>2. CASE module' = module
    BY <1>2
  <1>3. ASSUME NEW code, NEW S, code \in Seq(S), Fresh(code, nextId),
               module' = Insert(module, insertBlock, code)
        PROVE  Numbered(module')
    BY <1>1, <1>3, NumberedInsert
  <1> QED BY <1>2, <1>3

LEMMA OneListed ==
  ASSUME NEW x
  PROVE  \E S : <<x>> \in Seq(S)
  <1>1. <<x>> \in Seq({x})
    OBVIOUS
  <1> QED BY <1>1

LEMMA InsertsOne ==
  ASSUME IInv, tasks # << >>, Numbered(module), NEW x, Fresh(<<x>>, nextId),
         module' = module \/ module' = Insert(module, insertBlock, <<x>>)
  PROVE  Numbered(module')
  <1> DEFINE code == <<x>>
  <1>1. PICK S : code \in Seq(S)
    BY OneListed
  <1>2. Fresh(code, nextId) /\ (module' = module \/ module' = Insert(module, insertBlock, code))
    OBVIOUS
  <1> HIDE DEF code
  <1> QED BY <1>1, <1>2, StepInserts

LEMMA ValuesStayOnce ==
  ASSUME IInv, Numbered(module), tasks # << >>,
         \/ VisitVarDecl \/ StoreInitializer \/ VisitReturnStmt \/ CreateRet
         \/ BranchOnCondition \/ EndThen \/ EndElse \/ LoopOnCondition \/ EndBody
         \/ VisitVariableExpr \/ AddOffset \/ StoreAssigned \/ Combine
  PROVE  Numbered(module')
  <1>1. nextId \in Nat \ {0}
    BY TopShape
  <1> DEFINE k == nextId
             Adds(x) == module' = module \/ module' = Insert(module, insertBlock, <<x>>)
  <1>2. ASSUME NEW x, Fresh(<<x>>, k), Adds(x)
        PROVE  Numbered(module')
    BY <1>2, InsertsOne
  <1>3. CASE VisitVarDecl
    <2>1. Adds(Alloca(k)) /\ Fresh(<<Alloca(k)>>, k)
      BY <1>1, <1>3, FreshCode, Zenon DEF VisitVarDecl
    <2> HIDE DEF Adds
    <2> QED BY <1>2, <2>1
  <1>4. CASE StoreInitializer
    <2> DEFINE x == Store(lastValue, top.val)
    <2>1. Adds(x) /\ Fresh(<<x>>, k)
      BY <1>1, <1>4, FreshCode, Zenon DEF StoreInitializer
    <2> HIDE DEF Adds, x
    <2> QED BY <1>2, <2>1
  <1>5. CASE VisitReturnStmt
    <2>1. Adds(RetVoid) /\ Fresh(<<RetVoid>>, k)
      BY <1>1, <1>5, FreshCode, Zenon DEF VisitReturnStmt
    <2> HIDE DEF Adds
    <2> QED BY <1>2, <2>1
  <1>6. CASE CreateRet
    <2>1. CASE lastValue = Null
      <3>1. Adds(RetVoid) /\ Fresh(<<RetVoid>>, k)
        BY <1>1, <1>6, <2>1, FreshCode, Zenon DEF CreateRet
      <3> HIDE DEF Adds
      <3> QED BY <1>2, <3>1
    <2>2. CASE lastValue # Null
      <3> DEFINE x == Ret(lastValue)
      <3>1. Adds(x) /\ Fresh(<<x>>, k)
        BY <1>1, <1>6, <2>2, FreshCode, Zenon DEF CreateRet
      <3> HIDE DEF Adds, x
      <3> QED BY <1>2, <3>1
    <2> QED BY <2>1, <2>2
  <1>7. CASE BranchOnCondition
    <2> DEFINE x == CondBr(lastValue, top.blocks[1], top.blocks[2])
    <2>1. Adds(x) /\ Fresh(<<x>>, k)
      BY <1>1, <1>7, BranchMade, FreshCode, Zenon
    <2> HIDE DEF Adds, x
    <2> QED BY <1>2, <2>1
  <1>8. CASE EndThen \/ EndElse
    <2> DEFINE x == Br(Last(top.blocks))
    <2>1. Adds(x) /\ Fresh(<<x>>, k)
      BY <1>1, <1>8, ThenEnded, ElseEnded, FreshCode, Zenon
    <2> HIDE DEF Adds, x
    <2> QED BY <1>2, <2>1
  <1>9. CASE LoopOnCondition
    <2> DEFINE x == CondBr(lastValue, top.blocks[2], top.blocks[3])
    <2>1. Adds(x) /\ Fresh(<<x>>, k)
      BY <1>1, <1>9, LoopMade, FreshCode, Zenon
    <2> HIDE DEF Adds, x
    <2> QED BY <1>2, <2>1
  <1>10. CASE EndBody
    <2> DEFINE x == Br(top.blocks[1])
    <2>1. Adds(x) /\ Fresh(<<x>>, k)
      BY <1>1, <1>10, BodyEnded, FreshCode, Zenon
    <2> HIDE DEF Adds, x
    <2> QED BY <1>2, <2>1
  <1>11. CASE VisitVariableExpr
    <2> DEFINE x == Load(k, Variable(node.name))
    <2>1. Adds(x) /\ Fresh(<<x>>, k)
      BY <1>1, <1>11, FreshCode, Zenon DEF VisitVariableExpr
    <2> HIDE DEF Adds, x
    <2> QED BY <1>2, <2>1
  <1>12. CASE AddOffset
    <2> DEFINE x == AddInst(k, lastValue, Const(4))
    <2>1. Adds(x) /\ Fresh(<<x>>, k)
      BY <1>1, <1>12, FreshCode, Zenon DEF AddOffset
    <2> HIDE DEF Adds, x
    <2> QED BY <1>2, <2>1
  <1>13. CASE StoreAssigned
    <2> DEFINE x == Store(lastValue, top.val)
    <2>1. Adds(x) /\ Fresh(<<x>>, k)
      BY <1>1, <1>13, FreshCode, Zenon DEF StoreAssigned
    <2> HIDE DEF Adds, x
    <2> QED BY <1>2, <2>1
  <1>14. CASE Combine
    <2> DEFINE x == AddInst(k, top.val, lastValue)
               y == SubInst(k, top.val, lastValue)
               code == Operation(node.name, k, top.val, lastValue)
    <2>1. code = <<x>> \/ code = <<y>> \/ code = << >>
      BY DEF Operation
    <2>2. module' = module \/ module' = Insert(module, insertBlock, code)
      BY <1>14, Zenon DEF Combine
    <2>3. Fresh(<<x>>, k) /\ Fresh(<<y>>, k) /\ Fresh(<< >>, k)
      BY <1>1, FreshCode
    <2>4. CASE code = <<x>>
      <3>1. Adds(x)
        BY <2>2, <2>4, Zenon
      <3> HIDE DEF Adds, x
      <3> QED BY <1>2, <2>3, <3>1
    <2>5. CASE code = <<y>>
      <3>1. Adds(y)
        BY <2>2, <2>5, Zenon
      <3> HIDE DEF Adds, y
      <3> QED BY <1>2, <2>3, <3>1
    <2>6. CASE code = << >>
      <3>1. code \in Seq({}) /\ Fresh(code, nextId)
        BY <2>3, <2>6
      <3> HIDE DEF code
      <3> QED BY <2>2, <3>1, StepInserts
    <2> HIDE DEF code
    <2> QED BY <2>1, <2>4, <2>5, <2>6
  <1> QED BY <1>3, <1>4, <1>5, <1>6, <1>7, <1>8, <1>9, <1>10, <1>11, <1>12, <1>13, <1>14

LEMMA FieldStaysOnce ==
  ASSUME IInv, Numbered(module), tasks # << >>, VisitFieldExpr
  PROVE  Numbered(module')
  <1> DEFINE code == << Load(nextId, Variable("this")), AddInst(nextId + 1, Ref(nextId), Const(4)),
                        Load(nextId + 2, Ref(nextId + 1)) >>
  <1>1. nextId \in Nat \ {0}
    BY TopShape
  <1>2. module' = module \/ module' = Insert(module, insertBlock, code)
    BY Zenon DEF VisitFieldExpr
  <1>3. Fresh(code, nextId) /\ \E S : code \in Seq(S)
    BY <1>1, FreshField
  <1> HIDE DEF code
  <1> QED BY <1>2, <1>3, StepInserts

LEMMA BlocksStayOnce ==
  ASSUME IInv, Numbered(module), VisitIfStmt \/ VisitWhileStmt
  PROVE  Numbered(module')
  <1>1. Visiting({"if", "while"})
    BY DEF VisitIfStmt, VisitWhileStmt, Visiting
  <1>2. tasks # << >> /\ node.kind \in {"if", "while"}
    BY <1>1, TopVisit
  <1>3. node.kind \in StmtKinds
    BY <1>2 DEF StmtKinds
  <1>4. insertBlock # NoBlock /\ insertBlock[1] = currentFunction
    BY <1>1, <1>3, TopVisit
  <1>5. /\ nextId \in Nat \ {0} /\ ModuleOk(module, nextId) /\ PlaceOk(module, insertBlock)
        /\ currentFunction \in 1..Len(module)
    BY <1>2, <1>4, TopShape, PlaceParts
  <1>6. ASSUME NEW names \in Seq(STRING), NEW n, n = CreateBlocks(module, currentFunction, names)
        PROVE  Numbered(n) /\ ModuleOk(n, nextId) /\ PlaceOk(n, insertBlock)
    <2>1. Numbered(n)
      BY <1>5, <1>6, NumberedCreate
    <2>2. Inserts(n, nextId)
      BY <1>2, <1>4, <1>6, BlocksMade
    <2> QED BY <2>1, <2>2 DEF Inserts
  <1>7. CASE VisitIfStmt
    <2> DEFINE names == IF HasElse THEN <<"if.then", "if.else", "if.end">> ELSE <<"if.then", "if.end">>
    <2>1. names \in Seq(STRING)
      BY ShortLists, StringsGiven
    <2>2. module' = CreateBlocks(module, currentFunction, names)
      BY <1>7, Zenon DEF VisitIfStmt
    <2> HIDE DEF names
    <2> QED BY <1>6, <2>1, <2>2
  <1>8. CASE VisitWhileStmt
    <2> DEFINE names == <<"while.cond", "while.body", "while.end">>
               n == CreateBlocks(module, currentFunction, names)
               x == Br(NextBlock(1))
               code == <<x>>
    <2>1. names \in Seq(STRING)
      BY ShortLists, StringsGiven
    <2>3. module' = Insert(n, insertBlock, code)
      <3>1. n = CreateBlocks(module, currentFunction, <<"while.cond", "while.body", "while.end">>)
        OBVIOUS
      <3> HIDE DEF n
      <3> QED BY <1>8, <3>1, LoopEntered
    <2> HIDE DEF names
    <2>4. Numbered(n) /\ ModuleOk(n, nextId) /\ PlaceOk(n, insertBlock)
      BY <1>6, <2>1
    <2>5. Fresh(code, nextId)
      BY <1>5, FreshCode
    <2> HIDE DEF n, x
    <2>6. PICK S : code \in Seq(S)
      BY OneListed
    <2> HIDE DEF code
    <2> QED BY <1>5, <2>3, <2>4, <2>5, <2>6, NumberedInsert
  <1> QED BY <1>7, <1>8

LEMMA FunctionStaysOnce ==
  ASSUME IInv, Numbered(module), VisitFunctionDecl
  PROVE  Numbered(module')
  <1> DEFINE this == IF node.kind = "method" THEN <<Alloca(nextId)>> ELSE << >>
             entry == Block("entry", this)
             blocks == IF node.kids = << >> THEN << >> ELSE <<entry>>
             fun == Func(node.name, blocks)
  <1>1. tasks # << >>
    BY TopVisit DEF VisitFunctionDecl
  <1>2. nextId \in Nat \ {0} /\ ModuleOk(module, nextId)
    BY <1>1, TopShape
  <1>3. module' = Append(module, fun)
    BY DEF VisitFunctionDecl
  <1>4. fun.blocks = blocks
    BY DEF Func
  <1>5. entry.insts = this
    BY DEF Block
  <1>6. this = << >> \/ this = <<Alloca(nextId)>>
    OBVIOUS
  <1> HIDE DEF this, entry, fun
  <1>7. blocks = << >> \/ (Len(blocks) = 1 /\ blocks[1] = entry)
    OBVIOUS
  <1> HIDE DEF blocks
  <1> QED BY <1>2, <1>3, <1>4, <1>5, <1>6, <1>7, NumberedFunction

LEMMA StepsKeepOnce ==
  ASSUME IInv, Numbered(module), [Next]_genVars
  PROVE  Numbered(module')
  <1>1. CASE \/ VisitChildren \/ VisitRecordDecl \/ VisitLiteralExpr \/ VisitMemberExpr
             \/ VisitAssignment \/ VisitBinaryExpr \/ VisitRightOperand \/ UNCHANGED genVars
    <2>1. module' = module
      BY <1>1 DEF VisitChildren, VisitRecordDecl, VisitLiteralExpr, VisitMemberExpr,
                  VisitAssignment, VisitBinaryExpr, VisitRightOperand, genVars
    <2> QED BY <2>1
  <1>2. ASSUME Next PROVE tasks # << >>
    BY <1>2 DEF Next, VisitChildren, VisitRecordDecl, VisitFunctionDecl, VisitVarDecl,
       StoreInitializer, VisitReturnStmt, CreateRet, VisitIfStmt, BranchOnCondition, EndThen,
       EndElse, VisitWhileStmt, LoopOnCondition, EndBody, VisitLiteralExpr, VisitVariableExpr,
       VisitFieldExpr, VisitMemberExpr, AddOffset, VisitAssignment, StoreAssigned,
       VisitBinaryExpr, VisitRightOperand, Combine, Visiting, Doing
  <1>3. CASE \/ VisitVarDecl \/ StoreInitializer \/ VisitReturnStmt \/ CreateRet
             \/ BranchOnCondition \/ EndThen \/ EndElse \/ LoopOnCondition \/ EndBody
             \/ VisitVariableExpr \/ AddOffset \/ StoreAssigned \/ Combine
    <2>1. tasks # << >>
      BY <1>2, <1>3 DEF Next
    <2> QED BY <1>3, <2>1, ValuesStayOnce
  <1>4. CASE VisitFieldExpr
    <2>1. tasks # << >>
      BY <1>2, <1>4 DEF Next
    <2> QED BY <1>4, <2>1, FieldStaysOnce
  <1>5. CASE VisitIfStmt \/ VisitWhileStmt
    BY <1>5, BlocksStayOnce
  <1>6. CASE VisitFunctionDecl
    BY <1>6, FunctionStaysOnce
  <1> QED BY <1>1, <1>3, <1>4, <1>5, <1>6 DEF Next

(* An instruction that has its value and all of its operands.              *)
LEMMA InstructionComplete ==
  ASSUME NEW k, NEW x \in Code(Below(k)), x.op \in ValueOps => x.id # NoId,
         \A a \in DOMAIN x.args : x.args[a] # Null
  PROVE  x \in Code(1..(k - 1))
  <1> DEFINE V == Below(k)
             W == 1..(k - 1)
             O == Operands(V)
             P == Operands(W)
             B == Nat \ {0}
  <1>1. V = {NoId} \cup W
    BY DEF Below
  <1>2. ASSUME NEW o \in O, o # Null PROVE o \in P
    <2>1. CASE o \in [imm : {TRUE}, id : Int]
      BY <2>1 DEF Operands
    <2>2. CASE o \in [imm : {FALSE}, id : V]
      <3>1. o = [imm |-> FALSE, id |-> o.id] /\ o.id \in V
        BY <2>2
      <3>2. o.id # NoId
        BY <1>2, <3>1, Zenon DEF Null, Ref
      <3> QED BY <1>1, <3>1, <3>2 DEF Operands
    <2> QED BY <2>1, <2>2 DEF Operands
  <1>3. \/ x \in [op : {"alloca"}, id : V, args : {<< >>}, targets : {<< >>}]
        \/ x \in [op : {"load"}, id : V, args : [1..1 -> O], targets : {<< >>}]
        \/ x \in [op : {"store"}, id : {NoId}, args : [1..2 -> O], targets : {<< >>}]
        \/ x \in [op : {"add", "sub"}, id : V, args : [1..2 -> O], targets : {<< >>}]
        \/ x \in [op : {"ret"}, id : {NoId}, args : {<< >>} \cup [1..1 -> O], targets : {<< >>}]
        \/ x \in [op : {"br"}, id : {NoId}, args : {<< >>}, targets : [1..1 -> B]]
        \/ x \in [op : {"condbr"}, id : {NoId}, args : [1..1 -> O], targets : [1..2 -> B]]
    BY DEF Code, Instructions
  <1>4. x.op \in ValueOps /\ x.id \in V => x.id \in W
    BY <1>1
  <1>5. /\ x.args \in [1..1 -> O] => x.args \in [1..1 -> P]
        /\ x.args \in [1..2 -> O] => x.args \in [1..2 -> P]
    <2> HIDE DEF O, P
    <2>1. ASSUME NEW S, x.args \in [S -> O] PROVE x.args \in [S -> P]
      <3>1. \A s \in S : x.args[s] \in P
        BY <1>2, <2>1
      <3> QED BY <2>1, <3>1
    <2> QED BY <2>1
  <1>6. x \in Instructions(W, B)
    <2> HIDE DEF V, W, O, B
    <2>1. CASE x \in [op : {"alloca"}, id : V, args : {<< >>}, targets : {<< >>}]
      BY <1>4, <2>1 DEF Instructions, ValueOps
    <2>2. CASE x \in [op : {"load"}, id : V, args : [1..1 -> O], targets : {<< >>}]
      BY <1>4, <1>5, <2>2 DEF Instructions, ValueOps
    <2>3. CASE x \in [op : {"store"}, id : {NoId}, args : [1..2 -> O], targets : {<< >>}]
      BY <1>5, <2>3 DEF Instructions
    <2>4. CASE x \in [op : {"add", "sub"}, id : V, args : [1..2 -> O], targets : {<< >>}]
      BY <1>4, <1>5, <2>4 DEF Instructions, ValueOps
    <2>5. CASE x \in [op : {"ret"}, id : {NoId}, args : {<< >>} \cup [1..1 -> O],
                      targets : {<< >>}]
      BY <1>5, <2>5 DEF Instructions
    <2>6. CASE x \in [op : {"br"}, id : {NoId}, args : {<< >>}, targets : [1..1 -> B]]
      BY <2>6 DEF Instructions
    <2>7. CASE x \in [op : {"condbr"}, id : {NoId}, args : [1..1 -> O], targets : [1..2 -> B]]
      BY <1>5, <2>7 DEF Instructions
    <2> QED BY <1>3, <2>1, <2>2, <2>3, <2>4, <2>5, <2>6, <2>7
  <1> QED BY <1>6 DEF Code

(* A module all of whose instructions are complete.                        *)
LEMMA ModuleComplete ==
  ASSUME NEW k, NEW m \in Seq(Functions(Below(k))), Named(m),
         \A f \in 1..Len(m) : \A b \in 1..Len(m[f].blocks) :
           \A j \in 1..Len(Body(m, f, b)) : \A a \in DOMAIN Body(m, f, b)[j].args :
             Body(m, f, b)[j].args[a] # Null
  PROVE  m \in Seq(Functions(1..(k - 1)))
  <1> DEFINE W == 1..(k - 1)
  <1>1. ASSUME NEW S, NEW T, NEW s \in Seq(S), \A p \in 1..Len(s) : s[p] \in T
        PROVE  s \in Seq(T)
    BY <1>1
  <1>2. ASSUME NEW f \in 1..Len(m), NEW b \in 1..Len(m[f].blocks)
        PROVE  Body(m, f, b) \in Seq(Code(W))
    <2>1. /\ Body(m, f, b) \in Seq(Code(Below(k)))
          /\ \A j \in 1..Len(Body(m, f, b)) : Body(m, f, b)[j] \in Code(Below(k))
      BY ModuleShape
    <2>2. ASSUME NEW j \in 1..Len(Body(m, f, b)) PROVE Body(m, f, b)[j] \in Code(W)
      <3>1. Body(m, f, b)[j].op \in ValueOps => Body(m, f, b)[j].id # NoId
        BY Zenon DEF Named
      <3> QED BY <2>1, <3>1, InstructionComplete
    <2> HIDE DEF W
    <2> QED BY <1>1, <2>1, <2>2
  <1> HIDE DEF W
  <1>3. ASSUME NEW f \in 1..Len(m) PROVE m[f] \in Functions(W)
    <2>1. m[f] \in [name : STRING, blocks : Seq(Blocks(Below(k)))]
      <3>1. m[f] \in Functions(Below(k))
        BY ElementOfSeq
      <3> QED BY <3>1, Zenon DEF Functions
    <2>2. ASSUME NEW b \in 1..Len(m[f].blocks) PROVE m[f].blocks[b] \in Blocks(W)
      <3>1. m[f].blocks[b] \in [name : STRING, insts : Seq(Instructions(Below(k), Nat \ {0}))]
        <4>1. m[f].blocks \in Seq(Blocks(Below(k)))
          BY <2>1
        <4>2. m[f].blocks[b] \in Blocks(Below(k))
          BY <4>1, ElementOfSeq
        <4> QED BY <4>2, Zenon DEF Blocks
      <3>2. m[f].blocks[b].insts \in Seq(Instructions(W, Nat \ {0}))
        BY <1>2 DEF Body, Code
      <3>3. m[f].blocks[b] \in [name : STRING, insts : Seq(Instructions(W, Nat \ {0}))]
        BY <3>1, <3>2
      <3> QED BY <3>3, Zenon DEF Blocks
    <2>3. m[f].blocks \in Seq(Blocks(W))
      BY <1>1, <2>1, <2>2
    <2>4. m[f] \in [name : STRING, blocks : Seq(Blocks(W))]
      BY <2>1, <2>3
    <2> QED BY <2>4, Zenon DEF Functions
  <1>4. m \in Seq(Functions(W))
    BY <1>1, <1>3
  <1> QED BY <1>4 DEF W

LEMMA OnceFollows ==
  ASSUME IInv, Numbered(module)
  PROVE  OncePerBlock(module) /\ FitForBackend(module)
  <1>1. ModuleOk(module, nextId)
    BY DEF IInv, State
  <1>2. /\ DOMAIN module = 1..Len(module)
        /\ \A f \in 1..Len(module) :
             /\ DOMAIN module[f].blocks = 1..Len(module[f].blocks)
             /\ \A b \in 1..Len(module[f].blocks) :
                  DOMAIN Body(module, f, b) = 1..Len(Body(module, f, b))
    BY <1>1, ModuleShape DEF ModuleOk
  <1>3. ASSUME NEW f \in DOMAIN module, NEW b \in DOMAIN module[f].blocks,
               NEW j \in DOMAIN module[f].blocks[b].insts,
               NEW l \in DOMAIN module[f].blocks[b].insts,
               module[f].blocks[b].insts[j].id # NoId,
               module[f].blocks[b].insts[l].id = module[f].blocks[b].insts[j].id
        PROVE  j = l
    <2> DEFINE v == module[f].blocks[b].insts[j].id
    <2>1. Sits(module, v, f, b, j) /\ Sits(module, v, f, b, l)
      BY <1>2, <1>3 DEF Sits, Body
    <2> HIDE DEF v
    <2>2. v # NoId
      BY <1>3 DEF v
    <2> QED BY <2>1, <2>2, Zenon DEF Numbered, Once
  <1>4. OncePerBlock(module)
    BY <1>3, Zenon DEF OncePerBlock
  <1>5. FitForBackend(module)
    BY <1>1, <1>2 DEF ModuleOk, FitForBackend
  <1> QED BY <1>4, <1>5

LEMMA CompleteFollows ==
  ASSUME IInv, Numbered(module), OperandsPresent, ~crashed
  PROVE  module \in Seq(Functions(Ids)) /\ OperandsDefined(module)
  <1>1. ModuleOk(module, nextId)
    BY DEF IInv, State
  <1>2. /\ DOMAIN module = 1..Len(module)
        /\ \A f \in 1..Len(module) :
             /\ DOMAIN module[f].blocks = 1..Len(module[f].blocks)
             /\ \A b \in 1..Len(module[f].blocks) :
                  /\ DOMAIN Body(module, f, b) = 1..Len(Body(module, f, b))
                  /\ \A j \in 1..Len(Body(module, f, b)) :
                       Body(module, f, b)[j] \in Code(Below(nextId))
    BY <1>1, ModuleShape DEF ModuleOk
  <1>3. ASSUME NEW f \in 1..Len(module), NEW b \in 1..Len(module[f].blocks),
               NEW j \in 1..Len(Body(module, f, b)),
               NEW a \in DOMAIN Body(module, f, b)[j].args
        PROVE  Body(module, f, b)[j].args[a] # Null
    <2> DEFINE x == Body(module, f, b)[j]
    <2>1. f \in DOMAIN module /\ b \in DOMAIN module[f].blocks
          /\ x \in ToSet(module[f].blocks[b].insts)
      BY <1>2 DEF ToSet, Body
    <2> HIDE DEF x
    <2>2. Null \notin ToSet(x.args)
      BY <2>1, Zenon DEF OperandsPresent
    <2>3. \A c \in DOMAIN x.args : x.args[c] \in ToSet(x.args)
      BY DEF ToSet
    <2> QED BY <2>2, <2>3 DEF x
  <1>4. module \in Seq(Functions(Ids))
    BY <1>1, <1>3, ModuleComplete DEF ModuleOk, Numbered, Ids
  <1>5. ASSUME NEW f \in DOMAIN module, NEW b \in DOMAIN module[f].blocks,
               NEW j \in DOMAIN module[f].blocks[b].insts,
               NEW a \in DOMAIN module[f].blocks[b].insts[j].args,
               ~module[f].blocks[b].insts[j].args[a].imm
        PROVE  Defines(module[f], module[f].blocks[b].insts[j].args[a].id)
    <2> DEFINE x == Body(module, f, b)[j]
               o == x.args[a]
    <2>1. f \in 1..Len(module) /\ b \in 1..Len(module[f].blocks)
          /\ j \in 1..Len(Body(module, f, b)) /\ a \in DOMAIN x.args
      BY <1>2 DEF Body
    <2>2. DOMAIN x.args = 1..Len(x.args)
      BY <1>2, <2>1, CodeShape
    <2>3. Known(module, f, o)
      BY <1>1, <2>1, <2>2 DEF ModuleOk, OperandsKnown
    <2>4. o # Null
      BY <1>3, <2>1
    <2>5. ~o.imm
      BY <1>5 DEF Body
    <2> HIDE DEF o
    <2>6. Has(module, f, o.id)
      BY <2>3, <2>4, <2>5 DEF Known
    <2>7. PICK c \in 1..Len(module[f].blocks) :
            \E i \in 1..Len(Body(module, f, c)) : Body(module, f, c)[i].id = o.id
      BY <2>6 DEF Has
    <2>8. PICK i \in 1..Len(Body(module, f, c)) : Body(module, f, c)[i].id = o.id
      BY <2>7
    <2>9. c \in DOMAIN module[f].blocks /\ i \in DOMAIN module[f].blocks[c].insts
          /\ module[f].blocks[c].insts[i].id = o.id
      BY <1>2, <2>1, <2>8 DEF Body
    <2>10. Defines(module[f], o.id)
      BY <2>9, Zenon DEF Defines
    <2> QED BY <2>10 DEF o, Body
  <1>6. OperandsDefined(module)
    BY <1>5, Zenon DEF OperandsDefined
  <1> QED BY <1>4, <1>6

(* For every set of analyzed trees that declare no function in a body: an  *)
(* instruction that gives a value is numbered, and no other one of the     *)
(* module, in whichever function or block it is inserted and however the   *)
(* visits are nested, is ever given the number.                            *)
THEOREM ValuesMadeOnce == Spec => [](NoLocalFunctions => Numbered(module))
  <1>1. Init => Numbered(module)
    <2> SUFFICES ASSUME Init PROVE Numbered(module)
      OBVIOUS
    <2>1. module = << >> /\ Len(module) = 0
      BY DEF Init, Start
    <2>2. Named(module)
      BY <2>1 DEF Named
    <2>3. Once(module)
      <3>1. ASSUME NEW v, NEW f, NEW b, NEW j PROVE ~Sits(module, v, f, b, j)
        BY <2>1 DEF Sits
      <3> QED BY <3>1, Zenon DEF Once
    <2> QED BY <2>2, <2>3 DEF Numbered
  <1> DEFINE Inv == NoLocalFunctions => Numbered(module)
  <1>2. Numbered(module)' <=> Numbered(module')
    OBVIOUS
  <1>3. (NoLocalFunctions => IInv) /\ Inv /\ [Next]_genVars => Inv'
    BY <1>2, NoneBefore, StepsKeepOnce
  <1>4. Init => Inv
    BY <1>1
  <1> QED BY <1>3, <1>4, InvariantHolds, PTL DEF Spec

(* For every set of analyzed trees that declare no function in a body:     *)
(* what Optimizer supposes of the modules that it is given holds of those  *)
(* generated.  Branches stay inside, uses follow, and a value is made once *)
(* in its block; and as long as no operand is null, as that of a           *)
(* comparison is, every operand is a number or a value made in the same    *)
(* function, and NoId is none.                                             *)
THEOREM MadeForOptimizer ==
  Spec => [](NoLocalFunctions =>
    /\ NoId \notin Ids
    /\ OncePerBlock(module) /\ FitForBackend(module)
    /\ OperandsPresent /\ ~crashed
         => module \in Seq(Functions(Ids)) /\ OperandsDefined(module))
  <1>1. NoId \notin Ids
    BY DEF Ids, NoId
  <1>2. IInv /\ Numbered(module) => OncePerBlock(module) /\ FitForBackend(module)
    BY OnceFollows
  <1>3. IInv /\ Numbered(module) /\ OperandsPresent /\ ~crashed
          => module \in Seq(Functions(Ids)) /\ OperandsDefined(module)
    BY CompleteFollows
  <1> QED BY <1>1, <1>2, <1>3, InvariantHolds, ValuesMadeOnce, PTL

=============================================================================
