--------------------------- MODULE SemanticProofs ---------------------------
(***************************************************************************)
(* Proofs about SemanticAnalyzer, for every set of trees: scopes are       *)
(* entered and left in pairs, so that currentScope is never null where a   *)
(* visit method follows it, and currentReturnType is in force in bodies;   *)
(* and what the analysis resolves and reports is what the tree alone tells.*)
(***************************************************************************)
EXTENDS SemanticAnalyzer, SequenceTheorems, FiniteSetTheorems,
        WellFoundedInduction, TLAPS

Tasks == [do : {"visit", "leave", "endFunction", "declare"}, node : DOMAIN ast]
IsLeave(t) == t.do \in {"leave", "endFunction"}
LeavesIn(ts) == {k \in DOMAIN ts : IsLeave(ts[k])}

-----------------------------------------------------------------------------
(* How many scopes a list of tasks is going to leave.                      *)

LEMMA LeavesFinite ==
  ASSUME NEW T, NEW ts \in Seq(T)
  PROVE  IsFiniteSet(LeavesIn(ts)) /\ Cardinality(LeavesIn(ts)) \in Nat
  <1>1. LeavesIn(ts) \in SUBSET (1..Len(ts)) /\ Len(ts) \in Nat
    BY DEF LeavesIn
  <1>2. IsFiniteSet(1..Len(ts))
    BY <1>1, FS_Interval
  <1>3. IsFiniteSet(LeavesIn(ts))
    BY <1>1, <1>2, FS_Subset
  <1> QED BY <1>3, FS_CardinalityType

LEMMA LeavesOfConcat ==
  ASSUME NEW T, NEW ss \in Seq(T), NEW ts \in Seq(T)
  PROVE  Cardinality(LeavesIn(ss \o ts))
           = Cardinality(LeavesIn(ss)) + Cardinality(LeavesIn(ts))
  <1> DEFINE Moved == {k + Len(ss) : k \in LeavesIn(ts)}
             move == [k \in LeavesIn(ts) |-> k + Len(ss)]
  <1>1. Len(ss) \in Nat /\ Len(ts) \in Nat
    OBVIOUS
  <1>2. LeavesIn(ss) \subseteq 1..Len(ss) /\ LeavesIn(ts) \subseteq 1..Len(ts)
    BY DEF LeavesIn
  <1>3. LeavesIn(ss \o ts) = LeavesIn(ss) \cup Moved
    <2>1. ASSUME NEW k \in LeavesIn(ss \o ts)
          PROVE  k \in LeavesIn(ss) \cup Moved
      <3>1. k \in 1..(Len(ss) + Len(ts)) /\ IsLeave((ss \o ts)[k])
        BY DEF LeavesIn
      <3>2. CASE k <= Len(ss)
        BY <3>1, <3>2, <1>1 DEF LeavesIn
      <3>3. CASE k > Len(ss)
        <4>1. k - Len(ss) \in 1..Len(ts) /\ (ss \o ts)[k] = ts[k - Len(ss)]
          BY <3>1, <3>3, <1>1
        <4>2. k - Len(ss) \in LeavesIn(ts)
          BY <4>1, <3>1 DEF LeavesIn
        <4>3. k = (k - Len(ss)) + Len(ss)
          BY <3>1, <1>1
        <4> QED BY <4>2, <4>3
      <3> QED BY <3>1, <3>2, <3>3, <1>1
    <2>2. ASSUME NEW k \in LeavesIn(ss) PROVE k \in LeavesIn(ss \o ts)
      BY <1>1 DEF LeavesIn
    <2>3. ASSUME NEW k \in LeavesIn(ts) PROVE k + Len(ss) \in LeavesIn(ss \o ts)
      <3>1. k \in 1..Len(ts) /\ IsLeave(ts[k])
        BY DEF LeavesIn
      <3>2. /\ k + Len(ss) \in 1..Len(ss \o ts)
            /\ (ss \o ts)[k + Len(ss)] = ts[k]
        BY <3>1, <1>1
      <3> QED BY <3>1, <3>2 DEF LeavesIn
    <2> QED BY <2>1, <2>2, <2>3
  <1>4. LeavesIn(ss) \cap Moved = {}
    BY <1>1, <1>2
  <1>5. move \in Bijection(LeavesIn(ts), Moved)
    <2>1. move \in [LeavesIn(ts) -> Moved]
      OBVIOUS
    <2>2. \A a, b \in LeavesIn(ts) : move[a] = move[b] => a = b
      BY <1>1, <1>2
    <2>3. \A m \in Moved : \E k \in LeavesIn(ts) : move[k] = m
      OBVIOUS
    <2> QED BY <2>1, <2>2, <2>3 DEF Bijection, Injection, IsInjective, Surjection
  <1>6. /\ IsFiniteSet(LeavesIn(ss)) /\ Cardinality(LeavesIn(ss)) \in Nat
        /\ IsFiniteSet(LeavesIn(ts)) /\ Cardinality(LeavesIn(ts)) \in Nat
    BY LeavesFinite
  <1>7. ExistsBijection(LeavesIn(ts), Moved)
    BY <1>5 DEF ExistsBijection
  <1>8. IsFiniteSet(Moved) /\ Cardinality(Moved) = Cardinality(LeavesIn(ts))
    BY <1>6, <1>7, FS_Bijection
  <1> HIDE DEF Moved
  <1>9. Cardinality(LeavesIn(ss) \cup Moved)
          = Cardinality(LeavesIn(ss)) + Cardinality(Moved)
              - Cardinality(LeavesIn(ss) \cap Moved)
    BY <1>6, <1>8, FS_Union
  <1>10. Cardinality(LeavesIn(ss) \cap Moved) = 0
    BY <1>4, FS_EmptySet
  <1> QED BY <1>3, <1>6, <1>8, <1>9, <1>10

LEMMA LeavesOfOne ==
  ASSUME NEW t
  PROVE  Cardinality(LeavesIn(<<t>>)) = IF IsLeave(t) THEN 1 ELSE 0
  <1>1. LeavesIn(<<t>>) = IF IsLeave(t) THEN {1} ELSE {}
    BY DEF LeavesIn
  <1> QED BY <1>1, FS_Singleton, FS_EmptySet

LEMMA LeavesOfHeadAndTail ==
  ASSUME NEW T, NEW ts \in Seq(T), ts # << >>
  PROVE  Cardinality(LeavesIn(ts))
           = Cardinality(LeavesIn(Tail(ts))) + (IF IsLeave(Head(ts)) THEN 1 ELSE 0)
  <1>1. ts = <<Head(ts)>> \o Tail(ts) /\ <<Head(ts)>> \in Seq(T) /\ Tail(ts) \in Seq(T)
    OBVIOUS
  <1>2. Cardinality(LeavesIn(ts))
          = Cardinality(LeavesIn(<<Head(ts)>>)) + Cardinality(LeavesIn(Tail(ts)))
    BY <1>1, LeavesOfConcat
  <1>3. Cardinality(LeavesIn(<<Head(ts)>>)) = IF IsLeave(Head(ts)) THEN 1 ELSE 0
    BY LeavesOfOne
  <1>4. Cardinality(LeavesIn(Tail(ts))) \in Nat
    BY <1>1, LeavesFinite
  <1> QED BY <1>2, <1>3, <1>4

LEMMA LeavesOfVisits ==
  ASSUME NEW ks \in Seq(DOMAIN ast)
  PROVE  /\ VisitAll(ks) \in Seq(Tasks)
         /\ Cardinality(LeavesIn(VisitAll(ks))) = 0
  <1>1. VisitAll(ks) \in Seq(Tasks)
    <2>1. Len(ks) \in Nat /\ DOMAIN ks = 1..Len(ks)
      OBVIOUS
    <2>2. \A k \in 1..Len(ks) : Visit(ks[k]) \in Tasks
      BY DEF Visit, Task, Tasks
    <2>3. VisitAll(ks) \in [1..Len(ks) -> Tasks]
      BY <2>1, <2>2 DEF VisitAll
    <2> QED BY <2>1, <2>3
  <1>2. LeavesIn(VisitAll(ks)) = {}
    BY DEF LeavesIn, IsLeave, VisitAll, Visit, Task
  <1> QED BY <1>1, <1>2, FS_EmptySet

-----------------------------------------------------------------------------
(* The tree.                                                               *)

LEMMA TreeTypes ==
  ASSUME ast \in Trees(Names)
  PROVE  /\ ast \in Seq(Nodes(Names))
         /\ 1 \in DOMAIN ast /\ ast[1].kind = "unit"
         /\ \A n \in DOMAIN ast :
              /\ ast[n].name \in Names
              /\ ast[n].kids \in Seq(DOMAIN ast)
  <1>1. ast \in Seq(Nodes(Names))
    BY DEF Trees
  <1>2. ast # << >> /\ ast[1].kind = "unit"
    BY DEF Trees, IsTree
  <1>3. \A n \in DOMAIN ast : \A k \in DOMAIN ast[n].kids :
          ast[n].kids[k] \in (n + 1)..Len(ast)
    BY DEF Trees, IsTree, Kid
  <1>4. ASSUME NEW n \in DOMAIN ast
        PROVE  ast[n].name \in Names /\ ast[n].kids \in Seq(DOMAIN ast)
    <2>0. ast[n] \in Nodes(Names)
      BY <1>1
    <2>1. n \in 1..Len(ast) /\ ast[n].name \in Names /\ ast[n].kids \in Seq(Nat \ {0})
      BY <1>1, <2>0 DEF Nodes
    <2>2. \A k \in 1..Len(ast[n].kids) : ast[n].kids[k] \in DOMAIN ast
      BY <1>1, <1>3, <2>1, SMTT(30)
    <2>3. ast[n].kids \in [1..Len(ast[n].kids) -> DOMAIN ast] /\ Len(ast[n].kids) \in Nat
      <3> DEFINE ks == ast[n].kids
      <3>1. ks \in Seq(Nat \ {0}) /\ \A k \in 1..Len(ks) : ks[k] \in DOMAIN ast
        BY <2>1, <2>2
      <3> HIDE DEF ks
      <3>2. Len(ks) \in Nat /\ ks \in [1..Len(ks) -> DOMAIN ast]
        BY ONLY <3>1, LenProperties
      <3> QED BY <3>2 DEF ks
    <2>4. ast[n].kids \in Seq(DOMAIN ast)
      BY ONLY <2>3, IsASeq
    <2> QED BY <2>1, <2>4
  <1> QED BY <1>1, <1>2, <1>4

-----------------------------------------------------------------------------
(* The invariant.  Every scope is left by a task that is pending, and the  *)
(* last task leaves one, once the visit of the unit has begun.             *)

InBody == {"null"} \cup {"int" : k \in {j \in DOMAIN tasks : tasks[j].do = "endFunction"}}

Balanced ==
  /\ Cardinality(LeavesIn(tasks)) = Len(scopes)
  /\ tasks = << >> \/ tasks = <<Visit(1)>> \/ IsLeave(tasks[Len(tasks)])

IInv ==
  /\ ast \in Trees(Names)
  /\ TypeOK
  /\ Balanced

(* What a step does to the list: tasks are put in the place of the first.  *)
LEMMA ReplaceFirst ==
  ASSUME NEW T, NEW ts \in Seq(T), ts # << >>, NEW new \in Seq(T)
  PROVE  LET next == new \o Tail(ts) IN
         /\ next \in Seq(T)
         /\ Cardinality(LeavesIn(next))
              = Cardinality(LeavesIn(ts)) + Cardinality(LeavesIn(new))
                  - (IF IsLeave(Head(ts)) THEN 1 ELSE 0)
         /\ Len(ts) > 1 => next # << >> /\ next[Len(next)] = ts[Len(ts)]
         /\ Len(ts) = 1 => next = new
  <1> DEFINE next == new \o Tail(ts)
  <1>1. Tail(ts) \in Seq(T) /\ Len(Tail(ts)) = Len(ts) - 1 /\ Len(ts) \in Nat \ {0}
    OBVIOUS
  <1>2. next \in Seq(T)
    BY <1>1
  <1>3. Cardinality(LeavesIn(next))
          = Cardinality(LeavesIn(new)) + Cardinality(LeavesIn(Tail(ts)))
    BY <1>1, LeavesOfConcat
  <1>4. Cardinality(LeavesIn(ts))
          = Cardinality(LeavesIn(Tail(ts))) + (IF IsLeave(Head(ts)) THEN 1 ELSE 0)
    BY LeavesOfHeadAndTail
  <1>5. Cardinality(LeavesIn(Tail(ts))) \in Nat /\ Cardinality(LeavesIn(new)) \in Nat
    BY <1>1, LeavesFinite
  <1>6. ASSUME Len(ts) > 1 PROVE next # << >> /\ next[Len(next)] = ts[Len(ts)]
    <2>1. Len(next) = Len(new) + (Len(ts) - 1) /\ Len(new) \in Nat
      BY <1>1
    <2>2. next[Len(next)] = Tail(ts)[Len(ts) - 1]
      BY <1>1, <1>6, <2>1
    <2>3. Tail(ts)[Len(ts) - 1] = ts[Len(ts)]
      BY <1>1, <1>6
    <2>4. Len(next) # 0
      BY <1>1, <1>6, <2>1
    <2> HIDE DEF next
    <2> QED BY <1>2, <2>2, <2>3, <2>4, EmptySeq
  <1>7. ASSUME Len(ts) = 1 PROVE next = new
    <2>1. Tail(ts) = << >>
      <3>1. Tail(ts) \in Seq(T) /\ Len(Tail(ts)) = 0
        BY <1>1, <1>7
      <3>2. Tail(ts) # << >> => Len(Tail(ts)) \in Nat \ {0}
        BY <3>1, EmptySeq
      <3> QED BY <3>1, <3>2
    <2> QED BY <2>1, ConcatEmptySeq
  <1>8. Cardinality(LeavesIn(next))
          = Cardinality(LeavesIn(ts)) + Cardinality(LeavesIn(new))
              - (IF IsLeave(Head(ts)) THEN 1 ELSE 0)
    <2>1. CASE IsLeave(Head(ts))
      BY <1>3, <1>4, <1>5, <2>1
    <2>2. CASE ~IsLeave(Head(ts))
      BY <1>3, <1>4, <1>5, <2>2
    <2> QED BY <2>1, <2>2
  <1> QED BY <1>2, <1>6, <1>7, <1>8

-----------------------------------------------------------------------------
(* The chain of scopes.                                                    *)

Scopes == [Names -> {Absent, NoDecl} \cup DOMAIN ast]

LEMMA EnterAndLeave ==
  ASSUME NEW ss \in Seq(Scopes)
  PROVE  /\ enterScope(ss) \in Seq(Scopes) /\ Len(enterScope(ss)) = Len(ss) + 1
         /\ ss # << >> =>
              leaveScope(ss) \in Seq(Scopes) /\ Len(leaveScope(ss)) = Len(ss) - 1
  <1>1. <<EmptyScope>> \in Seq(Scopes)
    <2>1. EmptyScope \in Scopes
      BY DEF EmptyScope, Scopes
    <2> QED BY <2>1
  <1> HIDE DEF Scopes
  <1>2. enterScope(ss) \in Seq(Scopes) /\ Len(enterScope(ss)) = Len(ss) + 1
    BY <1>1 DEF enterScope
  <1>3. ss # << >> => leaveScope(ss) \in Seq(Scopes) /\ Len(leaveScope(ss)) = Len(ss) - 1
    BY DEF leaveScope
  <1> QED BY <1>2, <1>3

LEMMA DeclareTypes ==
  ASSUME NEW ss \in Seq(Scopes), ss # << >>, NEW x, NEW d \in {NoDecl} \cup DOMAIN ast
  PROVE  Declare(ss, x, d) \in Seq(Scopes) /\ Len(Declare(ss, x, d)) = Len(ss)
  <1> DEFINE first == [ss[1] EXCEPT ![x] = d]
             new == [ss EXCEPT ![1] = first]
  <1>1. Len(ss) \in Nat \ {0} /\ ss[1] \in Scopes
    <2> HIDE DEF Scopes
    <2> QED OBVIOUS
  <1>2. first \in Scopes
    BY <1>1 DEF Scopes
  <1>3. new \in Seq(Scopes) /\ Len(new) = Len(ss)
    <2> HIDE DEF Scopes, first
    <2> QED BY <1>1, <1>2
  <1>4. [ss EXCEPT ![1][x] = d] = new
    OBVIOUS
  <1> QED BY <1>3, <1>4 DEF Declare

-----------------------------------------------------------------------------
(* A visit method below the unit's has a scope around it, and so has one   *)
(* that is about to leave it.                                              *)
LEMMA ScopeAround ==
  ASSUME IInv, tasks # << >>, tasks # <<Visit(1)>>
  PROVE  /\ scopes \in Seq(Scopes) /\ scopes # << >>
         /\ IsLeave(tasks[Len(tasks)])
  <1>1. tasks \in Seq(Tasks) /\ scopes \in Seq(Scopes)
    BY DEF IInv, TypeOK, Tasks, Scopes
  <1>2. IsLeave(tasks[Len(tasks)]) /\ Cardinality(LeavesIn(tasks)) = Len(scopes)
    BY DEF IInv, Balanced
  <1>3. Len(tasks) \in LeavesIn(tasks)
    <2>1. Len(tasks) \in Nat \ {0}
      BY <1>1, EmptySeq
    <2> QED BY <1>2, <2>1 DEF LeavesIn
  <1>4. IsFiniteSet(LeavesIn(tasks))
    BY <1>1, LeavesFinite
  <1>5. Len(scopes) # 0
    BY <1>2, <1>3, <1>4, FS_EmptySet
  <1>6. scopes # << >>
    BY <1>5, EmptySeq
  <1> QED BY <1>1, <1>2, <1>6

LEMMA NotTheUnit ==
  ASSUME IInv, tasks # << >>, top.do # "visit" \/ node.kind # "unit"
  PROVE  tasks # <<Visit(1)>>
  <1>1. ast[1].kind = "unit"
    BY TreeTypes DEF IInv
  <1>2. tasks = <<Visit(1)>> => top = Visit(1)
    BY DEF top
  <1> QED BY <1>1, <1>2 DEF Visit, Task, node

LEMMA LongerThanOne ==
  /\ \A n \in Nat \ {0} : n = 1 \/ n > 1
  /\ \A ts, t : Len(ts) > 1 => ts # <<t>>
  <1>1. \A n \in Nat \ {0} : n = 1 \/ n > 1
    OBVIOUS
  <1>2. ASSUME NEW t PROVE Len(<<t>>) = 1
    OBVIOUS
  <1>3. ASSUME NEW ts, NEW t, Len(ts) > 1, ts = <<t>> PROVE FALSE
    <2>1. Len(ts) = 1
      BY <1>2, <1>3
    <2> QED BY <1>3, <2>1
  <1> QED BY <1>1, <1>3

(* A step that leaves as many scopes pending as it has entered preserves   *)
(* the invariant.                                                          *)
LEMMA StepKeepsInvariant ==
  ASSUME IInv, tasks # << >>, ast' = ast,
         NEW new \in Seq(Tasks), tasks' = new \o Tail(tasks),
         scopes' \in Seq(Scopes),
         Len(scopes') = Len(scopes) + Cardinality(LeavesIn(new))
                          - (IF IsLeave(top) THEN 1 ELSE 0),
         Len(tasks) = 1 => new = << >> \/ IsLeave(new[Len(new)]),
         isField' \subseteq DOMAIN ast, errors' \subseteq DOMAIN ast,
         \/ currentReturnType' = "null"
         \/ /\ currentReturnType' = "int"
            /\ \E k \in DOMAIN new : new[k].do = "endFunction"
         \/ currentReturnType' = currentReturnType /\ top.do # "endFunction"
  PROVE  IInv'
  <1>1. tasks \in Seq(Tasks) /\ Len(tasks) \in Nat \ {0}
    <2>1. tasks \in Seq(Tasks)
      BY DEF IInv, TypeOK, Tasks
    <2> QED BY <2>1, EmptySeq
  <1>2. /\ tasks' \in Seq(Tasks)
        /\ Cardinality(LeavesIn(tasks'))
             = Cardinality(LeavesIn(tasks)) + Cardinality(LeavesIn(new))
                 - (IF IsLeave(top) THEN 1 ELSE 0)
        /\ Len(tasks) > 1 => tasks' # << >> /\ tasks'[Len(tasks')] = tasks[Len(tasks)]
        /\ Len(tasks) = 1 => tasks' = new
    <2> DEFINE next == new \o Tail(tasks)
    <2>1. /\ next \in Seq(Tasks)
          /\ Cardinality(LeavesIn(next))
               = Cardinality(LeavesIn(tasks)) + Cardinality(LeavesIn(new))
                   - (IF IsLeave(Head(tasks)) THEN 1 ELSE 0)
          /\ Len(tasks) > 1 => next # << >> /\ next[Len(next)] = tasks[Len(tasks)]
          /\ Len(tasks) = 1 => next = new
      BY <1>1, ReplaceFirst
    <2>2. tasks' = next
      OBVIOUS
    <2> HIDE DEF next
    <2> QED BY <2>1, <2>2 DEF top
  <1>3. Balanced'
    <2>1. Cardinality(LeavesIn(tasks')) = Len(scopes')
      BY <1>2 DEF IInv, Balanced
    <2>2. CASE Len(tasks) = 1
      <3>1. tasks' = << >> \/ IsLeave(tasks'[Len(tasks')])
        BY <1>2, <2>2
      <3> QED BY <2>1, <3>1 DEF Balanced
    <2>3. CASE Len(tasks) > 1
      <3>1. tasks # <<Visit(1)>>
        BY <2>3, LongerThanOne
      <3>2. IsLeave(tasks[Len(tasks)])
        BY <3>1, ScopeAround
      <3>3. IsLeave(tasks'[Len(tasks')])
        BY <1>2, <2>3, <3>2
      <3> QED BY <2>1, <3>3 DEF Balanced
    <2>4. Len(tasks) = 1 \/ Len(tasks) > 1
      BY <1>1, LongerThanOne
    <2> QED BY <2>2, <2>3, <2>4
  <1>4. currentReturnType' \in InBody'
    <2>1. CASE currentReturnType' = "null"
      BY <2>1 DEF InBody
    <2>2. CASE /\ currentReturnType' = "int"
               /\ \E k \in DOMAIN new : new[k].do = "endFunction"
      <3>1. PICK k \in DOMAIN new : new[k].do = "endFunction"
        BY <2>2
      <3>2. k \in DOMAIN tasks' /\ tasks'[k] = new[k]
        <4> HIDE DEF Tasks
        <4> QED BY <1>1
      <3> QED BY <2>2, <3>1, <3>2 DEF InBody
    <2>3. CASE currentReturnType' = currentReturnType /\ top.do # "endFunction"
      <3>1. CASE currentReturnType = "null"
        BY <2>3, <3>1 DEF InBody
      <3>2. CASE currentReturnType # "null"
        <4>1. PICK k \in DOMAIN tasks :
                currentReturnType = "int" /\ tasks[k].do = "endFunction"
          BY <3>2 DEF IInv, TypeOK
        <4>2. k \in 1..Len(tasks) /\ k # 1
          BY <1>1, <2>3, <4>1 DEF top
        <4> DEFINE j == Len(new) + (k - 1)
        <4>3. j \in DOMAIN tasks' /\ tasks'[j] = tasks[k]
          <5> HIDE DEF Tasks
          <5>1. Len(new) \in Nat /\ Tail(tasks) \in Seq(Tasks)
                  /\ Len(Tail(tasks)) = Len(tasks) - 1
            BY <1>1
          <5>2. k - 1 \in 1..Len(Tail(tasks)) /\ Tail(tasks)[k - 1] = tasks[k]
            BY <1>1, <4>2, <5>1
          <5> QED BY <4>2, <5>1, <5>2, SMTT(30)
        <4> QED BY <2>3, <4>1, <4>3 DEF InBody
      <3> QED BY <3>1, <3>2
    <2> QED BY <2>1, <2>2, <2>3
  <1>5. TypeOK'
    BY <1>2, <1>4 DEF TypeOK, Tasks, Scopes, InBody
  <1> QED BY <1>3, <1>5 DEF IInv

-----------------------------------------------------------------------------
(* The tasks that visits add, and where a visit is made.                   *)

LEMMA VisitsAndThen ==
  ASSUME NEW ks \in Seq(DOMAIN ast), NEW t \in Tasks
  PROVE  LET new == VisitAll(ks) \o <<t>> IN
         /\ new \in Seq(Tasks)
         /\ Cardinality(LeavesIn(new)) = IF IsLeave(t) THEN 1 ELSE 0
         /\ new # << >> /\ new[Len(new)] = t /\ Len(new) \in DOMAIN new
  <1> DEFINE new == VisitAll(ks) \o <<t>>
  <1>1. VisitAll(ks) \in Seq(Tasks) /\ Cardinality(LeavesIn(VisitAll(ks))) = 0
    BY LeavesOfVisits
  <1>2. <<t>> \in Seq(Tasks) /\ Cardinality(LeavesIn(<<t>>)) = IF IsLeave(t) THEN 1 ELSE 0
    BY LeavesOfOne
  <1>3. Cardinality(LeavesIn(new)) = 0 + (IF IsLeave(t) THEN 1 ELSE 0)
    BY <1>1, <1>2, LeavesOfConcat
  <1>4. new \in Seq(Tasks) /\ Len(new) = Len(VisitAll(ks)) + 1 /\ new[Len(new)] = t
    BY <1>1, <1>2
  <1>5. Len(new) \in DOMAIN new /\ new # << >>
    BY <1>1, <1>4
  <1> QED BY <1>3, <1>4, <1>5

LEMMA NoTasks ==
  << >> \in Seq(Tasks) /\ Cardinality(LeavesIn(<< >>)) = 0
  <1>1. LeavesIn(<< >>) = {}
    BY DEF LeavesIn
  <1> QED BY <1>1, FS_EmptySet

LEMMA TopTypes ==
  ASSUME IInv, tasks # << >>
  PROVE  /\ top.do \in {"visit", "leave", "endFunction", "declare"}
         /\ top.node \in DOMAIN ast
         /\ node.kids \in Seq(DOMAIN ast)
         /\ scopes \in Seq(Scopes) /\ Len(scopes) \in Nat
         /\ isField \subseteq DOMAIN ast /\ errors \subseteq DOMAIN ast
  <1>1. tasks \in Seq(Tasks)
    BY DEF IInv, TypeOK, Tasks
  <1>2. top \in Tasks
    BY <1>1 DEF top
  <1>3. /\ scopes \in Seq(Scopes) /\ isField \subseteq DOMAIN ast
        /\ errors \subseteq DOMAIN ast
    BY DEF IInv, TypeOK, Scopes
  <1>4. top.do \in {"visit", "leave", "endFunction", "declare"} /\ top.node \in DOMAIN ast
    BY <1>2 DEF Tasks
  <1>5. node.kids \in Seq(DOMAIN ast)
    BY <1>4, TreeTypes DEF IInv, node
  <1> QED BY <1>3, <1>4, <1>5

LEMMA TaskTypes ==
  ASSUME IInv, tasks # << >>,
         NEW do \in {"visit", "leave", "endFunction", "declare"}
  PROVE  /\ Task(do, top.node) \in Tasks
         /\ IsLeave(Task(do, top.node)) <=> do \in {"leave", "endFunction"}
  BY TopTypes DEF Task, Tasks, IsLeave

(* No visit below the unit's is the last task: its scope's end follows.    *)
LEMMA InnerVisit ==
  ASSUME IInv, tasks # << >>, ~IsLeave(top), top.do # "visit" \/ node.kind # "unit"
  PROVE  Len(tasks) # 1 /\ scopes \in Seq(Scopes) /\ scopes # << >>
  <1>1. scopes \in Seq(Scopes) /\ scopes # << >> /\ IsLeave(tasks[Len(tasks)])
    BY NotTheUnit, ScopeAround
  <1>2. Len(tasks) = 1 => top = tasks[Len(tasks)]
    BY DEF top
  <1> QED BY <1>1, <1>2

LEMMA EndOfScope ==
  ASSUME IInv, tasks # << >>, IsLeave(top)
  PROVE  scopes \in Seq(Scopes) /\ scopes # << >>
  <1>1. top.do # "visit"
    BY DEF IsLeave
  <1> QED BY <1>1, NotTheUnit, ScopeAround

-----------------------------------------------------------------------------
(* The steps.                                                              *)

LEMMA InitEstablishes == Init => IInv
  <1> SUFFICES ASSUME Init PROVE IInv
    OBVIOUS
  <1>1. ast \in Trees(Names)
    BY ProgramsAssumption DEF Init
  <1>2. 1 \in DOMAIN ast
    BY <1>1, TreeTypes
  <1>3. Visit(1) \in Tasks /\ ~IsLeave(Visit(1))
    BY <1>2 DEF Visit, Task, Tasks, IsLeave
  <1>4. TypeOK
    BY <1>2, <1>3 DEF Init, TypeOK, Tasks
  <1>5. Cardinality(LeavesIn(tasks)) = Len(scopes)
    BY <1>3, LeavesOfOne DEF Init
  <1> QED BY <1>1, <1>4, <1>5 DEF IInv, Balanced, Init

LEMMA VisitTranslationUnitKeeps == IInv /\ VisitTranslationUnit => IInv'
  <1> SUFFICES ASSUME IInv, VisitTranslationUnit PROVE IInv'
    OBVIOUS
  <1> DEFINE t == Task("leave", top.node)
             new == VisitAll(node.kids) \o <<t>>
  <1>1. /\ tasks # << >> /\ top.do = "visit" /\ ast' = ast /\ tasks' = new \o Tail(tasks)
        /\ scopes' = enterScope(scopes)
        /\ UNCHANGED <<currentReturnType, isField, errors>>
    BY DEF VisitTranslationUnit, Visiting, Doing, Continue
  <1>2. ~IsLeave(top) /\ t \in Tasks /\ IsLeave(t)
    BY <1>1, TaskTypes DEF IsLeave
  <1>3. /\ new \in Seq(Tasks) /\ Cardinality(LeavesIn(new)) = 1
        /\ IsLeave(new[Len(new)])
    BY <1>1, <1>2, TopTypes, VisitsAndThen
  <1>4. scopes' \in Seq(Scopes) /\ Len(scopes') = Len(scopes) + 1 /\ Len(scopes) \in Nat
    BY <1>1, TopTypes, EnterAndLeave
  <1> HIDE DEF new
  <1>5. Len(scopes') = Len(scopes) + Cardinality(LeavesIn(new))
                        - (IF IsLeave(top) THEN 1 ELSE 0)
    BY <1>2, <1>3, <1>4
  <1> QED BY <1>1, <1>3, <1>4, <1>5, TopTypes, StepKeepsInvariant

(* Visit methods that neither enter nor leave a scope.                     *)
LEMMA PlainVisit ==
  ASSUME IInv, tasks # << >>, ~IsLeave(top), top.do # "visit" \/ node.kind # "unit",
         ast' = ast, NEW new \in Seq(Tasks), Cardinality(LeavesIn(new)) = 0,
         tasks' = new \o Tail(tasks),
         scopes' \in Seq(Scopes), Len(scopes') = Len(scopes),
         isField' \subseteq DOMAIN ast, errors' \subseteq DOMAIN ast,
         currentReturnType' \in {currentReturnType, "null"}
  PROVE  IInv'
  <1>1. Len(tasks) # 1
    BY InnerVisit
  <1>2. Len(scopes') = Len(scopes) + Cardinality(LeavesIn(new))
                        - (IF IsLeave(top) THEN 1 ELSE 0)
    <2>1. Len(scopes) \in Nat
      BY TopTypes
    <2> QED BY <2>1
  <1>3. top.do # "endFunction"
    BY DEF IsLeave
  <1> QED BY <1>1, <1>2, <1>3, StepKeepsInvariant

(* Visit methods that enter a scope, and leave a task that ends it.        *)
LEMMA EnteringVisit ==
  ASSUME IInv, tasks # << >>, ~IsLeave(top), ast' = ast,
         NEW do \in {"leave", "endFunction"},
         tasks' = (VisitAll(node.kids) \o <<Task(do, top.node)>>) \o Tail(tasks),
         scopes' \in Seq(Scopes), Len(scopes') = Len(scopes) + 1,
         isField' \subseteq DOMAIN ast, errors' \subseteq DOMAIN ast,
         \/ currentReturnType' = currentReturnType
         \/ currentReturnType' = "int" /\ do = "endFunction"
  PROVE  IInv'
  <1> DEFINE t == Task(do, top.node)
             new == VisitAll(node.kids) \o <<t>>
  <1>1. t \in Tasks /\ IsLeave(t) /\ t.do = do
    BY TaskTypes DEF Task
  <1>2. /\ new \in Seq(Tasks) /\ Cardinality(LeavesIn(new)) = 1
        /\ IsLeave(new[Len(new)])
        /\ Len(new) \in DOMAIN new /\ new[Len(new)].do = do
    BY <1>1, TopTypes, VisitsAndThen
  <1>3. tasks' = new \o Tail(tasks)
    OBVIOUS
  <1> HIDE DEF new
  <1>4. Len(scopes') = Len(scopes) + Cardinality(LeavesIn(new))
                        - (IF IsLeave(top) THEN 1 ELSE 0)
    <2>1. Len(scopes) \in Nat
      BY TopTypes
    <2> QED BY <1>2, <2>1
  <1>5. top.do # "endFunction"
    BY DEF IsLeave
  <1>6. \/ currentReturnType' = currentReturnType
        \/ /\ currentReturnType' = "int"
           /\ \E k \in DOMAIN new : new[k].do = "endFunction"
    BY <1>2
  <1> QED BY <1>2, <1>3, <1>4, <1>5, <1>6, StepKeepsInvariant

(* Visit methods that resume at the end of their scope.                    *)
LEMMA LeavingVisit ==
  ASSUME IInv, tasks # << >>, IsLeave(top), ast' = ast,
         tasks' = << >> \o Tail(tasks), scopes' = leaveScope(scopes),
         isField' = isField, errors' = errors,
         \/ currentReturnType' = "null"
         \/ currentReturnType' = currentReturnType /\ top.do # "endFunction"
  PROVE  IInv'
  <1>1. scopes' \in Seq(Scopes) /\ Len(scopes') = Len(scopes) - 1
    BY EndOfScope, EnterAndLeave
  <1>2. << >> \in Seq(Tasks) /\ Cardinality(LeavesIn(<< >>)) = 0
    BY NoTasks
  <1>3. Len(scopes') = Len(scopes) + Cardinality(LeavesIn(<< >>))
                        - (IF IsLeave(top) THEN 1 ELSE 0)
    <2>1. Len(scopes) \in Nat
      BY TopTypes
    <2> QED BY <1>1, <1>2, <2>1
  <1>4. isField' \subseteq DOMAIN ast /\ errors' \subseteq DOMAIN ast
    BY TopTypes
  <1> QED BY <1>1, <1>2, <1>3, <1>4, StepKeepsInvariant

(* A report, a declaration: what they are given is a node.                 *)
LEMMA ReportedTypes ==
  ASSUME IInv, tasks # << >>
  PROVE  Reported(scopes, node.name, top.node) \subseteq DOMAIN ast
  BY TopTypes DEF Reported

LEMMA VisitCompoundStmtKeeps == IInv /\ VisitCompoundStmt => IInv'
  <1> SUFFICES ASSUME IInv, VisitCompoundStmt PROVE IInv'
    OBVIOUS
  <1>1. /\ tasks # << >> /\ top.do = "visit" /\ ast' = ast
        /\ tasks' = (VisitAll(node.kids) \o <<Task("leave", top.node)>>) \o Tail(tasks)
        /\ scopes' = enterScope(scopes)
        /\ UNCHANGED <<currentReturnType, isField, errors>>
    BY DEF VisitCompoundStmt, Visiting, Doing, Continue
  <1>2. ~IsLeave(top)
    BY <1>1 DEF IsLeave
  <1>3. scopes' \in Seq(Scopes) /\ Len(scopes') = Len(scopes) + 1
    BY <1>1, TopTypes, EnterAndLeave
  <1>4. isField' \subseteq DOMAIN ast /\ errors' \subseteq DOMAIN ast
    BY <1>1, TopTypes
  <1> QED BY <1>1, <1>2, <1>3, <1>4, EnteringVisit

LEMMA VisitRecordDeclKeeps == IInv /\ VisitRecordDecl => IInv'
  <1> SUFFICES ASSUME IInv, VisitRecordDecl PROVE IInv'
    OBVIOUS
  <1> DEFINE declared == Declare(scopes, node.name, top.node)
             entered == enterScope(declared)
  <1>1. /\ tasks # << >> /\ top.do = "visit" /\ node.kind = "record" /\ ast' = ast
        /\ tasks' = (VisitAll(node.kids) \o <<Task("leave", top.node)>>) \o Tail(tasks)
        /\ scopes' = Declare(entered, "this", NoDecl)
        /\ errors' = Reported(scopes, node.name, top.node)
        /\ UNCHANGED <<currentReturnType, isField>>
    BY DEF VisitRecordDecl, Visiting, Doing, Continue
  <1>2. ~IsLeave(top)
    BY <1>1 DEF IsLeave
  <1>3. scopes \in Seq(Scopes) /\ scopes # << >>
    BY <1>1, <1>2, InnerVisit
  <1>4. declared \in Seq(Scopes) /\ Len(declared) = Len(scopes)
    BY <1>1, <1>3, TopTypes, DeclareTypes
  <1>5. entered \in Seq(Scopes) /\ Len(entered) = Len(scopes) + 1
    BY <1>4, EnterAndLeave
  <1>6. entered # << >>
    BY <1>3, <1>5, EmptySeq
  <1>7. scopes' \in Seq(Scopes) /\ Len(scopes') = Len(scopes) + 1
    BY <1>1, <1>5, <1>6, DeclareTypes
  <1>8. isField' \subseteq DOMAIN ast /\ errors' \subseteq DOMAIN ast
    BY <1>1, TopTypes, ReportedTypes
  <1> QED BY <1>1, <1>2, <1>7, <1>8, EnteringVisit

LEMMA VisitFunctionDeclKeeps == IInv /\ VisitFunctionDecl => IInv'
  <1> SUFFICES ASSUME IInv, VisitFunctionDecl PROVE IInv'
    OBVIOUS
  <1> DEFINE declared == Declare(scopes, node.name, top.node)
  <1>1. /\ tasks # << >> /\ top.do = "visit" /\ node.kind # "unit" /\ ast' = ast
        /\ errors' = Reported(scopes, node.name, top.node)
        /\ isField' = isField
    BY DEF VisitFunctionDecl, Visiting, Doing
  <1>2. ~IsLeave(top)
    BY <1>1 DEF IsLeave
  <1>3. scopes \in Seq(Scopes) /\ scopes # << >>
    BY <1>1, <1>2, InnerVisit
  <1>4. declared \in Seq(Scopes) /\ Len(declared) = Len(scopes)
    BY <1>1, <1>3, TopTypes, DeclareTypes
  <1>5. isField' \subseteq DOMAIN ast /\ errors' \subseteq DOMAIN ast
    BY <1>1, TopTypes, ReportedTypes
  <1>6. CASE node.kids = << >>
    <2>1. scopes' = declared /\ currentReturnType' = "null" /\ tasks' = << >> \o Tail(tasks)
      BY <1>6 DEF VisitFunctionDecl, Continue
    <2>2. currentReturnType' \in {currentReturnType, "null"}
      BY <2>1
    <2> QED BY <1>1, <1>2, <1>4, <1>5, <2>1, <2>2, NoTasks, PlainVisit
  <1>7. CASE node.kids # << >>
    <2>1. /\ scopes' = enterScope(declared) /\ currentReturnType' = "int"
          /\ tasks' = (VisitAll(node.kids) \o <<Task("endFunction", top.node)>>)
                        \o Tail(tasks)
      BY <1>7 DEF VisitFunctionDecl, Continue
    <2>2. scopes' \in Seq(Scopes) /\ Len(scopes') = Len(scopes) + 1
      BY <1>4, <2>1, EnterAndLeave
    <2> QED BY <1>1, <1>2, <1>5, <2>1, <2>2, EnteringVisit
  <1> QED BY <1>6, <1>7

LEMMA EndFunctionDeclKeeps == IInv /\ EndFunctionDecl => IInv'
  <1> SUFFICES ASSUME IInv, EndFunctionDecl PROVE IInv'
    OBVIOUS
  <1>1. /\ tasks # << >> /\ top.do = "endFunction" /\ ast' = ast
        /\ tasks' = << >> \o Tail(tasks) /\ scopes' = leaveScope(scopes)
        /\ isField' = isField /\ errors' = errors /\ currentReturnType' = "null"
    BY DEF EndFunctionDecl, Doing, Continue
  <1>2. IsLeave(top)
    BY <1>1 DEF IsLeave
  <1> QED BY <1>1, <1>2, LeavingVisit

LEMMA LeaveScopeKeeps == IInv /\ LeaveScope => IInv'
  <1> SUFFICES ASSUME IInv, LeaveScope PROVE IInv'
    OBVIOUS
  <1>1. /\ tasks # << >> /\ top.do = "leave" /\ ast' = ast
        /\ tasks' = << >> \o Tail(tasks) /\ scopes' = leaveScope(scopes)
        /\ isField' = isField /\ errors' = errors /\ currentReturnType' = currentReturnType
    BY DEF LeaveScope, Doing, Continue
  <1>2. IsLeave(top)
    BY <1>1 DEF IsLeave
  <1> QED BY <1>1, <1>2, LeavingVisit

LEMMA VisitFieldDeclKeeps == IInv /\ VisitFieldDecl => IInv'
  <1> SUFFICES ASSUME IInv, VisitFieldDecl PROVE IInv'
    OBVIOUS
  <1>1. /\ tasks # << >> /\ top.do = "visit" /\ node.kind = "field" /\ ast' = ast
        /\ tasks' = << >> \o Tail(tasks)
        /\ scopes' = Declare(scopes, node.name, top.node)
        /\ errors' = Reported(scopes, node.name, top.node)
        /\ UNCHANGED <<currentReturnType, isField>>
    BY DEF VisitFieldDecl, Visiting, Doing, Continue
  <1>2. ~IsLeave(top) /\ (top.do # "visit" \/ node.kind # "unit")
    BY <1>1 DEF IsLeave
  <1>3. scopes \in Seq(Scopes) /\ scopes # << >>
    BY <1>1, <1>2, InnerVisit
  <1>4. scopes' \in Seq(Scopes) /\ Len(scopes') = Len(scopes)
    BY <1>1, <1>3, TopTypes, DeclareTypes
  <1>5. isField' \subseteq DOMAIN ast /\ errors' \subseteq DOMAIN ast
    BY <1>1, TopTypes, ReportedTypes
  <1> QED BY <1>1, <1>2, <1>4, <1>5, NoTasks, PlainVisit

LEMMA DeclareVarKeeps == IInv /\ DeclareVar => IInv'
  <1> SUFFICES ASSUME IInv, DeclareVar PROVE IInv'
    OBVIOUS
  <1>1. /\ tasks # << >> /\ top.do = "declare" /\ ast' = ast
        /\ tasks' = << >> \o Tail(tasks)
        /\ scopes' = Declare(scopes, node.name, top.node)
        /\ errors' = Reported(scopes, node.name, top.node)
        /\ UNCHANGED <<currentReturnType, isField>>
    BY DEF DeclareVar, Visiting, Doing, Continue
  <1>2. ~IsLeave(top) /\ (top.do # "visit" \/ node.kind # "unit")
    BY <1>1 DEF IsLeave
  <1>3. scopes \in Seq(Scopes) /\ scopes # << >>
    BY <1>1, <1>2, InnerVisit
  <1>4. scopes' \in Seq(Scopes) /\ Len(scopes') = Len(scopes)
    BY <1>1, <1>3, TopTypes, DeclareTypes
  <1>5. isField' \subseteq DOMAIN ast /\ errors' \subseteq DOMAIN ast
    BY <1>1, TopTypes, ReportedTypes
  <1> QED BY <1>1, <1>2, <1>4, <1>5, NoTasks, PlainVisit

LEMMA VisitVarDeclKeeps == IInv /\ VisitVarDecl => IInv'
  <1> SUFFICES ASSUME IInv, VisitVarDecl PROVE IInv'
    OBVIOUS
  <1> DEFINE t == Task("declare", top.node)
             new == VisitAll(node.kids) \o <<t>>
  <1>1. /\ tasks # << >> /\ top.do = "visit" /\ node.kind = "vardecl" /\ ast' = ast
        /\ tasks' = new \o Tail(tasks)
        /\ UNCHANGED <<scopes, currentReturnType, isField, errors>>
    BY DEF VisitVarDecl, Visiting, Doing, Continue
  <1>2. ~IsLeave(top) /\ t \in Tasks /\ ~IsLeave(t)
    BY <1>1, TaskTypes DEF IsLeave
  <1>3. new \in Seq(Tasks) /\ Cardinality(LeavesIn(new)) = 0
    BY <1>1, <1>2, TopTypes, VisitsAndThen
  <1> HIDE DEF new
  <1>4. /\ scopes' \in Seq(Scopes) /\ Len(scopes') = Len(scopes)
        /\ isField' \subseteq DOMAIN ast /\ errors' \subseteq DOMAIN ast
    BY <1>1, TopTypes
  <1> QED BY <1>1, <1>2, <1>3, <1>4, PlainVisit

LEMMA VisitReturnStmtKeeps == IInv /\ VisitReturnStmt => IInv'
  <1> SUFFICES ASSUME IInv, VisitReturnStmt PROVE IInv'
    OBVIOUS
  <1>1. /\ tasks # << >> /\ top.do = "visit" /\ node.kind = "return" /\ ast' = ast
        /\ tasks' = VisitAll(node.kids) \o Tail(tasks)
        /\ errors' \subseteq errors \cup {top.node} /\ isField' = isField
        /\ UNCHANGED <<scopes, currentReturnType>>
    BY DEF VisitReturnStmt, Visiting, Doing, Continue
  <1>2. ~IsLeave(top)
    BY <1>1 DEF IsLeave
  <1>3. VisitAll(node.kids) \in Seq(Tasks) /\ Cardinality(LeavesIn(VisitAll(node.kids))) = 0
    BY <1>1, TopTypes, LeavesOfVisits
  <1>4. /\ scopes' \in Seq(Scopes) /\ Len(scopes') = Len(scopes)
        /\ isField' \subseteq DOMAIN ast /\ errors' \subseteq DOMAIN ast
    BY <1>1, TopTypes
  <1> QED BY <1>1, <1>2, <1>3, <1>4, PlainVisit

LEMMA VisitVariableExprKeeps == IInv /\ VisitVariableExpr => IInv'
  <1> SUFFICES ASSUME IInv, VisitVariableExpr PROVE IInv'
    OBVIOUS
  <1>1. /\ tasks # << >> /\ top.do = "visit" /\ node.kind = "variable" /\ ast' = ast
        /\ tasks' = << >> \o Tail(tasks)
        /\ errors' \subseteq errors \cup {top.node} /\ isField' \subseteq isField \cup {top.node}
        /\ UNCHANGED <<scopes, currentReturnType>>
    BY DEF VisitVariableExpr, Visiting, Doing, Continue
  <1>2. ~IsLeave(top)
    BY <1>1 DEF IsLeave
  <1>3. << >> \in Seq(Tasks) /\ Cardinality(LeavesIn(<< >>)) = 0
    BY <1>1, TopTypes, NoTasks
  <1>4. /\ scopes' \in Seq(Scopes) /\ Len(scopes') = Len(scopes)
        /\ isField' \subseteq DOMAIN ast /\ errors' \subseteq DOMAIN ast
    BY <1>1, TopTypes
  <1> QED BY <1>1, <1>2, <1>3, <1>4, PlainVisit

LEMMA VisitChildrenKeeps == IInv /\ VisitChildren => IInv'
  <1> SUFFICES ASSUME IInv, VisitChildren PROVE IInv'
    OBVIOUS
  <1>1. /\ tasks # << >> /\ top.do = "visit" /\ node.kind # "unit" /\ ast' = ast
        /\ tasks' = VisitAll(node.kids) \o Tail(tasks)
        /\ errors' = errors /\ isField' = isField
        /\ UNCHANGED <<scopes, currentReturnType>>
    BY DEF VisitChildren, Visiting, Doing, Continue
  <1>2. ~IsLeave(top)
    BY <1>1 DEF IsLeave
  <1>3. VisitAll(node.kids) \in Seq(Tasks) /\ Cardinality(LeavesIn(VisitAll(node.kids))) = 0
    BY <1>1, TopTypes, LeavesOfVisits
  <1>4. /\ scopes' \in Seq(Scopes) /\ Len(scopes') = Len(scopes)
        /\ isField' \subseteq DOMAIN ast /\ errors' \subseteq DOMAIN ast
    BY <1>1, TopTypes
  <1> QED BY <1>1, <1>2, <1>3, <1>4, PlainVisit

-----------------------------------------------------------------------------
LEMMA NextKeeps == IInv /\ [Next]_semaVars => IInv'
  <1> SUFFICES ASSUME IInv, [Next]_semaVars PROVE IInv'
    OBVIOUS
  <1>1. CASE Next
    BY <1>1, VisitTranslationUnitKeeps, VisitFunctionDeclKeeps, EndFunctionDeclKeeps,
       VisitFieldDeclKeeps, VisitRecordDeclKeeps, VisitVarDeclKeeps, DeclareVarKeeps,
       VisitCompoundStmtKeeps, VisitReturnStmtKeeps, VisitVariableExprKeeps,
       VisitChildrenKeeps, LeaveScopeKeeps DEF Next
  <1>2. CASE UNCHANGED semaVars
    BY <1>2 DEF semaVars, IInv, TypeOK, Balanced, LeavesIn
  <1> QED BY <1>1, <1>2

LEMMA Invariant == Spec => []IInv
  <1>1. Init => IInv
    BY InitEstablishes
  <1>2. IInv /\ [Next]_semaVars => IInv'
    BY NextKeeps
  <1> QED BY <1>1, <1>2, PTL DEF Spec

(* Types: nodes declared, reported and resolved are nodes of the tree, and *)
(* currentReturnType is set only inside of a function body.                *)
THEOREM AnalyzerTypeCorrect == Spec => []TypeOK
  <1>1. IInv => TypeOK
    BY DEF IInv
  <1> QED BY <1>1, Invariant, PTL

(* enterScope and leaveScope are called in pairs on every path through the *)
(* visit methods: currentScope is null only before and after the analysis. *)
THEOREM ScopesAreBalanced == Spec => []ScopesBalanced
  <1>1. IInv => ScopesBalanced
    <2> SUFFICES ASSUME IInv PROVE ScopesBalanced
      OBVIOUS
    <2>1. tasks \in Seq(Tasks)
      BY DEF IInv, TypeOK, Tasks
    <2>2. Leaves = LeavesIn(tasks)
      BY DEF Leaves, LeavesIn, IsLeave
    <2>3. Cardinality(Leaves) = Len(scopes)
      BY <2>2 DEF IInv, Balanced
    <2>4. ASSUME NEW k \in DOMAIN tasks, tasks[k] # Visit(1)
          PROVE  \E j \in Leaves : k <= j
      <3>1. k \in 1..Len(tasks) /\ Len(tasks) \in Nat
        BY <2>1
      <3>2. tasks # << >> /\ tasks # <<Visit(1)>>
        <4>1. tasks # << >>
          BY <3>1
        <4>2. tasks # <<Visit(1)>>
          BY <2>4
        <4> QED BY <4>1, <4>2
      <3>3. IsLeave(tasks[Len(tasks)])
        BY <3>2, ScopeAround
      <3>4. Len(tasks) \in Leaves
        BY <2>2, <3>1, <3>3 DEF LeavesIn
      <3> QED BY <3>1, <3>4
    <2> QED BY <2>3, <2>4 DEF ScopesBalanced
  <1> QED BY <1>1, Invariant, PTL
-----------------------------------------------------------------------------
(* The tree by its numbers.  p is around n when no node after p, up to n,  *)
(* is the child of a node before p.                                        *)
Enclosing(n) == {p \in 1..(n - 1) : \A m \in (p + 1)..n : Parent(m) >= p}

LEMMA LeastOf ==
  ASSUME NEW T, T \subseteq Nat, T # {}
  PROVE  \E m \in T : \A k \in T : m <= k
  <1>1. PICK x \in T : \A y \in T : ~(<<y, x>> \in OpToRel(<, Nat))
    BY WFMin, NatLessThanWellFounded, Zenon
  <1>2. \A y \in T : ~(y < x)
    BY <1>1, Zenon DEF OpToRel
  <1> QED BY <1>2

LEMMA GreatestOf ==
  ASSUME NEW n \in Nat, NEW T, T \subseteq 0..n, T # {}
  PROVE  \E m \in T : \A k \in T : k <= m
  <1> DEFINE F == {k \in 0..n : n - k \in T}
  <1>1. F \subseteq Nat /\ F # {}
    <2>1. PICK t \in T : TRUE
      OBVIOUS
    <2>2. n - t \in 0..n /\ n - (n - t) = t
      BY <2>1
    <2> QED BY <2>1, <2>2
  <1>2. PICK m \in F : \A k \in F : m <= k
    <2> HIDE DEF F
    <2> QED BY <1>1, LeastOf
  <1>3. n - m \in T /\ \A k \in T : k <= n - m
    <2> SUFFICES ASSUME NEW k \in T PROVE k <= n - m
      BY <1>2
    <2>1. k \in 0..n /\ n - k \in 0..n /\ n - (n - k) = k
      OBVIOUS
    <2>2. n - k \in F
      BY <2>1
    <2>3. m <= n - k /\ m \in Nat
      BY <1>2, <2>2
    <2> QED BY ONLY <2>1, <2>3, n \in Nat
  <1> QED BY <1>3

LEMMA NodesOf ==
  ASSUME ast \in Trees(Names)
  PROVE  Len(ast) \in Nat \ {0} /\ DOMAIN ast = 1..Len(ast)
  <1>1. ast \in Seq(Nodes(Names)) /\ ast # << >>
    BY TreeTypes
  <1> QED BY <1>1, EmptySeq, LenProperties

LEMMA ParentOf ==
  ASSUME ast \in Trees(Names)
  PROVE  /\ \A n \in 2..Len(ast) :
              Parent(n) \in 1..(n - 1) /\ n \in KidsOf(ast, Parent(n))
         /\ \A p \in DOMAIN ast : \A c \in KidsOf(ast, p) :
              c \in (p + 1)..Len(ast) /\ Parent(c) = p
         /\ \A n \in 2..Len(ast) : \A m \in (Parent(n) + 1)..n : Parent(m) >= Parent(n)
  <1>1. Len(ast) \in Nat \ {0} /\ DOMAIN ast = 1..Len(ast)
    BY NodesOf
  <1>2. \A p \in DOMAIN ast : \A c \in KidsOf(ast, p) : c \in (p + 1)..Len(ast)
    BY DEF Trees, IsTree, KidsOf, Kid
  <1>3. \A n \in 2..Len(ast) : \E p \in 1..(n - 1) :
          /\ n \in KidsOf(ast, p)
          /\ \A q \in 1..(n - 1) : n \in KidsOf(ast, q) => q = p
    BY Zenon DEF Trees, IsTree
  <1>4. \A p \in DOMAIN ast : \A c \in KidsOf(ast, p) : \A n \in (p + 1)..(c - 1) :
          \E q \in p..(n - 1) : n \in KidsOf(ast, q)
    BY Zenon DEF Trees, IsTree
  <1>5. ASSUME NEW p \in DOMAIN ast, NEW c \in KidsOf(ast, p)
        PROVE  Parent(c) = p
    <2>1. c \in 2..Len(ast) /\ p \in 1..(c - 1)
      BY <1>1, <1>2
    <2>2. \A q \in DOMAIN ast : c \in KidsOf(ast, q) => q \in 1..(c - 1)
      BY <1>1, <1>2
    <2>3. \A q \in DOMAIN ast : c \in KidsOf(ast, q) => q = p
      BY <1>3, <2>1, <2>2
    <2> QED BY <2>3 DEF Parent
  <1>6. ASSUME NEW n \in 2..Len(ast)
        PROVE  Parent(n) \in 1..(n - 1) /\ n \in KidsOf(ast, Parent(n))
    <2>1. PICK p \in 1..(n - 1) : n \in KidsOf(ast, p)
      BY <1>3
    <2>2. p \in DOMAIN ast
      BY <1>1, <2>1
    <2> QED BY <1>5, <2>1, <2>2
  <1>7. ASSUME NEW n \in 2..Len(ast), NEW m \in (Parent(n) + 1)..n
        PROVE  Parent(m) >= Parent(n)
    <2>1. Parent(n) \in DOMAIN ast /\ n \in KidsOf(ast, Parent(n)) /\ Parent(n) \in Nat
      BY <1>1, <1>6
    <2>2. CASE m = n
      BY <2>1, <2>2
    <2>3. CASE m # n
      <3>1. m \in (Parent(n) + 1)..(n - 1)
        BY <2>1, <2>3
      <3>2. PICK q \in Parent(n)..(m - 1) : m \in KidsOf(ast, q)
        BY <1>4, <2>1, <3>1
      <3>3. q \in DOMAIN ast
        BY <1>1, <2>1, <3>1, <3>2
      <3> QED BY <1>5, <2>1, <3>2, <3>3
    <2> QED BY <2>2, <2>3
  <1> QED BY <1>2, <1>5, <1>6, <1>7

LEMMA EnclosingNodes ==
  ASSUME ast \in Trees(Names), NEW n \in DOMAIN ast
  PROVE  /\ Enclosing(n) \subseteq 1..(n - 1) /\ n \in Nat /\ n >= 1
         /\ n = 1 => Enclosing(n) = {}
         /\ n # 1 => /\ n \in 2..Len(ast) /\ Parent(n) \in DOMAIN ast /\ 1 \in Enclosing(n)
                     /\ Enclosing(n) = {Parent(n)} \cup Enclosing(Parent(n))
         /\ \A p \in Enclosing(n) : p \in DOMAIN ast /\ Enclosing(p) \subseteq Enclosing(n)
         /\ \A p, q \in Enclosing(n) : p < q => p \in Enclosing(q)
  <1>1. Len(ast) \in Nat \ {0} /\ DOMAIN ast = 1..Len(ast) /\ n \in 1..Len(ast)
    BY NodesOf
  <1>2. \A k \in 2..Len(ast) : Parent(k) \in 1..(k - 1)
    BY ParentOf
  <1>3. Enclosing(n) \subseteq 1..(n - 1) /\ (n = 1 => Enclosing(n) = {})
    BY <1>1 DEF Enclosing
  <1>4. \A p \in Enclosing(n) : p \in DOMAIN ast
    BY <1>1, <1>3
  <1>5. ASSUME n # 1
        PROVE  /\ n \in 2..Len(ast) /\ Parent(n) \in DOMAIN ast /\ 1 \in Enclosing(n)
               /\ Enclosing(n) = {Parent(n)} \cup Enclosing(Parent(n))
    <2>1. n \in 2..Len(ast)
      BY <1>1, <1>5
    <2>2. Parent(n) \in 1..(n - 1) /\ \A m \in (Parent(n) + 1)..n : Parent(m) >= Parent(n)
      BY <2>1, ParentOf
    <2>3. Parent(n) \in Enclosing(n) /\ Parent(n) \in DOMAIN ast
      BY <1>1, <2>1, <2>2 DEF Enclosing
    <2>4. \A m \in 2..n : Parent(m) >= 1
      BY <1>1, <1>2
    <2>5. 1 \in Enclosing(n)
      BY <2>1, <2>4 DEF Enclosing
    <2>6. ASSUME NEW p \in Enclosing(n), p # Parent(n)
          PROVE  p \in Enclosing(Parent(n))
      <3>1. p \in 1..(n - 1) /\ \A m \in (p + 1)..n : Parent(m) >= p
        BY DEF Enclosing
      <3>2. Parent(n) >= p
        BY <2>1, <3>1
      <3>3. p \in 1..(Parent(n) - 1)
        BY <2>2, <2>6, <3>1, <3>2
      <3>4. \A m \in (p + 1)..Parent(n) : m \in (p + 1)..n
        BY <2>1, <2>2, <3>1
      <3> QED BY <3>1, <3>3, <3>4 DEF Enclosing
    <2>7. ASSUME NEW p \in Enclosing(Parent(n))
          PROVE  p \in Enclosing(n)
      <3>1. p \in 1..(Parent(n) - 1) /\ \A m \in (p + 1)..Parent(n) : Parent(m) >= p
        BY DEF Enclosing
      <3>2. ASSUME NEW m \in (p + 1)..n PROVE Parent(m) >= p
        <4>1. CASE m <= Parent(n)
          BY <2>2, <3>1, <4>1
        <4>2. CASE m > Parent(n)
          <5>1. m \in (Parent(n) + 1)..n /\ m \in 2..Len(ast)
            BY <1>1, <2>1, <2>2, <3>1, <4>2
          <5>2. Parent(m) >= Parent(n) /\ Parent(m) \in Nat
            BY <1>2, <2>2, <5>1
          <5> QED BY <2>2, <3>1, <5>2
        <4> QED BY <2>1, <2>2, <3>1, <4>1, <4>2
      <3>3. p \in 1..(n - 1)
        BY <2>1, <2>2, <3>1
      <3> QED BY <3>2, <3>3 DEF Enclosing
    <2> QED BY <2>1, <2>3, <2>5, <2>6, <2>7
  <1>6. ASSUME NEW q \in Enclosing(n), NEW p \in Enclosing(q)
        PROVE  p \in Enclosing(n)
    <2>1. q \in 1..(n - 1) /\ \A m \in (q + 1)..n : Parent(m) >= q
      BY DEF Enclosing
    <2>2. p \in 1..(q - 1) /\ \A m \in (p + 1)..q : Parent(m) >= p
      BY DEF Enclosing
    <2>3. ASSUME NEW m \in (p + 1)..n PROVE Parent(m) >= p
      <3>1. CASE m <= q
        BY <2>1, <2>2, <3>1
      <3>2. CASE m > q
        <4>1. m \in (q + 1)..n /\ m \in 2..Len(ast)
          BY <1>1, <2>1, <2>2, <3>2
        <4>2. Parent(m) >= q /\ Parent(m) \in Nat
          BY <1>2, <2>1, <4>1
        <4> QED BY <2>1, <2>2, <4>2
      <3> QED BY <1>1, <2>1, <2>2, <3>1, <3>2
    <2> QED BY <1>1, <2>1, <2>2, <2>3 DEF Enclosing
  <1>7. ASSUME NEW p \in Enclosing(n), NEW q \in Enclosing(n), p < q
        PROVE  p \in Enclosing(q)
    BY <1>1, <1>7 DEF Enclosing
  <1> QED BY <1>1, <1>3, <1>4, <1>5, <1>6, <1>7

(* What lies below n is a child of it, or lies below one.                  *)
LEMMA ChildAbove ==
  ASSUME ast \in Trees(Names), NEW m \in DOMAIN ast, NEW n \in Enclosing(m)
  PROVE  \E k \in KidsOf(ast, n) : k = m \/ k \in Enclosing(m)
  <1> DEFINE F == {q \in (n + 1)..m : q = m \/ q \in Enclosing(m)}
  <1>1. /\ n \in 1..(m - 1) /\ m \in Nat
        /\ \A q \in (n + 1)..m : Parent(q) >= n
    BY EnclosingNodes DEF Enclosing
  <1>2. F \subseteq Nat /\ m \in F
    BY <1>1
  <1>3. PICK k \in F : \A q \in F : k <= q
    <2> HIDE DEF F
    <2> QED BY <1>2, LeastOf
  <1>4. /\ k \in DOMAIN ast /\ k # 1 /\ k \in (n + 1)..m
        /\ k = m \/ k \in Enclosing(m)
    BY <1>1, <1>3, EnclosingNodes
  <1>5. Parent(k) \in Enclosing(k) /\ Enclosing(k) \subseteq Enclosing(m)
        /\ k \in 2..Len(ast)
    BY <1>4, EnclosingNodes
  <1>6. Parent(k) \in 1..(k - 1) /\ k \in KidsOf(ast, Parent(k))
    BY <1>5, ParentOf
  <1>7. Parent(k) = n
    <2>1. Parent(k) >= n
      BY <1>1, <1>4
    <2>2. Parent(k) > n => Parent(k) \in F
      BY <1>1, <1>4, <1>5, <1>6
    <2>3. Parent(k) \notin F
      <3> HIDE DEF F
      <3> QED BY <1>3, <1>4, <1>6
    <2> QED BY <1>1, <1>6, <2>1, <2>2, <2>3
  <1> QED BY <1>4, <1>6, <1>7

LEMMA AroundIsEnclosing ==
  ASSUME ast \in Trees(Names)
  PROVE  \A n \in DOMAIN ast : Around[n] = Enclosing(n)
  <1> DEFINE F(h) == [n \in DOMAIN ast |-> IF n = 1 THEN {} ELSE {Parent(n)} \cup h[Parent(n)]]
             g == [n \in DOMAIN ast |-> Enclosing(n)]
  <1>1. \A n \in DOMAIN ast : g[n] = F(g)[n]
    <2> SUFFICES ASSUME NEW n \in DOMAIN ast PROVE g[n] = F(g)[n]
      OBVIOUS
    <2>1. n = 1 => Enclosing(n) = {}
      BY EnclosingNodes
    <2>2. n # 1 => /\ Enclosing(n) = {Parent(n)} \cup Enclosing(Parent(n))
                   /\ Parent(n) \in DOMAIN ast
      BY EnclosingNodes
    <2> QED BY <2>1, <2>2
  <1>2. g = F(g)
    <2>1. g = [n \in DOMAIN ast |-> g[n]] /\ F(g) = [n \in DOMAIN ast |-> F(g)[n]]
      OBVIOUS
    <2> HIDE DEF F, g
    <2> QED BY <1>1, <2>1
  <1>3. Around = CHOOSE h : h = F(h)
    BY DEF Around
  <1>4. Around = F(Around)
    <2> HIDE DEF F, g
    <2> QED BY <1>2, <1>3
  <1>5. \A n \in DOMAIN ast : Around[n] = IF n = 1 THEN {} ELSE {Parent(n)} \cup Around[Parent(n)]
    <2>1. \A n \in DOMAIN ast : F(Around)[n] = IF n = 1 THEN {} ELSE {Parent(n)} \cup Around[Parent(n)]
      OBVIOUS
    <2> HIDE DEF F
    <2> QED BY <1>4, <2>1
  <1> DEFINE B == {n \in DOMAIN ast : Around[n] # Enclosing(n)}
  <1>6. SUFFICES ASSUME B # {} PROVE FALSE
    OBVIOUS
  <1>7. B \subseteq Nat
    BY NodesOf
  <1>8. PICK n \in B : \A k \in B : n <= k
    <2> HIDE DEF B
    <2> QED BY <1>6, <1>7, LeastOf
  <1>9. n # 1
    BY <1>5, <1>8, EnclosingNodes
  <1>10. /\ Parent(n) \in DOMAIN ast /\ n \in 2..Len(ast)
         /\ Enclosing(n) = {Parent(n)} \cup Enclosing(Parent(n))
    BY <1>8, <1>9, EnclosingNodes
  <1>11. Parent(n) \in 1..(n - 1)
    BY <1>10, ParentOf
  <1>12. Parent(n) \notin B
    <2> HIDE DEF B
    <2> QED BY <1>7, <1>8, <1>10, <1>11
  <1> QED BY <1>5, <1>8, <1>9, <1>10, <1>12
-----------------------------------------------------------------------------
(* The walk.  The visits come in the order of the nodes: c of them have    *)
(* begun, and what a list ts of tasks holds is in the order of the tree.   *)

(* The task that ends the visit of a node, of the kinds that have one.     *)
Ending(n) ==
  IF ast[n].kind \in {"unit", "record", "compound"} THEN "leave"
  ELSE IF ast[n].kind \in {"function", "method"} THEN "endFunction" ELSE "declare"
Ends(n) == Scoping(n) \/ ast[n].kind = "vardecl"
EndOf(n) == Task(Ending(n), n)
TasksOf(n) == VisitAll(ast[n].kids) \o (IF Ends(n) THEN <<EndOf(n)>> ELSE << >>)

(* What is ahead has a parent that was visited, and what is to be ended    *)
(* is around all that was visited since.                                   *)
Started(t, c) ==
  IF t.do = "visit"
  THEN t.node > c /\ (t.node # 1 => Parent(t.node) <= c)
  ELSE /\ t.node <= c /\ Ends(t.node) /\ t = EndOf(t.node)
       /\ \A m \in (t.node + 1)..c : Parent(m) >= t.node
Follows(s, t) ==
  IF t.do = "visit"
  THEN s.do = "visit" => s.node < t.node
  ELSE t.node \in Enclosing(s.node)
Covered(ts, c) ==
  \A m \in (c + 1)..Len(ast) : \E i \in 1..Len(ts) :
    ts[i].do = "visit" /\ (ts[i].node = m \/ ts[i].node \in Enclosing(m))
EndsBehind(ts) ==
  \A i \in 1..Len(ts) : \A p \in Enclosing(ts[i].node) :
    Ends(p) => \E j \in (i + 1)..Len(ts) : ts[j] = EndOf(p)
Walk(ts, c) ==
  /\ c \in 0..Len(ast)
  /\ \A i \in 1..Len(ts) : Started(ts[i], c)
  /\ \A j \in 1..Len(ts) : \A i \in 1..(j - 1) : Follows(ts[i], ts[j])
  /\ Covered(ts, c)
  /\ EndsBehind(ts)

LEMMA EndingKinds ==
  ASSUME NEW n
  PROVE  /\ EndOf(n).node = n /\ EndOf(n).do = Ending(n)
         /\ Ending(n) \in {"leave", "endFunction", "declare"}
         /\ Ends(n) => (IsLeave(EndOf(n)) <=> Scoping(n))
         /\ Ends(n) => (EndOf(n) = Task("declare", n) <=> ast[n].kind = "vardecl")
  BY DEF EndOf, Task, Ending, Ends, Scoping, IsLeave

LEMMA KidsInOrder ==
  ASSUME ast \in Trees(Names), NEW n \in DOMAIN ast
  PROVE  /\ ast[n].kids \in Seq(DOMAIN ast) /\ Len(ast[n].kids) \in Nat
         /\ \A j \in 1..Len(ast[n].kids) :
              ast[n].kids[j] \in KidsOf(ast, n) /\ ast[n].kids[j] \in DOMAIN ast
         /\ \A k \in KidsOf(ast, n) : \E j \in 1..Len(ast[n].kids) : k = ast[n].kids[j]
         /\ \A j \in 1..Len(ast[n].kids) : \A i \in 1..(j - 1) :
              ast[n].kids[i] < ast[n].kids[j]
  <1> DEFINE ks == ast[n].kids
  <1>1. ks \in Seq(DOMAIN ast)
    BY TreeTypes
  <1>2. Len(ks) \in Nat /\ DOMAIN ks = 1..Len(ks) /\ \A j \in 1..Len(ks) : ks[j] \in DOMAIN ast
    <2> HIDE DEF ks
    <2> QED BY <1>1, LenProperties, ElementOfSeq
  <1>3. DOMAIN ast \subseteq Nat
    BY NodesOf
  <1>4. \A k \in DOMAIN ks : k > 1 => ks[k - 1] < ks[k]
    BY Zenon DEF Trees, IsTree, Kid
  <1>5. ASSUME NEW j \in 1..Len(ks), NEW i \in 1..(j - 1)
        PROVE  ks[i] < ks[j]
    <2> DEFINE F == {l \in (i + 1)..Len(ks) : ~(ks[i] < ks[l])}
    <2>1. SUFFICES ASSUME F # {} PROVE FALSE
      BY <1>2
    <2>2. F \subseteq Nat
      BY <1>2
    <2>3. PICK l \in F : \A m \in F : l <= m
      <3> HIDE DEF F
      <3> QED BY <2>1, <2>2, LeastOf
    <2>4. l \in DOMAIN ks /\ l > 1 /\ l - 1 \in DOMAIN ks /\ i \in DOMAIN ks
      BY <1>2, <2>3
    <2>5. ks[l - 1] < ks[l] /\ ks[l - 1] \in Nat /\ ks[l] \in Nat /\ ks[i] \in Nat
      <3>1. ks[l - 1] < ks[l]
        <4> HIDE DEF ks, F
        <4> QED BY <1>4, <2>4
      <3>2. ks[l - 1] \in Nat /\ ks[l] \in Nat /\ ks[i] \in Nat
        <4> HIDE DEF ks, F
        <4> QED BY <1>2, <1>3, <2>4
      <3> QED BY <3>1, <3>2
    <2>6. ks[i] <= ks[l - 1]
      <3>1. CASE l - 1 = i
        <4> HIDE DEF ks, F
        <4> QED BY <2>5, <3>1
      <3>2. CASE l - 1 # i
        <4>1. l - 1 \in (i + 1)..Len(ks) /\ l - 1 < l
          BY <1>2, <2>3, <3>2
        <4>2. l - 1 \notin F
          <5> HIDE DEF F, ks
          <5> QED BY <2>2, <2>3, <4>1
        <4>3. ks[i] < ks[l - 1]
          BY <4>1, <4>2
        <4> HIDE DEF ks, F
        <4> QED BY <2>5, <4>3
      <3> QED BY <3>1, <3>2
    <2>7. ~(ks[i] < ks[l])
      BY <2>3
    <2> HIDE DEF ks, F
    <2> QED BY <2>5, <2>6, <2>7
  <1> QED BY <1>1, <1>2, <1>5 DEF KidsOf

LEMMA ConcatPlaces ==
  ASSUME NEW T, NEW ss \in Seq(T), NEW ts \in Seq(T)
  PROVE  /\ ss \o ts \in Seq(T) /\ Len(ss \o ts) = Len(ss) + Len(ts)
         /\ Len(ss) \in Nat /\ Len(ts) \in Nat
         /\ \A i \in 1..Len(ss) : (ss \o ts)[i] = ss[i]
         /\ \A i \in 1..Len(ts) : (ss \o ts)[Len(ss) + i] = ts[i]
  <1>1. Len(ss) \in Nat /\ Len(ts) \in Nat
    OBVIOUS
  <1>2. ss \o ts \in Seq(T) /\ Len(ss \o ts) = Len(ss) + Len(ts)
    OBVIOUS
  <1>3. \A i \in 1..Len(ss) : (ss \o ts)[i] = ss[i]
    BY <1>1
  <1>4. ASSUME NEW i \in 1..Len(ts)
        PROVE  (ss \o ts)[Len(ss) + i] = ts[i]
    BY <1>1
  <1> QED BY <1>1, <1>2, <1>3, <1>4

(* The tasks that a visit adds.                                            *)
LEMMA TasksOfNode ==
  ASSUME ast \in Trees(Names), NEW n \in DOMAIN ast
  PROVE  /\ TasksOf(n) \in Seq(Tasks) /\ Len(TasksOf(n)) \in Nat
         /\ \A i \in 1..Len(TasksOf(n)) :
              \/ \E k \in KidsOf(ast, n) : TasksOf(n)[i] = Visit(k)
              \/ Ends(n) /\ TasksOf(n)[i] = EndOf(n)
         /\ \A k \in KidsOf(ast, n) : \E i \in 1..Len(TasksOf(n)) : TasksOf(n)[i] = Visit(k)
         /\ Ends(n) => /\ Len(TasksOf(n)) > 0 /\ TasksOf(n)[Len(TasksOf(n))] = EndOf(n)
                       /\ \A i \in 1..Len(TasksOf(n)) :
                            TasksOf(n)[i] # EndOf(n) => i < Len(TasksOf(n))
         /\ \A j \in 1..Len(TasksOf(n)) : \A i \in 1..(j - 1) :
              /\ \E k \in KidsOf(ast, n) :
                   /\ TasksOf(n)[i] = Visit(k)
                   /\ \A l \in KidsOf(ast, n) : TasksOf(n)[j] = Visit(l) => k < l
  <1> DEFINE ks == ast[n].kids
             vs == VisitAll(ks)
             es == IF Ends(n) THEN <<EndOf(n)>> ELSE << >>
             new == vs \o es
  <1>1. /\ ks \in Seq(DOMAIN ast) /\ Len(ks) \in Nat
        /\ \A j \in 1..Len(ks) : ks[j] \in KidsOf(ast, n) /\ ks[j] \in DOMAIN ast
        /\ \A k \in KidsOf(ast, n) : \E j \in 1..Len(ks) : k = ks[j]
        /\ \A j \in 1..Len(ks) : \A i \in 1..(j - 1) : ks[i] < ks[j]
    BY KidsInOrder
  <1>2. /\ vs \in Seq(Tasks) /\ Len(vs) = Len(ks)
        /\ \A j \in 1..Len(ks) : vs[j] = Visit(ks[j])
    <2>1. vs \in Seq(Tasks)
      BY <1>1, LeavesOfVisits
    <2>2. DOMAIN vs = 1..Len(ks) /\ \A j \in 1..Len(ks) : vs[j] = Visit(ks[j])
      BY <1>1 DEF VisitAll
    <2> HIDE DEF vs
    <2> QED BY <1>1, <2>1, <2>2, LenProperties
  <1>3. /\ es \in Seq(Tasks)
        /\ Ends(n) => Len(es) = 1 /\ es[1] = EndOf(n)
        /\ ~Ends(n) => Len(es) = 0
    <2>1. EndOf(n) \in Tasks
      BY EndingKinds DEF EndOf, Task, Tasks
    <2> QED BY <2>1
  <1>4. /\ new \in Seq(Tasks) /\ Len(new) = Len(ks) + Len(es)
        /\ \A i \in 1..Len(ks) : new[i] = Visit(ks[i])
        /\ Ends(n) => new[Len(ks) + 1] = EndOf(n)
    <2> HIDE DEF vs, es, ks
    <2>1. /\ new \in Seq(Tasks) /\ Len(new) = Len(vs) + Len(es)
          /\ \A i \in 1..Len(vs) : new[i] = vs[i]
          /\ \A i \in 1..Len(es) : new[Len(vs) + i] = es[i]
      BY ONLY <1>2, <1>3, ConcatPlaces
    <2> HIDE DEF new
    <2>2. ASSUME Ends(n) PROVE new[Len(vs) + 1] = es[1]
      <3>1. 1 \in 1..Len(es)
        BY <1>3, <2>2
      <3> QED BY <2>1, <3>1
    <2> QED BY <1>1, <1>2, <1>3, <2>1, <2>2
  <1>5. TasksOf(n) = new
    BY DEF TasksOf
  <1>6. \A k : Visit(k).node = k /\ Visit(k) # EndOf(n)
    BY EndingKinds DEF Visit, Task
  <1> HIDE DEF new, ks, vs, es
  <1>7. /\ Len(new) \in Nat
        /\ Ends(n) => Len(new) = Len(ks) + 1
        /\ ~Ends(n) => Len(new) = Len(ks)
    <2>1. Len(ks) \in Nat /\ Len(new) = Len(ks) + Len(es)
      BY <1>1, <1>4
    <2>2. (Ends(n) => Len(es) = 1) /\ (~Ends(n) => Len(es) = 0)
      BY <1>3
    <2>3. CASE Ends(n)
      <3>1. Len(es) = 1
        BY <2>2, <2>3
      <3> QED BY <2>1, <2>3, <3>1
    <2>4. CASE ~Ends(n)
      <3>1. Len(es) = 0
        BY <2>2, <2>4
      <3>2. Len(new) = Len(ks)
        BY ONLY <2>1, <3>1
      <3> QED BY <2>1, <2>4, <3>2
    <2> QED BY <2>3, <2>4
  <1>8. \A i \in 1..Len(new) : i \in 1..Len(ks) \/ (Ends(n) /\ i = Len(ks) + 1)
    BY <1>1, <1>7
  <1>9. \A k \in KidsOf(ast, n) : \E i \in 1..Len(new) : new[i] = Visit(k)
    BY <1>1, <1>4, <1>7
  <1>10. \A i \in 1..Len(new) : \/ \E k \in KidsOf(ast, n) : new[i] = Visit(k)
                                \/ Ends(n) /\ new[i] = EndOf(n)
    BY <1>1, <1>4, <1>8
  <1>11. ASSUME Ends(n)
         PROVE  /\ Len(new) > 0 /\ new[Len(new)] = EndOf(n)
                /\ \A i \in 1..Len(new) : new[i] # EndOf(n) => i < Len(new)
    BY <1>1, <1>4, <1>7, <1>11
  <1>12. ASSUME NEW j \in 1..Len(new), NEW i \in 1..(j - 1)
         PROVE  \E k \in KidsOf(ast, n) :
                  /\ new[i] = Visit(k)
                  /\ \A l \in KidsOf(ast, n) : new[j] = Visit(l) => k < l
    <2>1. i \in 1..Len(ks)
      BY <1>1, <1>7
    <2>2. ASSUME NEW l \in KidsOf(ast, n), new[j] = Visit(l)
          PROVE  ks[i] < l
      <3>1. j \in 1..Len(ks)
        BY <1>4, <1>6, <1>8, <2>2
      <3>2. l = ks[j]
        BY <1>4, <1>6, <2>2, <3>1
      <3> QED BY <1>1, <3>1, <3>2
    <2> QED BY <1>1, <1>4, <2>1, <2>2
  <1> QED BY <1>4, <1>5, <1>7, <1>9, <1>10, <1>11, <1>12

(* Tasks in the place of the first: where each comes from.                 *)
LEMMA PlacesOf ==
  ASSUME NEW T, NEW ts \in Seq(T), ts # << >>, NEW new \in Seq(T)
  PROVE  LET next == new \o Tail(ts) IN
         /\ next \in Seq(T) /\ Len(new) \in Nat /\ Len(ts) \in Nat \ {0}
         /\ Len(next) = Len(new) + (Len(ts) - 1)
         /\ \A i \in 1..Len(new) : i \in 1..Len(next) /\ next[i] = new[i]
         /\ \A i \in 2..Len(ts) : Len(new) + (i - 1) \in 1..Len(next)
                                  /\ next[Len(new) + (i - 1)] = ts[i]
         /\ \A i \in 1..Len(next) :
              i > Len(new) => /\ i - Len(new) + 1 \in 2..Len(ts)
                              /\ next[i] = ts[i - Len(new) + 1]
  <1> DEFINE rest == Tail(ts)
             next == new \o rest
  <1>1. /\ Len(new) \in Nat /\ Len(ts) \in Nat \ {0}
        /\ rest \in Seq(T) /\ Len(rest) = Len(ts) - 1
        /\ \A i \in 1..Len(rest) : rest[i] = ts[i + 1]
    BY EmptySeq, LenProperties
  <1> HIDE DEF rest
  <1>2. /\ next \in Seq(T) /\ Len(next) = Len(new) + Len(rest)
        /\ \A i \in 1..Len(new) : next[i] = new[i]
        /\ \A i \in (Len(new) + 1)..Len(next) : next[i] = rest[i - Len(new)]
    <2>1. /\ next \in Seq(T) /\ Len(next) = Len(new) + Len(rest)
          /\ \A i \in 1..Len(new) : next[i] = new[i]
          /\ \A i \in 1..Len(rest) : next[Len(new) + i] = rest[i]
      <3>1. new \in Seq(T) /\ rest \in Seq(T)
        BY <1>1
      <3> QED BY ONLY <3>1, ConcatPlaces
    <2> HIDE DEF next
    <2>2. ASSUME NEW i \in (Len(new) + 1)..Len(next)
          PROVE  next[i] = rest[i - Len(new)]
      <3>1. i - Len(new) \in 1..Len(rest) /\ Len(new) + (i - Len(new)) = i
        BY <1>1, <2>1
      <3> QED BY <2>1, <3>1
    <2> QED BY <2>1, <2>2
  <1> HIDE DEF next
  <1>3. ASSUME NEW i \in 2..Len(ts)
        PROVE  Len(new) + (i - 1) \in 1..Len(next) /\ next[Len(new) + (i - 1)] = ts[i]
    <2>1. /\ Len(new) + (i - 1) \in (Len(new) + 1)..Len(next) /\ i - 1 \in 1..Len(rest)
          /\ (Len(new) + (i - 1)) - Len(new) = i - 1 /\ (i - 1) + 1 = i
      BY <1>1, <1>2
    <2>2. next[Len(new) + (i - 1)] = rest[i - 1]
      BY <1>2, <2>1
    <2>3. rest[i - 1] = ts[i]
      BY <1>1, <2>1
    <2> QED BY <1>1, <2>1, <2>2, <2>3
  <1>4. ASSUME NEW i \in 1..Len(next), i > Len(new)
        PROVE  i - Len(new) + 1 \in 2..Len(ts) /\ next[i] = ts[i - Len(new) + 1]
    <2>1. i \in (Len(new) + 1)..Len(next) /\ i - Len(new) \in 1..Len(rest)
      BY <1>1, <1>2, <1>4
    <2>2. next[i] = rest[i - Len(new)]
      BY <1>2, <2>1
    <2>3. rest[i - Len(new)] = ts[i - Len(new) + 1]
      BY <1>1, <2>1
    <2> QED BY <1>1, <2>1, <2>2, <2>3
  <1>5. \A i \in 1..Len(new) : i \in 1..Len(next)
    BY <1>1, <1>2
  <1> QED BY <1>1, <1>2, <1>3, <1>4, <1>5 DEF next, rest

LEMMA TaskParts ==
  ASSUME NEW ts \in Seq(Tasks), NEW i \in 1..Len(ts)
  PROVE  /\ ts[i].node \in DOMAIN ast
         /\ ts[i].do \in {"visit", "leave", "endFunction", "declare"}
         /\ ts[i] = Task(ts[i].do, ts[i].node)
  <1>1. ts[i] \in Tasks
    BY ElementOfSeq
  <1> QED BY <1>1 DEF Tasks, Task

LEMMA NextVisit ==
  ASSUME ast \in Trees(Names), NEW ts \in Seq(Tasks), ts # << >>, NEW c, Walk(ts, c),
         ts[1].do = "visit"
  PROVE  c \in Nat /\ ts[1].node = c + 1 /\ ts[1].node \in DOMAIN ast
  <1>1. /\ Len(ast) \in Nat /\ DOMAIN ast = 1..Len(ast) /\ c \in 0..Len(ast)
        /\ Len(ts) \in Nat /\ 1 \in 1..Len(ts)
    BY NodesOf, EmptySeq, LenProperties DEF Walk
  <1>2. ts[1].node \in DOMAIN ast /\ ts[1].node > c
    BY <1>1, TaskParts DEF Walk, Started
  <1>3. c + 1 \in (c + 1)..Len(ast)
    BY <1>1, <1>2
  <1>4. PICK i \in 1..Len(ts) :
          ts[i].do = "visit" /\ (ts[i].node = c + 1 \/ ts[i].node \in Enclosing(c + 1))
    BY <1>3 DEF Walk, Covered
  <1>5. ts[i].node > c /\ ts[i].node \in Nat
    BY <1>1, <1>4, TaskParts DEF Walk, Started
  <1>6. ts[i].node = c + 1
    <2>1. Enclosing(c + 1) \subseteq 1..((c + 1) - 1)
      BY DEF Enclosing
    <2> QED BY <1>1, <1>4, <1>5, <2>1
  <1>7. i = 1
    <2>1. i # 1 => 1 \in 1..(i - 1)
      BY <1>1, <1>4
    <2>2. i # 1 => Follows(ts[1], ts[i])
      BY <1>4, <2>1 DEF Walk
    <2>3. i # 1 => ts[1].node < c + 1
      BY <1>4, <1>6, <2>2 DEF Follows
    <2> QED BY <1>1, <1>2, <2>3
  <1> QED BY <1>1, <1>2, <1>6, <1>7

(* A visit puts what it adds in its own place.                             *)
LEMMA VisitWalks ==
  ASSUME ast \in Trees(Names), NEW ts \in Seq(Tasks), ts # << >>, NEW c, Walk(ts, c),
         ts[1].do = "visit"
  PROVE  Walk(TasksOf(ts[1].node) \o Tail(ts), ts[1].node)
  <1> DEFINE n == ts[1].node
             new == TasksOf(n)
             next == new \o Tail(ts)
             b == Len(new)
  <1>1. c \in Nat /\ n = c + 1 /\ n \in DOMAIN ast
    BY NextVisit
  <1>2. Len(ast) \in Nat /\ DOMAIN ast = 1..Len(ast) /\ n \in Nat
    BY <1>1, NodesOf
  <1> HIDE DEF n
  <1>3. /\ new \in Seq(Tasks)
        /\ \A i \in 1..b : \/ \E k \in KidsOf(ast, n) : new[i] = Visit(k)
                           \/ Ends(n) /\ new[i] = EndOf(n)
        /\ \A k \in KidsOf(ast, n) : \E i \in 1..b : new[i] = Visit(k)
    BY <1>1, TasksOfNode
  <1>4. Ends(n) => /\ b > 0 /\ new[b] = EndOf(n)
                   /\ \A i \in 1..b : new[i] # EndOf(n) => i < b
    BY <1>1, TasksOfNode
  <1>5. \A j \in 1..b : \A i \in 1..(j - 1) : \E k \in KidsOf(ast, n) :
          /\ new[i] = Visit(k)
          /\ \A l \in KidsOf(ast, n) : new[j] = Visit(l) => k < l
    BY <1>1, TasksOfNode
  <1>6. /\ next \in Seq(Tasks) /\ b \in Nat /\ Len(ts) \in Nat \ {0}
        /\ Len(next) = b + (Len(ts) - 1)
        /\ \A i \in 1..b : i \in 1..Len(next) /\ next[i] = new[i]
        /\ \A i \in 2..Len(ts) : b + (i - 1) \in 1..Len(next) /\ next[b + (i - 1)] = ts[i]
        /\ \A i \in 1..Len(next) :
             i > b => i - b + 1 \in 2..Len(ts) /\ next[i] = ts[i - b + 1]
    <2> HIDE DEF new
    <2> QED BY <1>3, PlacesOf
  <1> HIDE DEF next, new, b
  <1>7. \A k \in KidsOf(ast, n) :
          /\ k \in DOMAIN ast /\ k > n /\ k # 1 /\ Parent(k) = n
          /\ Enclosing(k) = {n} \cup Enclosing(n) /\ n \in Enclosing(k)
          /\ Visit(k).do = "visit" /\ Visit(k).node = k
    <2> SUFFICES ASSUME NEW k \in KidsOf(ast, n)
                 PROVE  /\ k \in DOMAIN ast /\ k > n /\ k # 1 /\ Parent(k) = n
                        /\ Enclosing(k) = {n} \cup Enclosing(n) /\ n \in Enclosing(k)
                        /\ Visit(k).do = "visit" /\ Visit(k).node = k
      OBVIOUS
    <2>1. k \in (n + 1)..Len(ast) /\ Parent(k) = n
      BY <1>1, ParentOf
    <2>2. k \in DOMAIN ast /\ k > n /\ k # 1
      BY <1>1, <1>2, <2>1
    <2>3. Enclosing(k) = {Parent(k)} \cup Enclosing(Parent(k))
      BY <2>2, EnclosingNodes
    <2>4. Enclosing(k) = {n} \cup Enclosing(n)
      BY <2>1, <2>3
    <2> QED BY <2>1, <2>2, <2>4 DEF Visit, Task
  <1>8. EndOf(n).node = n /\ EndOf(n).do # "visit"
    BY EndingKinds
  <1>9. ASSUME NEW j \in 2..Len(ts)
        PROVE  /\ j \in 1..Len(ts) /\ Started(ts[j], c) /\ ts[j].node \in DOMAIN ast
               /\ ts[j].do = "visit" => ts[j].node > n
               /\ ts[j].do # "visit" => ts[j].node \in Enclosing(n)
    <2>1. j \in 1..Len(ts) /\ 1 \in 1..(j - 1)
      BY <1>6
    <2>2. Follows(ts[1], ts[j]) /\ Started(ts[j], c)
      BY <2>1 DEF Walk
    <2>3. ts[j].node \in DOMAIN ast
      BY <2>1, TaskParts
    <2> QED BY <1>2, <2>1, <2>2, <2>3 DEF Follows, n
  <1>10. ASSUME NEW i \in 1..Len(next)
         PROVE  Started(next[i], n)
    <2>1. CASE i <= b
      <3>1. i \in 1..b /\ next[i] = new[i]
        BY <1>6, <2>1
      <3>2. CASE Ends(n) /\ new[i] = EndOf(n)
        BY <1>1, <1>2, <1>8, <3>1, <3>2 DEF Started
      <3>3. ASSUME NEW k \in KidsOf(ast, n), new[i] = Visit(k) PROVE Started(next[i], n)
        BY <1>1, <1>2, <1>7, <3>1, <3>3 DEF Started
      <3> QED BY <1>3, <3>1, <3>2, <3>3
    <2>2. CASE i > b
      <3> DEFINE j == i - b + 1
      <3>1. j \in 2..Len(ts) /\ next[i] = ts[j]
        BY <1>6, <2>2
      <3>2. /\ Started(ts[j], c) /\ ts[j].node \in DOMAIN ast
            /\ ts[j].do = "visit" => ts[j].node > n
            /\ ts[j].do # "visit" => ts[j].node \in Enclosing(n)
        BY <1>9, <3>1
      <3> HIDE DEF j
      <3>3. CASE ts[j].do = "visit"
        <4>1. ts[j].node # 1 => Parent(ts[j].node) <= c
          BY <3>2, <3>3 DEF Started
        <4>2. ts[j].node # 1 => Parent(ts[j].node) \in DOMAIN ast
          BY <3>2, EnclosingNodes
        <4> QED BY <1>1, <1>2, <3>1, <3>2, <3>3, <4>1, <4>2 DEF Started
      <3>4. CASE ts[j].do # "visit"
        <4>1. ts[j].node \in 1..(n - 1) /\ \A m \in (ts[j].node + 1)..n : Parent(m) >= ts[j].node
          BY <3>2, <3>4 DEF Enclosing
        <4> QED BY <1>2, <3>1, <3>2, <3>4, <4>1 DEF Started
      <3> QED BY <3>3, <3>4
    <2> QED BY <1>6, <2>1, <2>2
  <1>11. ASSUME NEW k \in KidsOf(ast, n), NEW j \in 2..Len(ts), ts[j].do = "visit"
         PROVE  k < ts[j].node
    <2> DEFINE q == ts[j].node
    <2>1. q \in DOMAIN ast /\ q > n /\ Started(ts[j], c)
      BY <1>9, <1>11
    <2>2. q # 1 /\ Parent(q) <= c
      BY <1>1, <1>2, <1>11, <2>1 DEF Started
    <2>3. Parent(q) \in DOMAIN ast
      BY <2>1, <2>2, EnclosingNodes
    <2>4. k \in 2..Len(ast) /\ Parent(k) = n /\ \A m \in (Parent(k) + 1)..k : Parent(m) >= Parent(k)
      BY <1>2, <1>7, ParentOf
    <2>5. q \in (n + 1)..k => Parent(q) >= n
      BY <2>4
    <2> HIDE DEF q
    <2>6. q > k
      BY <1>1, <1>2, <2>1, <2>2, <2>3, <2>4, <2>5
    <2> QED BY <2>6 DEF q
  <1>12. ASSUME NEW j \in 1..Len(next), NEW i \in 1..(j - 1)
         PROVE  Follows(next[i], next[j])
    <2>1. CASE j <= b
      <3>1. j \in 1..b /\ next[j] = new[j] /\ i \in 1..b /\ next[i] = new[i]
        BY <1>6, <2>1
      <3>2. PICK k \in KidsOf(ast, n) :
              new[i] = Visit(k) /\ \A l \in KidsOf(ast, n) : new[j] = Visit(l) => k < l
        BY <1>5, <3>1
      <3>3. CASE Ends(n) /\ new[j] = EndOf(n)
        BY <1>7, <1>8, <3>1, <3>2, <3>3 DEF Follows
      <3>4. ASSUME NEW l \in KidsOf(ast, n), new[j] = Visit(l) PROVE Follows(next[i], next[j])
        BY <1>7, <3>1, <3>2, <3>4 DEF Follows
      <3> QED BY <1>3, <3>1, <3>3, <3>4
    <2>2. CASE j > b /\ i <= b
      <3> DEFINE l == j - b + 1
      <3>1. l \in 2..Len(ts) /\ next[j] = ts[l] /\ i \in 1..b /\ next[i] = new[i]
        BY <1>6, <2>2
      <3> HIDE DEF l
      <3>2. /\ ts[l].do = "visit" => ts[l].node > n
            /\ ts[l].do # "visit" => ts[l].node \in Enclosing(n)
        BY <1>9, <3>1
      <3>3. CASE Ends(n) /\ new[i] = EndOf(n)
        BY <1>8, <3>1, <3>2, <3>3 DEF Follows
      <3>4. ASSUME NEW k \in KidsOf(ast, n), new[i] = Visit(k) PROVE Follows(next[i], next[j])
        <4>1. ts[l].do = "visit" => k < ts[l].node
          BY <1>11, <3>1
        <4>2. ts[l].do # "visit" => ts[l].node \in Enclosing(k)
          BY <1>7, <3>2
        <4> QED BY <1>7, <3>1, <3>4, <4>1, <4>2 DEF Follows
      <3> QED BY <1>3, <3>1, <3>3, <3>4
    <2>3. CASE i > b
      <3> DEFINE l == j - b + 1
                 h == i - b + 1
      <3>0. i \in 1..Len(next) /\ j > b
        <4>1. Len(next) \in Nat /\ b \in Nat
          BY <1>6
        <4> QED BY <2>3, <4>1
      <3>1. h \in 2..Len(ts) /\ l \in 2..Len(ts) /\ next[i] = ts[h] /\ next[j] = ts[l]
        BY <1>6, <2>3, <3>0
      <3>2. l \in 1..Len(ts) /\ h \in 1..(l - 1)
        BY <1>6, <2>3, <3>1
      <3> HIDE DEF l, h
      <3> QED BY <3>1, <3>2 DEF Walk
    <2> QED BY <1>6, <2>1, <2>2, <2>3
  <1>13. Covered(next, n)
    <2> SUFFICES ASSUME NEW m \in (n + 1)..Len(ast)
                 PROVE  \E i \in 1..Len(next) : next[i].do = "visit"
                          /\ (next[i].node = m \/ next[i].node \in Enclosing(m))
      BY DEF Covered
    <2>1. m \in (c + 1)..Len(ast) /\ m \in DOMAIN ast /\ m # n
      BY <1>1, <1>2
    <2>2. PICK i \in 1..Len(ts) :
            ts[i].do = "visit" /\ (ts[i].node = m \/ ts[i].node \in Enclosing(m))
      BY <2>1 DEF Walk, Covered
    <2>3. CASE i = 1
      <3>1. n \in Enclosing(m)
        BY <2>1, <2>2, <2>3 DEF n
      <3>2. PICK k \in KidsOf(ast, n) : k = m \/ k \in Enclosing(m)
        BY <2>1, <3>1, ChildAbove
      <3>3. PICK l \in 1..b : new[l] = Visit(k)
        BY <1>3
      <3>4. l \in 1..Len(next) /\ next[l] = Visit(k)
        BY <1>6, <3>3
      <3>5. next[l].do = "visit" /\ next[l].node = k
        BY <1>7, <3>4
      <3> QED BY <3>2, <3>4, <3>5
    <2>4. CASE i # 1
      <3>1. i \in 2..Len(ts)
        BY <1>6, <2>4
      <3>2. b + (i - 1) \in 1..Len(next) /\ next[b + (i - 1)] = ts[i]
        BY <1>6, <3>1
      <3> QED BY <2>2, <3>2
    <2> QED BY <2>3, <2>4
  <1>14. ASSUME NEW p \in Enclosing(n), Ends(p), NEW i \in 1..b
         PROVE  \E j \in (i + 1)..Len(next) : next[j] = EndOf(p)
    <2>1. 1 \in 1..Len(ts) /\ p \in Enclosing(ts[1].node)
      BY <1>6 DEF n
    <2>2. PICK j \in 2..Len(ts) : ts[j] = EndOf(p)
      BY <1>14, <2>1 DEF Walk, EndsBehind
    <2>3. b + (j - 1) \in 1..Len(next) /\ next[b + (j - 1)] = ts[j]
      BY <1>6, <2>2
    <2>4. b + (j - 1) \in (i + 1)..Len(next)
      BY <1>6, <2>2, <2>3
    <2> QED BY <2>2, <2>3, <2>4
  <1>15. EndsBehind(next)
    <2> SUFFICES ASSUME NEW i \in 1..Len(next), NEW p \in Enclosing(next[i].node), Ends(p)
                 PROVE  \E j \in (i + 1)..Len(next) : next[j] = EndOf(p)
      BY DEF EndsBehind
    <2>1. CASE i <= b
      <3>1. i \in 1..b /\ next[i] = new[i]
        BY <1>6, <2>1
      <3>2. CASE Ends(n) /\ new[i] = EndOf(n)
        BY <1>8, <1>14, <3>1, <3>2
      <3>3. ASSUME NEW k \in KidsOf(ast, n), new[i] = Visit(k)
            PROVE  \E j \in (i + 1)..Len(next) : next[j] = EndOf(p)
        <4>1. p = n \/ p \in Enclosing(n)
          BY <1>7, <3>1, <3>3
        <4>2. CASE p = n
          <5>1. b > 0 /\ new[b] = EndOf(n) /\ i < b
            <6>1. Visit(k) # EndOf(n)
              BY <1>7, <1>8
            <6> QED BY <1>4, <3>1, <3>3, <4>2, <6>1
          <5>2. b \in 1..b /\ b \in (i + 1)..Len(next)
            BY <1>6, <3>1, <5>1
          <5> QED BY <1>6, <4>2, <5>1, <5>2
        <4> QED BY <1>14, <3>1, <4>1, <4>2
      <3> QED BY <1>3, <3>1, <3>2, <3>3
    <2>2. CASE i > b
      <3> DEFINE l == i - b + 1
      <3>1. l \in 2..Len(ts) /\ next[i] = ts[l] /\ l \in 1..Len(ts)
        BY <1>6, <2>2
      <3>2. PICK j \in (l + 1)..Len(ts) : ts[j] = EndOf(p)
        <4> HIDE DEF l
        <4> QED BY <3>1 DEF Walk, EndsBehind
      <3>3. j \in 2..Len(ts)
        BY <1>6, <3>1, <3>2
      <3>4. next[b + (j - 1)] = ts[j] /\ b + (j - 1) \in 1..Len(next)
        BY <1>6, <3>3
      <3>5. b + (j - 1) \in (i + 1)..Len(next)
        BY <1>6, <2>2, <3>1, <3>2, <3>4
      <3> QED BY <3>2, <3>4, <3>5
    <2>3. i <= b \/ i > b
      <3>1. i \in Nat /\ b \in Nat
        BY <1>6
      <3> QED BY <3>1
    <2> QED BY <2>1, <2>2, <2>3
  <1>16. Walk(next, n)
    <2>1. n \in 0..Len(ast)
      BY <1>1, <1>2
    <2> QED BY <1>10, <1>12, <1>13, <1>15, <2>1 DEF Walk
  <1> QED BY <1>16 DEF next, new, n

(* The end of a visit leaves the others as they are.                       *)
LEMMA EndWalks ==
  ASSUME NEW ts \in Seq(Tasks), ts # << >>, NEW c, Walk(ts, c), ts[1].do # "visit"
  PROVE  Walk(<< >> \o Tail(ts), c)
  <1> DEFINE next == << >> \o Tail(ts)
  <1>1. << >> \in Seq(Tasks) /\ Len(<< >>) = 0
    OBVIOUS
  <1>2. /\ Len(ts) \in Nat \ {0} /\ Len(next) = 0 + (Len(ts) - 1)
        /\ \A i \in 2..Len(ts) : 0 + (i - 1) \in 1..Len(next) /\ next[0 + (i - 1)] = ts[i]
        /\ \A i \in 1..Len(next) :
             i > 0 => i - 0 + 1 \in 2..Len(ts) /\ next[i] = ts[i - 0 + 1]
    BY <1>1, PlacesOf
  <1> HIDE DEF next
  <1>3. \A i \in 1..Len(next) : i + 1 \in 1..Len(ts) /\ next[i] = ts[i + 1]
    <2> SUFFICES ASSUME NEW i \in 1..Len(next)
                 PROVE  i + 1 \in 1..Len(ts) /\ next[i] = ts[i + 1]
      OBVIOUS
    <2>1. i > 0 /\ i - 0 + 1 = i + 1
      BY <1>2
    <2>2. i + 1 \in 2..Len(ts) /\ next[i] = ts[i + 1]
      BY <1>2, <2>1
    <2> QED BY <1>2, <2>1, <2>2
  <1>4. \A i \in 2..Len(ts) : i - 1 \in 1..Len(next) /\ next[i - 1] = ts[i]
    <2> SUFFICES ASSUME NEW i \in 2..Len(ts)
                 PROVE  i - 1 \in 1..Len(next) /\ next[i - 1] = ts[i]
      OBVIOUS
    <2>1. 0 + (i - 1) = i - 1
      OBVIOUS
    <2> QED BY <1>2, <2>1
  <1>5. c \in 0..Len(ast) /\ \A i \in 1..Len(next) : Started(next[i], c)
    BY <1>3 DEF Walk
  <1>6. ASSUME NEW j \in 1..Len(next), NEW i \in 1..(j - 1)
        PROVE  Follows(next[i], next[j])
    <2>1. /\ j + 1 \in 1..Len(ts) /\ i + 1 \in 1..((j + 1) - 1)
          /\ i \in 1..Len(next)
      BY <1>2, <1>3
    <2> QED BY <1>3, <2>1 DEF Walk
  <1>7. Covered(next, c)
    <2> SUFFICES ASSUME NEW m \in (c + 1)..Len(ast)
                 PROVE  \E i \in 1..Len(next) : next[i].do = "visit"
                          /\ (next[i].node = m \/ next[i].node \in Enclosing(m))
      BY DEF Covered
    <2>1. PICK i \in 1..Len(ts) :
            ts[i].do = "visit" /\ (ts[i].node = m \/ ts[i].node \in Enclosing(m))
      BY DEF Walk, Covered
    <2>2. i \in 2..Len(ts)
      BY <1>2, <2>1
    <2> QED BY <1>4, <2>1, <2>2
  <1>8. EndsBehind(next)
    <2> SUFFICES ASSUME NEW i \in 1..Len(next), NEW p \in Enclosing(next[i].node), Ends(p)
                 PROVE  \E j \in (i + 1)..Len(next) : next[j] = EndOf(p)
      BY DEF EndsBehind
    <2>1. i + 1 \in 1..Len(ts) /\ p \in Enclosing(ts[i + 1].node)
      BY <1>3
    <2>2. PICK j \in ((i + 1) + 1)..Len(ts) : ts[j] = EndOf(p)
      BY <2>1 DEF Walk, EndsBehind
    <2>3. j \in 2..Len(ts) /\ j - 1 \in (i + 1)..Len(next)
      BY <1>2, <2>2
    <2> QED BY <1>4, <2>2, <2>3
  <1>9. Walk(next, c)
    BY <1>5, <1>6, <1>7, <1>8 DEF Walk
  <1> QED BY <1>9 DEF next
-----------------------------------------------------------------------------
(* What has been declared, and the scopes that are open, as the list of    *)
(* tasks tells them.                                                       *)
IsPending(ts, d) == \E i \in 1..Len(ts) : ts[i] = Task("declare", d)
Declared(ts, c) == {d \in 1..c : ast[d].kind \in Declaring /\ ~IsPending(ts, d)}
OpenScopes(ts) == {ts[i].node : i \in {j \in 1..Len(ts) : IsLeave(ts[j])}}
ScopesAround(n) == {s \in Enclosing(n) : Scoping(s)}

LEMMA NodeKinds ==
  ASSUME ast \in Trees(Names)
  PROVE  /\ \A n \in DOMAIN ast : WellShaped(ast, n) /\ ast[n].name # "this"
         /\ \A n \in DOMAIN ast : \A k \in KidsOf(ast, n) : ast[k].kind \in KindsOfKids(ast, n)
         /\ \A n \in DOMAIN ast : ast[n].kind \in Kinds
  <1>1. \A n \in DOMAIN ast : WellShaped(ast, n)
    BY Zenon DEF Trees, IsTree
  <1>2. \A n \in DOMAIN ast : ast[n].name # "this"
    BY Zenon DEF Trees, IsTree
  <1>3. \A n \in DOMAIN ast : \A k \in KidsOf(ast, n) : ast[k].kind \in KindsOfKids(ast, n)
    BY Zenon DEF KindsOfKids
  <1>4. ASSUME NEW n \in DOMAIN ast PROVE ast[n].kind \in Kinds
    <2>1. ast[n] \in Nodes(Names)
      BY TreeTypes
    <2> QED BY <2>1 DEF Nodes
  <1> QED BY <1>1, <1>2, <1>3, <1>4

(* An initializer is an expression, and so is all below it.                *)
LEMMA BelowInitializer ==
  ASSUME ast \in Trees(Names), NEW n \in DOMAIN ast, ast[n].kind = "vardecl",
         NEW m \in DOMAIN ast, n \in Enclosing(m)
  PROVE  ast[m].kind \in ExprKinds
  <1> DEFINE F == {k \in DOMAIN ast : n \in Enclosing(k) /\ ast[k].kind \notin ExprKinds}
  <1>1. SUFFICES ASSUME F # {} PROVE FALSE
    OBVIOUS
  <1>2. F \subseteq Nat
    BY NodesOf
  <1>3. PICK k \in F : \A l \in F : k <= l
    <2> HIDE DEF F
    <2> QED BY <1>1, <1>2, LeastOf
  <1>4. k \in DOMAIN ast /\ k # 1 /\ n \in Enclosing(k) /\ ast[k].kind \notin ExprKinds
    BY <1>3, EnclosingNodes
  <1>5. /\ k \in 2..Len(ast) /\ Parent(k) \in DOMAIN ast
        /\ Enclosing(k) = {Parent(k)} \cup Enclosing(Parent(k))
    BY <1>4, EnclosingNodes
  <1>6. Parent(k) \in 1..(k - 1) /\ k \in KidsOf(ast, Parent(k))
    BY <1>5, ParentOf
  <1>7. /\ WellShaped(ast, Parent(k)) /\ ast[k].kind \in KindsOfKids(ast, Parent(k))
        /\ ast[Parent(k)].kids \in Seq(DOMAIN ast)
    BY <1>5, <1>6, NodeKinds, TreeTypes
  <1>8. ast[Parent(k)].kind = "vardecl" \/ ast[Parent(k)].kind \in ExprKinds
    <2>1. CASE Parent(k) = n
      BY <2>1
    <2>2. CASE Parent(k) # n
      <3>1. Parent(k) \notin F
        <4> HIDE DEF F
        <4> QED BY <1>2, <1>3, <1>5, <1>6
      <3> QED BY <1>4, <1>5, <2>2, <3>1
    <2> QED BY <2>1, <2>2
  <1>9. ast[Parent(k)].kids # << >>
    BY <1>6 DEF KidsOf
  <1>10. Len(ast[Parent(k)].kids) # 0
    BY <1>7, <1>9, EmptySeq
  <1>11. KindsOfKids(ast, Parent(k)) \subseteq ExprKinds
    BY <1>7, <1>8, <1>10 DEF WellShaped, ExprKinds
  <1> QED BY <1>4, <1>7, <1>11

LEMMA ScopeOfNode ==
  ASSUME ast \in Trees(Names), NEW n \in DOMAIN ast, n # 1
  PROVE  /\ ScopeOf(n) \in ScopesAround(n) /\ ScopeOf(n) \in 1..(n - 1)
         /\ \A s \in ScopesAround(n) : s <= ScopeOf(n)
  <1>1. Around[n] = Enclosing(n)
    BY AroundIsEnclosing
  <1>2. 1 \in Enclosing(n) /\ Enclosing(n) \subseteq 1..(n - 1) /\ n \in Nat
    BY EnclosingNodes
  <1>3. Scoping(1)
    BY TreeTypes DEF Scoping
  <1> DEFINE S == ScopesAround(n)
  <1>4. S \subseteq 0..n /\ S # {}
    BY <1>2, <1>3 DEF ScopesAround
  <1>5. PICK s \in S : \A t \in S : t <= s
    <2> HIDE DEF S
    <2> QED BY <1>2, <1>4, GreatestOf
  <1>6. s \in Around[n] /\ Scoping(s) /\ \A t \in Around[n] : Scoping(t) => t <= s
    BY <1>1, <1>5 DEF ScopesAround
  <1>7. /\ ScopeOf(n) \in Around[n] /\ Scoping(ScopeOf(n))
        /\ \A t \in Around[n] : Scoping(t) => t <= ScopeOf(n)
    <2> DEFINE P(u) == Scoping(u) /\ \A t \in Around[n] : Scoping(t) => t <= u
    <2>1. ScopeOf(n) = CHOOSE u \in Around[n] : P(u)
      BY DEF ScopeOf
    <2>2. P(s)
      BY <1>6
    <2>3. ScopeOf(n) \in Around[n] /\ P(ScopeOf(n))
      <3> HIDE DEF P
      <3> QED BY <1>6, <2>1, <2>2, Zenon
    <2> QED BY <2>3
  <1> QED BY <1>1, <1>2, <1>7 DEF ScopesAround

LEMMA DeclaringNodes ==
  ASSUME ast \in Trees(Names), NEW n \in DOMAIN ast, ast[n].kind \in Declaring
  PROVE  n # 1 /\ ast[n].name \in Names /\ ast[n].name # "this"
  BY TreeTypes, NodeKinds DEF Declaring

(* What a task that is not the first tells of the first one's node.        *)
LEMMA LaterTasks ==
  ASSUME NEW ts \in Seq(Tasks), NEW c, Walk(ts, c),
         NEW i \in 2..Len(ts), ts[i].do # "visit"
  PROVE  /\ ts[i].node \in Enclosing(ts[1].node) /\ ts[i].node \in 1..c
         /\ Ends(ts[i].node) /\ ts[i] = EndOf(ts[i].node)
         /\ IsLeave(ts[i]) <=> Scoping(ts[i].node)
         /\ ts[i].do = "declare" <=> ast[ts[i].node].kind = "vardecl"
  <1>1. i \in 1..Len(ts) /\ 1 \in 1..(i - 1)
    BY LenProperties
  <1>2. Follows(ts[1], ts[i]) /\ Started(ts[i], c) /\ c \in 0..Len(ast)
    BY <1>1 DEF Walk
  <1>3. /\ ts[i].node \in Enclosing(ts[1].node) /\ ts[i].node <= c
        /\ Ends(ts[i].node) /\ ts[i] = EndOf(ts[i].node)
    BY <1>2 DEF Follows, Started
  <1>4. ts[i].node \in 1..c
    BY <1>2, <1>3 DEF Enclosing
  <1>5. IsLeave(ts[i]) <=> Scoping(ts[i].node)
    BY <1>3, EndingKinds
  <1>6. ts[i].do = "declare" <=> ast[ts[i].node].kind = "vardecl"
    BY <1>3, EndingKinds, TaskParts, <1>1 DEF Ending, Ends, Scoping
  <1> QED BY <1>3, <1>4, <1>5, <1>6

(* Where the first task declares or looks up: what is declared, and what   *)
(* scopes are open, is what the tree tells of its node.                    *)
LEMMA SeenFromHere ==
  ASSUME ast \in Trees(Names), NEW ts \in Seq(Tasks), ts # << >>, NEW c, Walk(ts, c),
         ts[1].do \in {"visit", "declare"}
  PROVE  LET n == ts[1].node IN
         /\ OpenScopes(ts) = ScopesAround(n)
         /\ Declared(ts, c) = {d \in 1..(n - 1) :
                                 /\ ast[d].kind \in Declaring
                                 /\ ast[d].kind = "vardecl" => d \notin Enclosing(n)}
  <1> DEFINE n == ts[1].node
  <1>1. /\ Len(ts) \in Nat \ {0} /\ 1 \in 1..Len(ts) /\ n \in DOMAIN ast
        /\ Len(ast) \in Nat /\ DOMAIN ast = 1..Len(ast) /\ c \in 0..Len(ast)
        /\ Started(ts[1], c)
    BY EmptySeq, LenProperties, TaskParts, NodesOf DEF Walk
  <1>2. ~IsLeave(ts[1])
    BY DEF IsLeave
  <1>3. \A p \in Enclosing(n) : Ends(p) => \E j \in 2..Len(ts) : ts[j] = EndOf(p)
    BY <1>1 DEF Walk, EndsBehind
  <1>4. OpenScopes(ts) = ScopesAround(n)
    <2>1. ASSUME NEW i \in 1..Len(ts), IsLeave(ts[i]) PROVE ts[i].node \in ScopesAround(n)
      <3>1. i \in 2..Len(ts) /\ ts[i].do # "visit"
        BY <1>1, <1>2, <2>1 DEF IsLeave
      <3> QED BY <2>1, <3>1, LaterTasks DEF ScopesAround
    <2>2. ASSUME NEW s \in ScopesAround(n)
          PROVE  \E i \in 1..Len(ts) : IsLeave(ts[i]) /\ ts[i].node = s
      <3>1. s \in Enclosing(n) /\ Scoping(s) /\ Ends(s)
        BY DEF ScopesAround, Ends
      <3>2. PICK j \in 2..Len(ts) : ts[j] = EndOf(s)
        BY <1>3, <3>1
      <3>3. IsLeave(ts[j]) /\ ts[j].node = s
        BY <3>1, <3>2, EndingKinds
      <3> QED BY <1>1, <3>3
    <2> QED BY <2>1, <2>2 DEF OpenScopes
  <1>5. ASSUME NEW d \in 1..(n - 1)
        PROVE  IsPending(ts, d) <=> ast[d].kind = "vardecl" /\ d \in Enclosing(n)
    <2>1. ASSUME NEW i \in 1..Len(ts), ts[i] = Task("declare", d)
          PROVE  ast[d].kind = "vardecl" /\ d \in Enclosing(n)
      <3>1. ts[i].node = d /\ ts[i].do = "declare"
        BY <2>1 DEF Task
      <3>2. i \in 2..Len(ts)
        BY <1>1, <3>1
      <3> QED BY <3>1, <3>2, LaterTasks
    <2>2. ASSUME ast[d].kind = "vardecl", d \in Enclosing(n) PROVE IsPending(ts, d)
      <3>1. Ends(d) /\ EndOf(d) = Task("declare", d)
        BY <2>2, EndingKinds DEF Ends
      <3> QED BY <1>1, <1>3, <2>2, <3>1 DEF IsPending
    <2> QED BY <2>1, <2>2 DEF IsPending
  <1>6. ASSUME NEW d \in 1..c, ast[d].kind \in Declaring, ~IsPending(ts, d)
        PROVE  d \in 1..(n - 1)
    <2>1. CASE ts[1].do = "visit"
      BY <1>1, <2>1, NextVisit
    <2>2. CASE ts[1].do = "declare"
      <3>1. /\ n <= c /\ Ends(n) /\ ts[1] = EndOf(n) /\ ts[1] = Task("declare", n)
            /\ \A m \in (n + 1)..c : Parent(m) >= n
        BY <1>1, <2>2, TaskParts DEF Started
      <3>2. ast[n].kind = "vardecl"
        BY <3>1, EndingKinds
      <3>3. d # n
        BY <1>1, <1>6, <3>1 DEF IsPending
      <3>4. ASSUME d > n PROVE FALSE
        <4>1. n \in Enclosing(d) /\ d \in DOMAIN ast
          BY <1>1, <3>1, <3>4 DEF Enclosing
        <4>2. ast[d].kind \in ExprKinds
          BY <1>1, <3>2, <4>1, BelowInitializer
        <4> QED BY <1>6, <4>2 DEF ExprKinds, Declaring
      <3> QED BY <1>1, <3>3, <3>4
    <2> QED BY <2>1, <2>2
  <1>7. ASSUME NEW d \in 1..(n - 1) PROVE d \in 1..c
    <2>1. CASE ts[1].do = "visit"
      BY <1>1, <2>1, NextVisit
    <2>2. CASE ts[1].do = "declare"
      BY <1>1, <2>2 DEF Started
    <2> QED BY <2>1, <2>2
  <1>8. Declared(ts, c) = {d \in 1..(n - 1) :
                             /\ ast[d].kind \in Declaring
                             /\ ast[d].kind = "vardecl" => d \notin Enclosing(n)}
    BY <1>5, <1>6, <1>7 DEF Declared
  <1> QED BY <1>4, <1>8

(* What a visit changes of it, and what the end of one does.               *)
LEMMA VisitDeclares ==
  ASSUME ast \in Trees(Names), NEW ts \in Seq(Tasks), ts # << >>, NEW c, Walk(ts, c),
         ts[1].do = "visit"
  PROVE  LET n == ts[1].node
             next == TasksOf(n) \o Tail(ts)
         IN
         /\ Declared(next, n) = Declared(ts, c) \cup
              (IF ast[n].kind \in Declaring \ {"vardecl"} THEN {n} ELSE {})
         /\ OpenScopes(next) = OpenScopes(ts) \cup (IF Scoping(n) THEN {n} ELSE {})
  <1> DEFINE n == ts[1].node
             new == TasksOf(n)
             next == new \o Tail(ts)
             b == Len(new)
  <1>1. c \in Nat /\ n = c + 1 /\ n \in DOMAIN ast
    BY NextVisit
  <1>2. Len(ts) \in Nat \ {0} /\ 1 \in 1..Len(ts) /\ ~IsLeave(ts[1])
    BY EmptySeq, LenProperties DEF IsLeave
  <1>3. /\ new \in Seq(Tasks)
        /\ \A i \in 1..b : \/ \E k \in KidsOf(ast, n) : new[i] = Visit(k)
                           \/ Ends(n) /\ new[i] = EndOf(n)
    BY <1>1, TasksOfNode
  <1>4. Ends(n) => b > 0 /\ new[b] = EndOf(n)
    BY <1>1, TasksOfNode
  <1>5. /\ b \in Nat
        /\ \A i \in 1..b : i \in 1..Len(next) /\ next[i] = new[i]
        /\ \A i \in 2..Len(ts) : b + (i - 1) \in 1..Len(next) /\ next[b + (i - 1)] = ts[i]
        /\ \A i \in 1..Len(next) :
             i > b => i - b + 1 \in 2..Len(ts) /\ next[i] = ts[i - b + 1]
    <2> HIDE DEF new
    <2> QED BY <1>3, PlacesOf
  <1>6. \A i \in 1..Len(next) : i \in Nat
    OBVIOUS
  <1> HIDE DEF next, new, b, n
  (* An ending is in the new list when it was in the old one, or ends n.   *)
  <1>7. ASSUME NEW t, t.do # "visit"
        PROVE  (\E i \in 1..Len(next) : next[i] = t)
                 <=> (\E i \in 1..Len(ts) : ts[i] = t) \/ (Ends(n) /\ t = EndOf(n))
    <2>1. ASSUME NEW i \in 1..Len(next), next[i] = t
          PROVE  (\E j \in 1..Len(ts) : ts[j] = t) \/ (Ends(n) /\ t = EndOf(n))
      <3>1. CASE i <= b
        <4>1. i \in 1..b /\ next[i] = new[i]
          BY <1>5, <3>1
        <4>2. \A k : Visit(k).do = "visit"
          BY DEF Visit, Task
        <4> QED BY <1>3, <1>7, <2>1, <4>1, <4>2
      <3>2. CASE i > b
        BY <1>2, <1>5, <2>1, <3>2
      <3>3. i <= b \/ i > b
        <4>1. b \in Nat /\ i \in Nat
          BY <1>5
        <4> QED BY <4>1
      <3> QED BY <3>1, <3>2, <3>3
    <2>2. ASSUME NEW j \in 1..Len(ts), ts[j] = t
          PROVE  \E i \in 1..Len(next) : next[i] = t
      <3>1. j \in 2..Len(ts)
        BY <1>2, <1>7, <2>2
      <3> QED BY <1>5, <2>2, <3>1
    <2>3. ASSUME Ends(n), t = EndOf(n) PROVE \E i \in 1..Len(next) : next[i] = t
      <3>1. b \in 1..b
        BY <1>4, <1>5, <2>3
      <3> QED BY <1>4, <1>5, <2>3, <3>1
    <2> QED BY <2>1, <2>2, <2>3
  <1>8. ASSUME NEW d
        PROVE  IsPending(next, d) <=> IsPending(ts, d) \/ (d = n /\ ast[n].kind = "vardecl")
    <2>1. Task("declare", d).do # "visit" /\ Task("declare", d).node = d
      BY DEF Task
    <2>2. Ends(n) /\ Task("declare", d) = EndOf(n) <=> d = n /\ ast[n].kind = "vardecl"
      <3>1. ASSUME Ends(n), Task("declare", d) = EndOf(n) PROVE d = n /\ ast[n].kind = "vardecl"
        BY <2>1, <3>1, EndingKinds
      <3>2. ASSUME d = n, ast[n].kind = "vardecl" PROVE Ends(n) /\ Task("declare", d) = EndOf(n)
        BY <3>2, EndingKinds DEF Ends
      <3> QED BY <3>1, <3>2
    <2>3. (\E i \in 1..Len(next) : next[i] = Task("declare", d))
            <=> \/ \E i \in 1..Len(ts) : ts[i] = Task("declare", d)
                \/ Ends(n) /\ Task("declare", d) = EndOf(n)
      BY <1>7, <2>1
    <2> QED BY <2>2, <2>3 DEF IsPending
  <1>9. ~IsPending(ts, n)
    <2> SUFFICES ASSUME NEW i \in 1..Len(ts), ts[i] = Task("declare", n) PROVE FALSE
      BY DEF IsPending
    <2>1. ts[i].do # "visit" /\ ts[i].node = n /\ Started(ts[i], c)
      BY DEF Task, Walk
    <2>2. n <= c
      BY <2>1 DEF Started
    <2> QED BY <1>1, <2>2 DEF n
  <1>10. Declared(next, n) = Declared(ts, c) \cup
           (IF ast[n].kind \in Declaring \ {"vardecl"} THEN {n} ELSE {})
    <2>1. 1..n = (1..c) \cup {n} /\ n \notin 1..c
      BY <1>1 DEF n
    <2>2. \A d \in 1..c : IsPending(next, d) <=> IsPending(ts, d)
      BY <1>8, <2>1
    <2>3. IsPending(next, n) <=> ast[n].kind = "vardecl"
      BY <1>8, <1>9
    <2> QED BY <2>1, <2>2, <2>3 DEF Declared
  <1>11. OpenScopes(next) = OpenScopes(ts) \cup (IF Scoping(n) THEN {n} ELSE {})
    <2>1. ASSUME NEW i \in 1..Len(next), IsLeave(next[i])
          PROVE  next[i].node \in OpenScopes(ts) \/ (Scoping(n) /\ next[i].node = n)
      <3>1. next[i].do # "visit"
        BY <2>1 DEF IsLeave
      <3>2. \/ \E j \in 1..Len(ts) : ts[j] = next[i]
            \/ Ends(n) /\ next[i] = EndOf(n)
        BY <1>7, <3>1
      <3>3. CASE \E j \in 1..Len(ts) : ts[j] = next[i]
        BY <2>1, <3>3 DEF OpenScopes
      <3>4. CASE Ends(n) /\ next[i] = EndOf(n)
        BY <2>1, <3>4, EndingKinds
      <3> QED BY <3>2, <3>3, <3>4
    <2>2. ASSUME NEW j \in 1..Len(ts), IsLeave(ts[j])
          PROVE  ts[j].node \in OpenScopes(next)
      <3>1. ts[j].do # "visit"
        BY <2>2 DEF IsLeave
      <3>2. \E i \in 1..Len(next) : next[i] = ts[j]
        BY <1>7, <3>1
      <3> QED BY <2>2, <3>2 DEF OpenScopes
    <2>3. ASSUME Scoping(n) PROVE n \in OpenScopes(next)
      <3>1. Ends(n) /\ IsLeave(EndOf(n)) /\ EndOf(n).node = n /\ EndOf(n).do # "visit"
        BY <2>3, EndingKinds DEF Ends
      <3>2. \E i \in 1..Len(next) : next[i] = EndOf(n)
        BY <1>7, <3>1
      <3> QED BY <3>1, <3>2 DEF OpenScopes
    <2>4. OpenScopes(next) \subseteq OpenScopes(ts) \cup (IF Scoping(n) THEN {n} ELSE {})
      BY <2>1 DEF OpenScopes
    <2>5. OpenScopes(ts) \subseteq OpenScopes(next)
      BY <2>2 DEF OpenScopes
    <2> QED BY <2>3, <2>4, <2>5
  <1> QED BY <1>10, <1>11 DEF next, new, n

LEMMA EndDeclares ==
  ASSUME ast \in Trees(Names), NEW ts \in Seq(Tasks), ts # << >>, NEW c, Walk(ts, c),
         ts[1].do # "visit"
  PROVE  LET n == ts[1].node
             next == << >> \o Tail(ts)
         IN
         /\ Declared(next, c) = Declared(ts, c) \cup (IF ts[1].do = "declare" THEN {n} ELSE {})
         /\ OpenScopes(next) = OpenScopes(ts) \ (IF IsLeave(ts[1]) THEN {n} ELSE {})
         /\ n \in 1..c /\ Ends(n) /\ ts[1] = EndOf(n)
         /\ ts[1].do = "declare" <=> ast[n].kind = "vardecl"
         /\ \A s \in OpenScopes(ts) : s # n => s \in Enclosing(n)
         /\ IsLeave(ts[1]) => n \in OpenScopes(ts)
  <1> DEFINE n == ts[1].node
             next == << >> \o Tail(ts)
  <1>1. << >> \in Seq(Tasks) /\ Len(<< >>) = 0
    OBVIOUS
  <1>2. /\ Len(ts) \in Nat \ {0} /\ Len(next) = 0 + (Len(ts) - 1)
        /\ \A i \in 2..Len(ts) : 0 + (i - 1) \in 1..Len(next) /\ next[0 + (i - 1)] = ts[i]
        /\ \A i \in 1..Len(next) :
             i > 0 => i - 0 + 1 \in 2..Len(ts) /\ next[i] = ts[i - 0 + 1]
    BY <1>1, PlacesOf
  <1> HIDE DEF next
  <1>3. /\ \A i \in 1..Len(next) : \E j \in 2..Len(ts) : next[i] = ts[j]
        /\ \A j \in 2..Len(ts) : \E i \in 1..Len(next) : next[i] = ts[j]
    <2>1. \A i \in 1..Len(next) : i > 0
      BY <1>2
    <2> QED BY <1>2, <2>1
  <1>4. 1 \in 1..Len(ts) /\ Started(ts[1], c) /\ n \in DOMAIN ast /\ c \in 0..Len(ast)
    BY <1>2, TaskParts DEF Walk
  <1>5. n \in 1..c /\ Ends(n) /\ ts[1] = EndOf(n)
    BY <1>4, NodesOf DEF Started
  <1>6. ts[1].do = "declare" <=> ast[n].kind = "vardecl"
    BY <1>4, <1>5, EndingKinds, TaskParts DEF Ending, Ends, Scoping
  <1>7. \A j \in 2..Len(ts) : j \in 1..Len(ts)
                              /\ (ts[j].do # "visit" => ts[j].node \in Enclosing(n))
    BY LaterTasks
  <1>8. n \notin Enclosing(n)
    BY DEF Enclosing
  <1>9. \A j \in 1..Len(ts) : j = 1 \/ j \in 2..Len(ts)
    BY <1>2
  <1> HIDE DEF n
  <1>10. ASSUME NEW d
         PROVE  IsPending(next, d) <=> IsPending(ts, d) /\ ~(ts[1].do = "declare" /\ d = n)
    <2>0. Task("declare", d).do = "declare" /\ Task("declare", d).node = d
      BY DEF Task
    <2>1. ASSUME NEW i \in 1..Len(next), next[i] = Task("declare", d)
          PROVE  IsPending(ts, d) /\ d # n
      <3>1. PICK j \in 2..Len(ts) : ts[j] = Task("declare", d)
        BY <1>3, <2>1
      <3>2. d \in Enclosing(n)
        BY <1>7, <2>0, <3>1
      <3> QED BY <1>7, <1>8, <3>1, <3>2 DEF IsPending
    <2>2. ASSUME NEW j \in 1..Len(ts), ts[j] = Task("declare", d), ~(ts[1].do = "declare" /\ d = n)
          PROVE  IsPending(next, d)
      <3>1. j # 1
        BY <2>0, <2>2 DEF n
      <3> QED BY <1>3, <1>9, <2>2, <3>1 DEF IsPending
    <2> QED BY <2>1, <2>2 DEF IsPending
  <1>11. Declared(next, c) = Declared(ts, c) \cup (IF ts[1].do = "declare" THEN {n} ELSE {})
    <2>1. CASE ts[1].do = "declare"
      <3>1. ast[n].kind \in Declaring
        BY <1>6, <2>1 DEF Declaring
      <3>2. \A d \in 1..c : ~IsPending(next, d) <=> ~IsPending(ts, d) \/ d = n
        BY <1>10, <2>1
      <3> QED BY <1>5, <2>1, <3>1, <3>2 DEF Declared
    <2>2. CASE ts[1].do # "declare"
      <3>1. \A d \in 1..c : IsPending(next, d) <=> IsPending(ts, d)
        BY <1>10, <2>2
      <3> QED BY <2>2, <3>1 DEF Declared
    <2> QED BY <2>1, <2>2
  <1>12. \A j \in 2..Len(ts) : IsLeave(ts[j]) => ts[j].node \in Enclosing(n)
    BY <1>7 DEF IsLeave
  <1>13. ASSUME NEW s \in OpenScopes(ts), s # n
         PROVE  s \in Enclosing(n) /\ s \in OpenScopes(next)
    <2>1. PICK j \in 1..Len(ts) : IsLeave(ts[j]) /\ ts[j].node = s
      BY DEF OpenScopes
    <2>2. j \in 2..Len(ts)
      BY <1>9, <1>13, <2>1 DEF n
    <2>3. PICK i \in 1..Len(next) : next[i] = ts[j]
      BY <1>3, <2>2
    <2> QED BY <1>12, <2>1, <2>2, <2>3 DEF OpenScopes
  <1>14. ASSUME NEW s \in OpenScopes(next)
         PROVE  s \in OpenScopes(ts) /\ s # n
    <2>1. PICK i \in 1..Len(next) : IsLeave(next[i]) /\ next[i].node = s
      BY DEF OpenScopes
    <2>2. PICK j \in 2..Len(ts) : next[i] = ts[j]
      BY <1>3
    <2> QED BY <1>7, <1>8, <1>12, <2>1, <2>2 DEF OpenScopes
  <1>15. ~IsLeave(ts[1]) => n \notin OpenScopes(ts)
    <2> SUFFICES ASSUME ~IsLeave(ts[1]), NEW j \in 1..Len(ts), IsLeave(ts[j]), ts[j].node = n
                 PROVE FALSE
      BY DEF OpenScopes
    <2> QED BY <1>8, <1>9, <1>12
  <1>16. IsLeave(ts[1]) => n \in OpenScopes(ts)
    BY <1>4 DEF OpenScopes, n
  <1>17. OpenScopes(next) = OpenScopes(ts) \ (IF IsLeave(ts[1]) THEN {n} ELSE {})
    BY <1>13, <1>14, <1>15
  <1> QED BY <1>5, <1>6, <1>11, <1>13, <1>16, <1>17 DEF next, n
-----------------------------------------------------------------------------
(* The chain of scopes, innermost first: os are the nodes whose scopes ss  *)
(* they are, and each holds the first declaration of a name of all those   *)
(* of D in it.                                                             *)
DeclaredIn(D, s, x) == {d \in D : ast[d].name = x /\ ScopeOf(d) = s}
Entry(e, D, s, x) ==
  IF x = "this" /\ ast[s].kind = "record" THEN e = NoDecl
  ELSE IF DeclaredIn(D, s, x) = {} THEN e = Absent
  ELSE e \in DeclaredIn(D, s, x) /\ \A d \in DeclaredIn(D, s, x) : e <= d
Chain(os, S, ss, D) ==
  /\ os \in Seq(Nat) /\ Len(os) = Len(ss)
  /\ \A l \in 1..Len(os) : \A k \in 1..(l - 1) : os[l] < os[k]
  /\ {os[k] : k \in 1..Len(os)} = S
  /\ \A k \in 1..Len(os) : \A x \in Names : Entry(ss[k][x], D, os[k], x)

LEMMA ChainTop ==
  ASSUME NEW os, NEW S, NEW ss \in Seq(Scopes), NEW D, Chain(os, S, ss, D),
         NEW m \in S, \A s \in S : s <= m
  PROVE  ss # << >> /\ Len(os) \in Nat \ {0} /\ os[1] = m
  <1>1. /\ os \in Seq(Nat) /\ Len(os) \in Nat /\ Len(os) = Len(ss)
        /\ \A k \in 1..Len(os) : os[k] \in Nat /\ os[k] \in S
    BY LenProperties, ElementOfSeq DEF Chain
  <1>2. PICK k \in 1..Len(os) : os[k] = m
    BY DEF Chain
  <1>3. Len(ss) # 0
    BY <1>1, <1>2
  <1>4. ss # << >>
    BY <1>3, EmptySeq
  <1>5. 1 \in 1..Len(os) /\ os[1] <= m /\ os[1] \in Nat
    BY <1>1, <1>2
  <1>6. k # 1 => os[k] < os[1]
    <2>1. k # 1 => 1 \in 1..(k - 1)
      BY <1>1, <1>2
    <2> QED BY <1>2, <2>1 DEF Chain
  <1>7. os[1] = m
    BY <1>1, <1>2, <1>5, <1>6
  <1> QED BY <1>1, <1>4, <1>5, <1>7

LEMMA Prepended ==
  ASSUME NEW T, NEW x \in T, NEW s \in Seq(T)
  PROVE  /\ <<x>> \o s \in Seq(T) /\ Len(<<x>> \o s) = 1 + Len(s) /\ Len(s) \in Nat
         /\ (<<x>> \o s)[1] = x
         /\ \A i \in 1..Len(s) : (<<x>> \o s)[1 + i] = s[i]
  <1> DEFINE one == <<x>>
  <1>1. one \in Seq(T) /\ Len(one) = 1 /\ one[1] = x
    OBVIOUS
  <1> HIDE DEF one
  <1>2. /\ one \o s \in Seq(T) /\ Len(one \o s) = Len(one) + Len(s) /\ Len(s) \in Nat
        /\ \A i \in 1..Len(one) : (one \o s)[i] = one[i]
        /\ \A i \in 1..Len(s) : (one \o s)[Len(one) + i] = s[i]
    <2>1. Len(one) \in Nat /\ Len(s) \in Nat /\ one \in Seq(T)
      BY <1>1
    <2>2. one \o s \in Seq(T) /\ Len(one \o s) = Len(one) + Len(s)
      BY <2>1
    <2>3. \A i \in 1..Len(one) : (one \o s)[i] = one[i]
      BY <2>1
    <2>4. ASSUME NEW i \in 1..Len(s)
          PROVE  (one \o s)[Len(one) + i] = s[i]
      BY <2>1
    <2> QED BY <2>1, <2>2, <2>3, <2>4
  <1>3. 1 \in 1..Len(one)
    BY <1>1
  <1>4. /\ one \o s \in Seq(T) /\ Len(one \o s) = 1 + Len(s) /\ Len(s) \in Nat
        /\ (one \o s)[1] = x
        /\ \A i \in 1..Len(s) : (one \o s)[1 + i] = s[i]
    BY <1>1, <1>2, <1>3, Zenon
  <1> QED BY <1>4 DEF one

LEMMA ChainEnter ==
  ASSUME NEW os, NEW S, NEW ss \in Seq(Scopes), NEW D, Chain(os, S, ss, D),
         NEW n \in Nat, \A s \in S : s < n,
         NEW f \in Scopes, \A x \in Names : Entry(f[x], D, n, x)
  PROVE  Chain(<<n>> \o os, S \cup {n}, <<f>> \o ss, D)
  <1> DEFINE o == <<n>> \o os
             t == <<f>> \o ss
  <1>1. os \in Seq(Nat) /\ Len(os) = Len(ss)
    BY DEF Chain
  <1>3. /\ o \in Seq(Nat) /\ Len(o) = 1 + Len(os) /\ Len(os) \in Nat
        /\ o[1] = n /\ \A i \in 1..Len(os) : o[1 + i] = os[i]
    <2> DEFINE T == Nat
    <2>1. n \in T /\ os \in Seq(T)
      BY <1>1
    <2> HIDE DEF T
    <2>2. /\ <<n>> \o os \in Seq(T) /\ Len(<<n>> \o os) = 1 + Len(os) /\ Len(os) \in Nat
          /\ (<<n>> \o os)[1] = n
          /\ \A i \in 1..Len(os) : (<<n>> \o os)[1 + i] = os[i]
      BY ONLY <2>1, Prepended
    <2> QED BY <2>2, Zenon DEF T
  <1>4. /\ Len(t) = 1 + Len(ss)
        /\ t[1] = f /\ \A i \in 1..Len(ss) : t[1 + i] = ss[i]
    <2> HIDE DEF Scopes
    <2> QED BY Prepended
  <1> HIDE DEF o, t
  <1>5. \A k \in 1..Len(o) : k = 1 \/ (k - 1 \in 1..Len(os) /\ o[k] = os[k - 1]
                                        /\ t[k] = ss[k - 1])
    <2> SUFFICES ASSUME NEW k \in 1..Len(o), k # 1
                 PROVE  k - 1 \in 1..Len(os) /\ o[k] = os[k - 1] /\ t[k] = ss[k - 1]
      OBVIOUS
    <2>1. k - 1 \in 1..Len(os) /\ 1 + (k - 1) = k
      BY <1>3
    <2> QED BY <1>1, <1>3, <1>4, <2>1
  <1>6. \A k \in 1..Len(os) : 1 + k \in 1..Len(o) /\ o[1 + k] = os[k]
    BY <1>3
  <1>7. {o[k] : k \in 1..Len(o)} = S \cup {n}
    <2>1. {os[k] : k \in 1..Len(os)} = S
      BY DEF Chain
    <2>2. 1 \in 1..Len(o)
      BY <1>3
    <2>3. ASSUME NEW k \in 1..Len(o) PROVE o[k] \in S \cup {n}
      BY <1>3, <1>5, <2>1
    <2>4. ASSUME NEW s \in S \cup {n} PROVE \E k \in 1..Len(o) : o[k] = s
      BY <1>3, <1>6, <2>1, <2>2
    <2> QED BY <2>3, <2>4
  <1>8. ASSUME NEW l \in 1..Len(o), NEW k \in 1..(l - 1) PROVE o[l] < o[k]
    <2>1. l # 1 /\ k \in 1..Len(o)
      BY <1>3
    <2>2. l - 1 \in 1..Len(os) /\ o[l] = os[l - 1] /\ os[l - 1] \in S
      BY <1>5, <2>1 DEF Chain
    <2>3. CASE k = 1
      BY <1>3, <2>2, <2>3
    <2>4. CASE k # 1
      <3>1. o[k] = os[k - 1] /\ k - 1 \in 1..((l - 1) - 1)
        BY <1>3, <1>5, <2>1, <2>4
      <3> QED BY <2>2, <3>1 DEF Chain
    <2> QED BY <2>3, <2>4
  <1>9. ASSUME NEW k \in 1..Len(o), NEW x \in Names PROVE Entry(t[k][x], D, o[k], x)
    <2>1. CASE k = 1
      BY <1>3, <1>4, <2>1
    <2>2. CASE k # 1
      BY <1>5, <2>2 DEF Chain
    <2> QED BY <2>1, <2>2
  <1>10. Len(o) = Len(t)
    BY <1>1, <1>3, <1>4
  <1>11. Chain(o, S \cup {n}, t, D)
    BY <1>3, <1>7, <1>8, <1>9, <1>10 DEF Chain
  <1> QED BY <1>11 DEF o, t

LEMMA ChainLeave ==
  ASSUME NEW os, NEW S, NEW ss \in Seq(Scopes), NEW D, Chain(os, S, ss, D), ss # << >>
  PROVE  Chain(Tail(os), S \ {os[1]}, Tail(ss), D)
  <1> DEFINE o == Tail(os)
             t == Tail(ss)
  <1> HIDE DEF Scopes
  <1>1. os \in Seq(Nat) /\ Len(os) = Len(ss) /\ Len(os) \in Nat \ {0}
    BY EmptySeq, LenProperties DEF Chain
  <1>2. os # << >>
    BY <1>1, EmptySeq
  <1>3. /\ o \in Seq(Nat) /\ Len(o) = Len(os) - 1
        /\ \A i \in 1..Len(o) : o[i] = os[i + 1]
    BY <1>1, <1>2
  <1>4. Len(t) = Len(ss) - 1 /\ \A i \in 1..Len(t) : t[i] = ss[i + 1]
    OBVIOUS
  <1> HIDE DEF o, t
  <1>5. \A i \in 1..Len(o) : /\ i \in Nat /\ i + 1 \in 2..Len(os) /\ i + 1 \in 1..Len(os)
                             /\ o[i] = os[i + 1] /\ t[i] = ss[i + 1]
    BY <1>1, <1>3, <1>4
  <1>6. \A j \in 2..Len(os) : j - 1 \in 1..Len(o) /\ o[j - 1] = os[j] /\ os[j] < os[1]
    <2> SUFFICES ASSUME NEW j \in 2..Len(os)
                 PROVE  j - 1 \in 1..Len(o) /\ o[j - 1] = os[j] /\ os[j] < os[1]
      OBVIOUS
    <2>1. j - 1 \in 1..Len(o) /\ (j - 1) + 1 = j /\ j \in 1..Len(os) /\ 1 \in 1..(j - 1)
      BY <1>1, <1>3
    <2> QED BY <1>3, <2>1 DEF Chain
  <1>7. \A j \in 1..Len(os) : os[j] \in Nat /\ (j = 1 \/ j \in 2..Len(os))
    BY <1>1, ElementOfSeq
  <1>8. {o[k] : k \in 1..Len(o)} = S \ {os[1]}
    <2>1. {os[k] : k \in 1..Len(os)} = S
      BY DEF Chain
    <2>2. ASSUME NEW k \in 1..Len(o) PROVE o[k] \in S \ {os[1]}
      <3>1. k + 1 \in 1..Len(os) /\ k + 1 \in 2..Len(os) /\ o[k] = os[k + 1]
        BY <1>5
      <3>2. os[k + 1] < os[1] /\ os[k + 1] \in Nat /\ os[1] \in Nat
        BY <1>1, <1>6, <1>7, <3>1
      <3> QED BY <2>1, <3>1, <3>2
    <2>3. ASSUME NEW s \in S \ {os[1]} PROVE \E k \in 1..Len(o) : o[k] = s
      <3>1. PICK j \in 1..Len(os) : os[j] = s
        BY <2>1
      <3>2. j \in 2..Len(os)
        BY <1>7, <3>1
      <3> QED BY <1>6, <3>1, <3>2
    <2> QED BY <2>2, <2>3
  <1>9. ASSUME NEW l \in 1..Len(o), NEW k \in 1..(l - 1) PROVE o[l] < o[k]
    <2>1. k \in 1..Len(o) /\ k + 1 \in 1..((l + 1) - 1) /\ l + 1 \in 1..Len(os)
      BY <1>1, <1>3
    <2> QED BY <1>5, <2>1 DEF Chain
  <1>10. ASSUME NEW k \in 1..Len(o), NEW x \in Names PROVE Entry(t[k][x], D, o[k], x)
    BY <1>5 DEF Chain
  <1>11. Len(o) = Len(t)
    BY <1>1, <1>3, <1>4
  <1>12. Chain(o, S \ {os[1]}, t, D)
    BY <1>3, <1>8, <1>9, <1>10, <1>11 DEF Chain
  <1> QED BY <1>12 DEF o, t

(* Scope::declare: the first declaration of a name in a scope is kept, and *)
(* whether there was one is whether it is reported.                        *)
LEMMA ChainDeclare ==
  ASSUME NEW os, NEW S, NEW ss \in Seq(Scopes), NEW D, Chain(os, S, ss, D), ss # << >>,
         D \subseteq Nat \ {0}, NEW d \in Nat \ {0},
         NEW x \in Names, x = ast[d].name, x # "this",
         ScopeOf(d) = os[1], \A e \in DeclaredIn(D, os[1], x) : e < d
  PROVE  /\ Chain(os, S, Declare(ss, x, d), D \cup {d})
         /\ Holds(Head(ss), x) <=> DeclaredIn(D, os[1], x) # {}
  <1> DEFINE new == Declare(ss, x, d)
             E == D \cup {d}
  <1>1. /\ os \in Seq(Nat) /\ Len(os) = Len(ss) /\ Len(os) \in Nat \ {0}
        /\ 1 \in 1..Len(ss) /\ Head(ss) = ss[1]
    <2> HIDE DEF Scopes
    <2> QED BY EmptySeq, LenProperties DEF Chain
  <1>2. \A k \in 1..Len(ss) : ss[k] \in Scopes
    <2> HIDE DEF Scopes
    <2> QED BY ElementOfSeq
  <1>3. Entry(ss[1][x], D, os[1], x)
    BY <1>1 DEF Chain
  <1>4. DeclaredIn(D, os[1], x) \subseteq Nat \ {0}
    BY DEF DeclaredIn
  <1>5. Holds(Head(ss), x) <=> DeclaredIn(D, os[1], x) # {}
    BY <1>1, <1>3, <1>4 DEF Holds, Entry, Absent
  <1>6. \A k \in 1..Len(os) : k # 1 => os[k] # os[1]
    <2> SUFFICES ASSUME NEW k \in 1..Len(os), k # 1 PROVE os[k] # os[1]
      OBVIOUS
    <2>1. 1 \in 1..(k - 1)
      BY <1>1
    <2>2. os[k] < os[1] /\ os[k] \in Nat /\ os[1] \in Nat
      BY <1>1, <2>1, ElementOfSeq DEF Chain
    <2> QED BY <2>2
  <1>7. \A s, y : s # os[1] \/ y # x => DeclaredIn(E, s, y) = DeclaredIn(D, s, y)
    BY DEF DeclaredIn
  <1>8. DeclaredIn(E, os[1], x) = DeclaredIn(D, os[1], x) \cup {d}
    BY DEF DeclaredIn
  <1>9. /\ Len(new) = Len(ss)
        /\ \A k \in 1..Len(ss) : k # 1 => new[k] = ss[k]
        /\ \A y \in Names : y # x => new[1][y] = ss[1][y]
        /\ new[1][x] = IF DeclaredIn(D, os[1], x) # {} THEN ss[1][x] ELSE d
    <2>1. CASE Holds(Head(ss), x)
      BY <1>5, <2>1 DEF Declare
    <2>2. CASE ~Holds(Head(ss), x)
      <3> DEFINE first == [ss[1] EXCEPT ![x] = d]
                 put == [ss EXCEPT ![1] = first]
      <3>1. new = put
        BY <2>2 DEF Declare
      <3>2. /\ \A y \in Names : y # x => first[y] = ss[1][y]
            /\ first[x] = d
        BY <1>1, <1>2 DEF Scopes
      <3> HIDE DEF first, Scopes
      <3>3. Len(put) = Len(ss) /\ put[1] = first /\ \A k \in 1..Len(ss) : k # 1 => put[k] = ss[k]
        BY <1>1
      <3> HIDE DEF put, new
      <3> QED BY <1>5, <2>2, <3>1, <3>2, <3>3
    <2> QED BY <2>1, <2>2
  <1> HIDE DEF new
  <1>10. ASSUME NEW k \in 1..Len(os), NEW y \in Names
         PROVE  Entry(new[k][y], E, os[k], y)
    <2>1. Entry(ss[k][y], D, os[k], y)
      BY DEF Chain
    <2>2. CASE k # 1 \/ y # x
      <3>1. DeclaredIn(E, os[k], y) = DeclaredIn(D, os[k], y)
        BY <1>6, <1>7, <2>2
      <3>2. new[k][y] = ss[k][y]
        BY <1>1, <1>9, <2>2
      <3> QED BY <2>1, <3>1, <3>2 DEF Entry
    <2>3. CASE k = 1 /\ y = x
      <3>1. CASE DeclaredIn(D, os[1], x) = {}
        <4>1. new[1][x] = d /\ DeclaredIn(E, os[1], x) = {d}
          BY <1>8, <1>9, <3>1
        <4> HIDE DEF E
        <4> QED BY <2>3, <4>1 DEF Entry
      <3>2. CASE DeclaredIn(D, os[1], x) # {}
        <4> DEFINE old == DeclaredIn(D, os[1], x)
        <4>1. new[1][x] = ss[1][x] /\ DeclaredIn(E, os[1], x) = old \cup {d}
          BY <1>8, <1>9, <3>2
        <4>2. ss[1][x] \in old /\ \A e \in old : ss[1][x] <= e
          BY <1>3, <3>2 DEF Entry
        <4>3. old \subseteq Nat /\ \A e \in old : e < d
          BY <1>4
        <4> HIDE DEF E, old
        <4>4. ss[1][x] \in Nat /\ ss[1][x] <= d
          <5> DEFINE e == ss[1][x]
          <5>1. e \in old
            BY <4>2
          <5> HIDE DEF e
          <5>2. e \in Nat /\ e < d
            BY <4>3, <5>1
          <5>3. e \in Nat /\ e <= d
            BY ONLY <5>2, d \in Nat \ {0}
          <5> QED BY <5>3 DEF e
        <4> QED BY <2>3, <4>1, <4>2, <4>4 DEF Entry
      <3> QED BY <3>1, <3>2
    <2> QED BY <2>2, <2>3
  <1>11. Chain(os, S, new, E)
    BY <1>1, <1>9, <1>10 DEF Chain
  <1> QED BY <1>5, <1>11 DEF new
-----------------------------------------------------------------------------
(* What has been resolved and reported so far.                             *)
Resolved(c, D, fields, reports) ==
  /\ fields = {n \in 1..c : NamesField(n)}
  /\ {n \in reports : ~EmptyReturn(n)}
       = {n \in D : Clashes(n)} \cup {n \in 1..c : Undeclared(n)}

At(ts, ss, fields, reports, c, os) ==
  /\ Walk(ts, c)
  /\ Chain(os, OpenScopes(ts), ss, Declared(ts, c))
  /\ Resolved(c, Declared(ts, c), fields, reports)
RInv == \E c, os : At(tasks, scopes, isField, errors, c, os)

LEMMA SameTree ==
  ASSUME ast' = ast
  PROVE  /\ \A ts, c : Walk(ts, c)' <=> Walk(ts, c)
         /\ \A os, S, ss, D : Chain(os, S, ss, D)' <=> Chain(os, S, ss, D)
         /\ \A ts, c : Declared(ts, c)' = Declared(ts, c)
         /\ \A ts : OpenScopes(ts)' = OpenScopes(ts)
         /\ \A c, D, fs, rs : Resolved(c, D, fs, rs)' <=> Resolved(c, D, fs, rs)
  <1>1. ASSUME NEW n PROVE Parent(n)' = Parent(n)
    BY DEF Parent, KidsOf
  <1>2. Around' = Around
    BY DEF Around, Parent, KidsOf
  <1>3. ASSUME NEW n PROVE ScopeOf(n)' = ScopeOf(n)
    BY <1>2 DEF ScopeOf, Scoping
  <1>4. ASSUME NEW n PROVE InView(n)' = InView(n)
    BY <1>2, <1>3 DEF InView
  <1>5. ASSUME NEW n PROVE Meant(n)' = Meant(n)
    BY <1>3, <1>4 DEF Meant
  <1>6. ASSUME NEW ts, NEW c PROVE Walk(ts, c)' <=> Walk(ts, c)
    <2>1. ASSUME NEW n PROVE Enclosing(n)' = Enclosing(n)
      BY <1>1 DEF Enclosing
    <2>2. ASSUME NEW n PROVE (Ends(n)' <=> Ends(n)) /\ EndOf(n)' = EndOf(n)
      BY DEF Ends, EndOf, Ending, Scoping
    <2>3. ASSUME NEW t PROVE Started(t, c)' <=> Started(t, c)
      BY <1>1, <2>2 DEF Started
    <2>4. ASSUME NEW s, NEW t PROVE Follows(s, t)' <=> Follows(s, t)
      BY <2>1 DEF Follows
    <2>5. Covered(ts, c)' <=> Covered(ts, c)
      BY <2>1 DEF Covered
    <2>6. EndsBehind(ts)' <=> EndsBehind(ts)
      BY <2>1, <2>2 DEF EndsBehind
    <2> QED BY <2>3, <2>4, <2>5, <2>6 DEF Walk
  <1>7. ASSUME NEW os, NEW S, NEW ss, NEW D PROVE Chain(os, S, ss, D)' <=> Chain(os, S, ss, D)
    BY <1>3 DEF Chain, Entry, DeclaredIn
  <1>8. ASSUME NEW ts, NEW c PROVE Declared(ts, c)' = Declared(ts, c)
    BY DEF Declared, IsPending
  <1>9. ASSUME NEW ts PROVE OpenScopes(ts)' = OpenScopes(ts)
    BY DEF OpenScopes
  <1>10. ASSUME NEW c, NEW D, NEW fs, NEW rs PROVE Resolved(c, D, fs, rs)' <=> Resolved(c, D, fs, rs)
    BY <1>3, <1>4, <1>5 DEF Resolved, NamesField, EmptyReturn, Clashes, Undeclared
  <1> QED BY <1>6, <1>7, <1>8, <1>9, <1>10

LEMMA AtNext ==
  ASSUME ast' = ast, NEW c, NEW os, At(tasks', scopes', isField', errors', c, os)
  PROVE  RInv'
  BY SameTree DEF At, RInv

(* At the first task, InView is what is declared in the open scopes.       *)
LEMMA ViewFromHere ==
  ASSUME ast \in Trees(Names), NEW ts \in Seq(Tasks), ts # << >>, NEW c, Walk(ts, c),
         ts[1].do \in {"visit", "declare"}, NEW n, n = ts[1].node
  PROVE  /\ n \in DOMAIN ast
         /\ Declared(ts, c) \subseteq 1..(n - 1)
         /\ InView(n) = {d \in Declared(ts, c) :
                           ast[d].name = ast[n].name /\ ScopeOf(d) \in OpenScopes(ts)}
         /\ n # 1 => /\ ScopeOf(n) \in OpenScopes(ts)
                     /\ \A s \in OpenScopes(ts) : s <= ScopeOf(n)
         /\ ast[n].kind \in Declaring =>
              (Clashes(n) <=> DeclaredIn(Declared(ts, c), ScopeOf(n), ast[n].name) # {})
  <1> DEFINE D == Declared(ts, c)
             S == OpenScopes(ts)
  <1>1. n \in DOMAIN ast
    <2>1. 1 \in 1..Len(ts)
      BY EmptySeq, LenProperties
    <2> QED BY <2>1, TaskParts
  <1>2. /\ S = ScopesAround(n)
        /\ D = {d \in 1..(n - 1) : /\ ast[d].kind \in Declaring
                                   /\ ast[d].kind = "vardecl" => d \notin Enclosing(n)}
    BY SeenFromHere
  <1>3. DOMAIN ast = 1..Len(ast) /\ Len(ast) \in Nat /\ Around[n] = Enclosing(n)
    BY <1>1, NodesOf, AroundIsEnclosing
  <1> HIDE DEF D, S
  <1>4. ASSUME NEW d \in 1..(n - 1), ast[d].kind \in Declaring
        PROVE  Scoping(ScopeOf(d))
    <2>1. d \in DOMAIN ast
      BY <1>1, <1>3
    <2>2. d # 1
      BY <1>4, <2>1, DeclaringNodes
    <2> QED BY <2>1, <2>2, ScopeOfNode DEF ScopesAround
  <1>5. InView(n) = {d \in D : ast[d].name = ast[n].name /\ ScopeOf(d) \in S}
    BY <1>2, <1>3, <1>4 DEF InView, ScopesAround
  <1>6. n # 1 => ScopeOf(n) \in S /\ \A s \in S : s <= ScopeOf(n)
    BY <1>1, <1>2, ScopeOfNode
  <1>7. ASSUME ast[n].kind \in Declaring
        PROVE  Clashes(n) <=> DeclaredIn(D, ScopeOf(n), ast[n].name) # {}
    <2>1. n # 1
      BY <1>1, <1>7, DeclaringNodes
    <2>2. ScopeOf(n) \in S
      BY <1>6, <2>1
    <2>3. Clashes(n) <=> \E d \in InView(n) : ScopeOf(d) = ScopeOf(n)
      BY <1>7 DEF Clashes
    <2> QED BY <1>5, <2>2, <2>3 DEF DeclaredIn
  <1>8. D \subseteq 1..(n - 1)
    BY <1>2
  <1> QED BY <1>1, <1>5, <1>6, <1>7, <1>8 DEF D, S

(* Scope::lookup finds what is meant.                                      *)
LEMMA LookupFindsMeant ==
  ASSUME NEW os, NEW S, NEW ss \in Seq(Scopes), NEW D, Chain(os, S, ss, D),
         D \subseteq Nat \ {0}, NEW n, ast[n].name \in Names, ast[n].name # "this",
         InView(n) = {d \in D : ast[d].name = ast[n].name /\ ScopeOf(d) \in S}
  PROVE  /\ InView(n) = {} => lookup(ss, ast[n].name) = Absent
         /\ InView(n) # {} => /\ lookup(ss, ast[n].name) = Meant(n)
                              /\ Meant(n) \in InView(n)
  <1> DEFINE x == ast[n].name
             V == InView(n)
             In(k) == DeclaredIn(D, os[k], x)
             Found == {k \in DOMAIN ss : Holds(ss[k], x)}
  <1>1. /\ os \in Seq(Nat) /\ Len(os) = Len(ss) /\ Len(os) \in Nat
        /\ DOMAIN ss = 1..Len(os)
        /\ \A k \in 1..Len(os) : os[k] \in Nat
    <2> HIDE DEF Scopes
    <2> QED BY LenProperties, ElementOfSeq DEF Chain
  <1>2. {os[k] : k \in 1..Len(os)} = S
    BY DEF Chain
  <1>3. \A k \in 1..Len(os) : In(k) \subseteq Nat \ {0}
    BY DEF DeclaredIn
  <1>4. ASSUME NEW k \in 1..Len(os)
        PROVE  /\ Holds(ss[k], x) <=> In(k) # {}
               /\ In(k) # {} => ss[k][x] \in In(k) /\ \A d \in In(k) : ss[k][x] <= d
    <2>1. Entry(ss[k][x], D, os[k], x)
      BY DEF Chain
    <2>2. IF In(k) = {} THEN ss[k][x] = Absent
          ELSE ss[k][x] \in In(k) /\ \A d \in In(k) : ss[k][x] <= d
      BY <2>1 DEF Entry
    <2>3. In(k) \subseteq Nat \ {0}
      BY <1>3
    <2> HIDE DEF In, x
    <2> QED BY <2>2, <2>3 DEF Holds, Absent
  <1>5. Found = {k \in 1..Len(os) : In(k) # {}}
    BY <1>1, <1>4
  <1>6. V = {d \in D : \E k \in 1..Len(os) : d \in In(k)}
    <2>1. ASSUME NEW d \in V PROVE d \in D /\ \E k \in 1..Len(os) : d \in In(k)
      <3>1. d \in D /\ ast[d].name = x /\ ScopeOf(d) \in S
        OBVIOUS
      <3>2. PICK k \in 1..Len(os) : os[k] = ScopeOf(d)
        BY <1>2, <3>1
      <3> QED BY <3>1, <3>2 DEF DeclaredIn
    <2>2. ASSUME NEW d \in D, NEW k \in 1..Len(os), d \in In(k) PROVE d \in V
      <3>1. os[k] \in S /\ ast[d].name = x /\ ScopeOf(d) = os[k]
        BY <1>2, <2>2 DEF DeclaredIn
      <3> QED BY <3>1
    <2> QED BY <2>1, <2>2
  <1>7. \A k \in 1..Len(os) : In(k) \subseteq D
    BY DEF DeclaredIn
  <1>8. lookup(ss, x) = IF Found = {} THEN Absent
                        ELSE ss[CHOOSE k \in Found : \A j \in Found : k <= j][x]
    BY DEF lookup
  <1>9. ASSUME V = {} PROVE lookup(ss, x) = Absent
    <2>1. Found = {}
      <3> HIDE DEF V, In, Found
      <3> QED BY <1>5, <1>6, <1>7, <1>9
    <2> QED BY <1>8, <2>1
  <1>10. ASSUME V # {} PROVE lookup(ss, x) = Meant(n) /\ Meant(n) \in V
    <2>1. Found # {} /\ Found \subseteq Nat
      <3>1. Found # {}
        <4> HIDE DEF V, In, Found
        <4> QED BY <1>5, <1>6, <1>10
      <3>2. Found \subseteq Nat
        BY <1>5
      <3> QED BY <3>1, <3>2
    <2> DEFINE k == CHOOSE i \in Found : \A j \in Found : i <= j
               e == ss[k][x]
    <2>2. k \in Found /\ \A j \in Found : k <= j
      <3> HIDE DEF Found
      <3>1. \E i \in Found : \A j \in Found : i <= j
        BY <2>1, LeastOf
      <3> QED BY <3>1
    <2>3. lookup(ss, x) = e
      <3> HIDE DEF Found
      <3> QED BY <1>8, <2>1
    <2>4. k \in 1..Len(os) /\ In(k) # {} /\ \A j \in Found : k <= j
      <3> HIDE DEF Found, In, k
      <3> QED BY <1>5, <2>2
    <2> HIDE DEF k
    <2>5. e \in In(k) /\ \A d \in In(k) : e <= d
      BY <1>4, <2>4
    <2>6. In(k) \subseteq V
      <3> HIDE DEF V, In
      <3> QED BY <1>6, <1>7, <2>4
    <2>7. \A d \in In(k) : ScopeOf(d) = os[k]
      BY DEF DeclaredIn
    <2>8. ASSUME NEW d \in V
          PROVE  \E j \in 1..Len(os) : /\ d \in In(j) /\ ScopeOf(d) = os[j] /\ j >= k
                                       /\ j # k => os[j] < os[k]
      <3>1. PICK j \in 1..Len(os) : d \in In(j)
        <4> HIDE DEF V, In
        <4> QED BY <1>6
      <3>2. j \in Found
        <4> HIDE DEF Found, In
        <4> QED BY <1>5, <3>1
      <3>3. ScopeOf(d) = os[j]
        BY <3>1 DEF DeclaredIn
      <3>4. k <= j
        BY <2>4, <3>2
      <3>5. j # k => k \in 1..(j - 1)
        BY <1>1, <2>4, <3>1, <3>4
      <3>6. j # k => os[j] < os[k]
        BY <3>1, <3>5 DEF Chain
      <3> QED BY <1>1, <2>4, <3>1, <3>3, <3>4, <3>6
    <2> DEFINE Inner == {d \in V : \A f \in V : ScopeOf(f) <= ScopeOf(d)}
    <2>9. Inner = In(k)
      <3>1. ASSUME NEW d \in In(k) PROVE d \in Inner
        <4>1. d \in V /\ ScopeOf(d) = os[k]
          BY <2>6, <2>7
        <4>2. ASSUME NEW f \in V PROVE ScopeOf(f) <= os[k]
          <5> HIDE DEF V, In
          <5>1. PICK j \in 1..Len(os) : ScopeOf(f) = os[j] /\ (j # k => os[j] < os[k])
            BY <2>8
          <5>2. os[j] \in Nat /\ os[k] \in Nat
            BY <1>1, <2>4
          <5> QED BY <5>1, <5>2
        <4> QED BY <4>1, <4>2
      <3>2. ASSUME NEW d \in Inner PROVE d \in In(k)
        <4>1. d \in V /\ ScopeOf(e) <= ScopeOf(d)
          BY <2>5, <2>6
        <4> HIDE DEF V, In, Inner, e
        <4>2. PICK j \in 1..Len(os) : d \in In(j) /\ ScopeOf(d) = os[j] /\ (j # k => os[j] < os[k])
          BY <2>8, <4>1
        <4>3. ScopeOf(e) = os[k] /\ os[k] \in Nat /\ os[j] \in Nat
          BY <1>1, <2>4, <2>5, <2>7
        <4>4. j = k
          BY <4>1, <4>2, <4>3
        <4> QED BY <4>2, <4>4
      <3> QED BY <3>1, <3>2
    <2>10. Meant(n) = CHOOSE d \in Inner : \A f \in Inner : d <= f
      BY DEF Meant
    <2>11. In(k) \subseteq Nat
      BY <1>3, <2>4
    <2> HIDE DEF In, V, Inner, e
    <2>12. e \in Inner /\ \A f \in Inner : e <= f
      BY <2>5, <2>9
    <2>13. \A d \in Inner : (\A f \in Inner : d <= f) => d = e
      BY <2>9, <2>11, <2>12
    <2>14. Meant(n) = e
      BY <2>10, <2>12, <2>13
    <2> QED BY <2>3, <2>5, <2>6, <2>14
  <1> QED BY <1>9, <1>10
-----------------------------------------------------------------------------
(* The steps of resolution.                                                *)
LEMMA AtTheTop ==
  ASSUME IInv, tasks # << >>, NEW c, NEW os, At(tasks, scopes, isField, errors, c, os)
  PROVE  /\ ast \in Trees(Names) /\ tasks \in Seq(Tasks) /\ scopes \in Seq(Scopes)
         /\ top = tasks[1] /\ top.node \in DOMAIN ast /\ node = ast[top.node]
         /\ node.name \in Names /\ node.name # "this" /\ top.node \in Nat \ {0}
         /\ Walk(tasks, c) /\ Chain(os, OpenScopes(tasks), scopes, Declared(tasks, c))
         /\ Resolved(c, Declared(tasks, c), isField, errors)
         /\ WellShaped(ast, top.node) /\ node.kids \in Seq(DOMAIN ast)
         /\ Declared(tasks, c) \subseteq Nat \ {0}
  <1>1. ast \in Trees(Names) /\ tasks \in Seq(Tasks) /\ scopes \in Seq(Scopes)
    BY DEF IInv, TypeOK, Tasks, Scopes
  <1>2. top = tasks[1] /\ node = ast[top.node]
    BY DEF top, node
  <1>3. top.node \in DOMAIN ast /\ node.kids \in Seq(DOMAIN ast)
    BY TopTypes
  <1>4. node.name \in Names /\ node.name # "this" /\ WellShaped(ast, top.node)
    BY <1>1, <1>2, <1>3, TreeTypes, NodeKinds
  <1>5. top.node \in Nat \ {0}
    BY <1>1, <1>3, NodesOf
  <1>6. Declared(tasks, c) \subseteq Nat \ {0}
    BY DEF Declared
  <1> QED BY <1>1, <1>2, <1>3, <1>4, <1>5, <1>6 DEF At

LEMMA VisitResolves ==
  ASSUME IInv, ast' = ast, tasks # << >>, top.do = "visit",
         NEW c, NEW os, At(tasks, scopes, isField, errors, c, os),
         tasks' = TasksOf(top.node) \o Tail(tasks),
         NEW X, X = IF node.kind \in Declaring \ {"vardecl"} THEN {top.node} ELSE {},
         NEW os1, Chain(os1, OpenScopes(tasks) \cup (IF Scoping(top.node) THEN {top.node} ELSE {}),
                        scopes', Declared(tasks, c) \cup X),
         isField' = isField \cup (IF NamesField(top.node) THEN {top.node} ELSE {}),
         NEW R \in SUBSET {top.node}, errors' = errors \cup R,
         top.node \in R /\ ~EmptyReturn(top.node)
           <=> (X # {} /\ Clashes(top.node)) \/ Undeclared(top.node)
  PROVE  RInv'
  <1> DEFINE n == top.node
             D == Declared(tasks, c)
  <1>1. /\ ast \in Trees(Names) /\ tasks \in Seq(Tasks) /\ top = tasks[1] /\ node = ast[n]
        /\ Walk(tasks, c) /\ Resolved(c, D, isField, errors)
    BY AtTheTop
  <1>2. c \in Nat /\ n = c + 1
    BY <1>1, NextVisit
  <1>3. Walk(tasks', n)
    BY <1>1, VisitWalks
  <1>4. /\ Declared(tasks', n) = D \cup X
        /\ OpenScopes(tasks') = OpenScopes(tasks) \cup (IF Scoping(n) THEN {n} ELSE {})
    BY <1>1, VisitDeclares
  <1>5. 1..n = (1..c) \cup {n}
    BY <1>2
  <1>6. isField' = {m \in 1..n : NamesField(m)}
    BY <1>1, <1>5 DEF Resolved
  <1>7. {m \in errors' : ~EmptyReturn(m)}
          = {m \in D \cup X : Clashes(m)} \cup {m \in 1..n : Undeclared(m)}
    <2>1. {m \in errors : ~EmptyReturn(m)}
            = {m \in D : Clashes(m)} \cup {m \in 1..c : Undeclared(m)}
      BY <1>1 DEF Resolved
    <2>2. {m \in errors' : ~EmptyReturn(m)}
            = {m \in errors : ~EmptyReturn(m)}
                \cup (IF (X # {} /\ Clashes(n)) \/ Undeclared(n) THEN {n} ELSE {})
      OBVIOUS
    <2>3. X = {} \/ X = {n}
      OBVIOUS
    <2> HIDE DEF n, D
    <2> QED BY ONLY <1>5, <2>1, <2>2, <2>3
  <1>8. Resolved(n, Declared(tasks', n), isField', errors')
    BY <1>4, <1>6, <1>7 DEF Resolved
  <1>9. Chain(os1, OpenScopes(tasks'), scopes', Declared(tasks', n))
    BY <1>4
  <1>10. At(tasks', scopes', isField', errors', n, os1)
    BY <1>3, <1>8, <1>9 DEF At
  <1> QED BY <1>10, AtNext

LEMMA EndResolves ==
  ASSUME IInv, ast' = ast, tasks # << >>, top.do # "visit",
         NEW c, NEW os, At(tasks, scopes, isField, errors, c, os),
         tasks' = << >> \o Tail(tasks),
         NEW os1, Chain(os1, OpenScopes(tasks) \ (IF IsLeave(top) THEN {top.node} ELSE {}),
                        scopes', Declared(tasks, c) \cup
                                   (IF top.do = "declare" THEN {top.node} ELSE {})),
         isField' = isField,
         NEW R \in SUBSET {top.node}, errors' = errors \cup R,
         top.node \in R <=> top.do = "declare" /\ Clashes(top.node)
  PROVE  RInv'
  <1> DEFINE n == top.node
             D == Declared(tasks, c)
             X == IF top.do = "declare" THEN {n} ELSE {}
  <1>1. /\ ast \in Trees(Names) /\ tasks \in Seq(Tasks) /\ top = tasks[1] /\ node = ast[n]
        /\ Walk(tasks, c) /\ Resolved(c, D, isField, errors)
    BY AtTheTop
  <1>2. Walk(tasks', c)
    BY <1>1, EndWalks
  <1>3. /\ Declared(tasks', c) = D \cup X
        /\ OpenScopes(tasks') = OpenScopes(tasks) \ (IF IsLeave(top) THEN {n} ELSE {})
        /\ top.do = "declare" => ast[n].kind = "vardecl"
    BY <1>1, EndDeclares
  <1>4. {m \in errors' : ~EmptyReturn(m)}
          = {m \in D \cup X : Clashes(m)} \cup {m \in 1..c : Undeclared(m)}
    <2>1. {m \in errors : ~EmptyReturn(m)}
            = {m \in D : Clashes(m)} \cup {m \in 1..c : Undeclared(m)}
      BY <1>1 DEF Resolved
    <2>2. n \in R => ~EmptyReturn(n)
      BY <1>3 DEF EmptyReturn
    <2>3. {m \in errors' : ~EmptyReturn(m)} = {m \in errors : ~EmptyReturn(m)} \cup R
      BY <2>2
    <2>4. R = {m \in X : Clashes(m)}
      OBVIOUS
    <2> HIDE DEF n, D, X
    <2> QED BY ONLY <2>1, <2>3, <2>4
  <1>5. Resolved(c, Declared(tasks', c), isField', errors')
    BY <1>1, <1>3, <1>4 DEF Resolved
  <1>6. Chain(os1, OpenScopes(tasks'), scopes', Declared(tasks', c))
    BY <1>3
  <1>7. At(tasks', scopes', isField', errors', c, os1)
    BY <1>2, <1>5, <1>6 DEF At
  <1> QED BY <1>7, AtNext

(* The tasks that each visit adds, by the kind of its node.                *)
LEMMA TasksByKind ==
  ASSUME ast \in Trees(Names), NEW n \in DOMAIN ast
  PROVE  /\ Ends(n) => TasksOf(n) = VisitAll(ast[n].kids) \o <<Task(Ending(n), n)>>
         /\ ~Ends(n) => TasksOf(n) = VisitAll(ast[n].kids)
         /\ ast[n].kids = << >> /\ ~Ends(n) => TasksOf(n) = << >>
         /\ ast[n].kind \in {"field", "variable"} => ast[n].kids = << >>
  <1>1. ast[n].kids \in Seq(DOMAIN ast)
    BY TreeTypes
  <1>2. VisitAll(ast[n].kids) \in Seq(Tasks)
    BY <1>1, LeavesOfVisits
  <1>3. Ends(n) => TasksOf(n) = VisitAll(ast[n].kids) \o <<Task(Ending(n), n)>>
    BY DEF TasksOf, EndOf
  <1>4. ~Ends(n) => TasksOf(n) = VisitAll(ast[n].kids)
    <2> DEFINE vs == VisitAll(ast[n].kids)
    <2>1. ~Ends(n) => TasksOf(n) = vs \o << >>
      BY DEF TasksOf
    <2>2. vs \in Seq(Tasks)
      BY <1>2
    <2> HIDE DEF vs
    <2>3. vs \o << >> = vs
      BY <2>2, ConcatEmptySeq
    <2>4. ~Ends(n) => TasksOf(n) = vs
      BY <2>1, <2>3
    <2> QED BY <2>4 DEF vs
  <1>5. ast[n].kids = << >> => VisitAll(ast[n].kids) = << >>
    <2> SUFFICES ASSUME ast[n].kids = << >> PROVE VisitAll(ast[n].kids) = << >>
      OBVIOUS
    <2> DEFINE vs == VisitAll(ast[n].kids)
    <2>1. DOMAIN vs = {}
      BY DEF VisitAll
    <2>2. vs \in Seq(Tasks)
      BY <1>2
    <2> HIDE DEF vs
    <2>3. Len(vs) = 0
      BY <2>1, <2>2, LenProperties
    <2>4. vs = << >>
      BY <2>2, <2>3, EmptySeq
    <2> QED BY <2>4 DEF vs
  <1>6. ast[n].kind \in {"field", "variable"} => ast[n].kids = << >>
    <2>1. WellShaped(ast, n)
      BY NodeKinds
    <2>2. ast[n].kind \in {"field", "variable"} => Len(ast[n].kids) = 0
      BY <2>1 DEF WellShaped
    <2> QED BY <1>1, <2>2, EmptySeq
  <1> QED BY <1>3, <1>4, <1>5, <1>6

(* No scope is entered that something was declared in.                     *)
LEMMA NothingInsideYet ==
  ASSUME ast \in Trees(Names), NEW n \in DOMAIN ast, NEW D, D \subseteq 1..n,
         \A d \in D : ast[d].kind \in Declaring
  PROVE  \A x : DeclaredIn(D, n, x) = {}
  <1> SUFFICES ASSUME NEW d \in D PROVE ScopeOf(d) # n
    BY DEF DeclaredIn
  <1>1. d \in DOMAIN ast /\ d <= n /\ n \in Nat /\ d \in Nat
    BY NodesOf
  <1>2. d # 1
    BY <1>1, DeclaringNodes
  <1>3. ScopeOf(d) \in 1..(d - 1)
    BY <1>1, <1>2, ScopeOfNode
  <1> QED BY <1>1, <1>3

LEMMA VisitedAndDeclared ==
  ASSUME IInv, tasks # << >>, top.do \in {"visit", "declare"}, node.kind \in Declaring,
         NEW c, NEW os, At(tasks, scopes, isField, errors, c, os)
  PROVE  LET n == top.node
             D == Declared(tasks, c)
             S == OpenScopes(tasks)
         IN
         /\ Chain(os, S, Declare(scopes, node.name, n), D \cup {n})
         /\ Declare(scopes, node.name, n) \in Seq(Scopes)
         /\ Reported(scopes, node.name, n) = errors \cup (IF Clashes(n) THEN {n} ELSE {})
         /\ D \cup {n} \subseteq 1..n
         /\ \A d \in D \cup {n} : ast[d].kind \in Declaring
  <1> DEFINE n == top.node
             D == Declared(tasks, c)
             S == OpenScopes(tasks)
  <1>1. /\ ast \in Trees(Names) /\ tasks \in Seq(Tasks) /\ scopes \in Seq(Scopes)
        /\ top = tasks[1] /\ n \in DOMAIN ast /\ node = ast[n] /\ n \in Nat \ {0}
        /\ node.name \in Names /\ node.name # "this"
        /\ Walk(tasks, c) /\ Chain(os, S, scopes, D) /\ D \subseteq Nat \ {0}
    BY AtTheTop
  <1>2. n # 1
    BY <1>1, DeclaringNodes
  <1>3. /\ D \subseteq 1..(n - 1)
        /\ ScopeOf(n) \in S /\ \A s \in S : s <= ScopeOf(n)
        /\ Clashes(n) <=> DeclaredIn(D, ScopeOf(n), node.name) # {}
    BY <1>1, <1>2, ViewFromHere
  <1> HIDE DEF n, D, S
  <1>4. scopes # << >> /\ os[1] = ScopeOf(n)
    BY <1>1, <1>3, ChainTop
  <1>5. \A e \in DeclaredIn(D, os[1], node.name) : e < n
    <2> SUFFICES ASSUME NEW e \in DeclaredIn(D, os[1], node.name) PROVE e < n
      OBVIOUS
    <2>1. e \in D
      BY DEF DeclaredIn
    <2>2. e \in 1..(n - 1) /\ n \in Nat
      BY <1>1, <1>3, <2>1
    <2> QED BY ONLY <2>2
  <1>6. /\ Chain(os, S, Declare(scopes, node.name, n), D \cup {n})
        /\ Holds(Head(scopes), node.name) <=> DeclaredIn(D, os[1], node.name) # {}
    BY <1>1, <1>4, <1>5, ChainDeclare
  <1>7. Reported(scopes, node.name, n) = errors \cup (IF Clashes(n) THEN {n} ELSE {})
    BY <1>3, <1>4, <1>6 DEF Reported
  <1>8. Declare(scopes, node.name, n) \in Seq(Scopes)
    BY <1>1, <1>4, DeclareTypes
  <1>9. D \cup {n} \subseteq 1..n
    <2>1. D \subseteq 1..(n - 1) /\ n \in Nat \ {0}
      BY <1>1, <1>3
    <2> QED BY ONLY <2>1
  <1>10. \A d \in D \cup {n} : ast[d].kind \in Declaring
    BY <1>1 DEF D, Declared
  <1> QED BY <1>6, <1>7, <1>8, <1>9, <1>10 DEF n, D, S

LEMMA EmptyScopeEntered ==
  ASSUME ast \in Trees(Names), NEW n \in DOMAIN ast, NEW os, NEW S, NEW ss \in Seq(Scopes),
         NEW D, Chain(os, S, ss, D), \A s \in S : s < n,
         D \subseteq 1..n, \A d \in D : ast[d].kind \in Declaring
  PROVE  /\ ast[n].kind # "record" =>
              Chain(<<n>> \o os, S \cup {n}, enterScope(ss), D)
         /\ ast[n].kind = "record" =>
              Chain(<<n>> \o os, S \cup {n}, Declare(enterScope(ss), "this", NoDecl), D)
  <1>1. n \in Nat
    BY NodesOf
  <1>2. \A x : DeclaredIn(D, n, x) = {}
    BY NothingInsideYet
  <1>3. EmptyScope \in Scopes /\ \A x \in Names : EmptyScope[x] = Absent
    BY DEF EmptyScope, Scopes
  <1>4. ASSUME ast[n].kind # "record"
        PROVE  Chain(<<n>> \o os, S \cup {n}, enterScope(ss), D)
    <2>1. \A x \in Names : Entry(EmptyScope[x], D, n, x)
      BY <1>2, <1>3, <1>4 DEF Entry
    <2>2. Chain(<<n>> \o os, S \cup {n}, <<EmptyScope>> \o ss, D)
      <3> HIDE DEF Scopes
      <3> QED BY <1>1, <1>3, <2>1, ChainEnter
    <2> QED BY <2>2 DEF enterScope
  <1>5. ASSUME ast[n].kind = "record"
        PROVE  Chain(<<n>> \o os, S \cup {n}, Declare(enterScope(ss), "this", NoDecl), D)
    <2> DEFINE f == IF "this" \in Names THEN [EmptyScope EXCEPT !["this"] = NoDecl]
                    ELSE EmptyScope
               in == enterScope(ss)
    <2>1. f \in Scopes
      BY <1>3 DEF Scopes
    <2>2. \A x \in Names : f[x] = IF x = "this" THEN NoDecl ELSE Absent
      BY <1>3 DEF Scopes
    <2>3. \A x \in Names : Entry(f[x], D, n, x)
      BY <1>2, <1>5, <2>2 DEF Entry
    <2>4. Chain(<<n>> \o os, S \cup {n}, <<f>> \o ss, D)
      <3> HIDE DEF Scopes, f
      <3> QED BY <1>1, <2>1, <2>3, ChainEnter
    <2>5. /\ in \in Seq(Scopes) /\ Len(in) = 1 + Len(ss) /\ Len(ss) \in Nat /\ in[1] = EmptyScope
          /\ \A i \in 1..Len(ss) : in[1 + i] = ss[i]
      <3> HIDE DEF Scopes
      <3>1. /\ <<EmptyScope>> \o ss \in Seq(Scopes)
            /\ Len(<<EmptyScope>> \o ss) = 1 + Len(ss) /\ Len(ss) \in Nat
            /\ (<<EmptyScope>> \o ss)[1] = EmptyScope
            /\ \A i \in 1..Len(ss) : (<<EmptyScope>> \o ss)[1 + i] = ss[i]
        BY <1>3, Prepended
      <3> QED BY <3>1 DEF enterScope
    <2>6. /\ <<f>> \o ss \in Seq(Scopes) /\ Len(<<f>> \o ss) = 1 + Len(ss)
          /\ (<<f>> \o ss)[1] = f
          /\ \A i \in 1..Len(ss) : (<<f>> \o ss)[1 + i] = ss[i]
      <3> HIDE DEF Scopes, f
      <3> QED BY <2>1, Prepended
    <2> DEFINE fs == <<f>> \o ss
               out == Declare(in, "this", NoDecl)
    <2>7. Head(in) = EmptyScope
      <3> HIDE DEF in, Scopes
      <3> QED BY <2>5
    <2>8. /\ out \in Seq(Scopes) /\ Len(out) = 1 + Len(ss) /\ out[1] = f
          /\ \A i \in 1..Len(ss) : out[1 + i] = ss[i]
      <3>1. CASE Holds(Head(in), "this")
        <4>1. "this" \notin Names
          BY <1>3, <2>7, <3>1 DEF Holds
        <4>2. out = in /\ f = EmptyScope
          BY <3>1, <4>1 DEF Declare
        <4> HIDE DEF in, out, f, Scopes
        <4> QED BY <2>5, <4>2
      <3>2. CASE ~Holds(Head(in), "this")
        <4>1. out = [in EXCEPT ![1]["this"] = NoDecl]
          BY <3>2 DEF Declare
        <4>2. [EmptyScope EXCEPT !["this"] = NoDecl] = f
          <5>1. CASE "this" \in Names
            BY <5>1
          <5>2. CASE "this" \notin Names
            BY <5>2 DEF EmptyScope
          <5> QED BY <5>1, <5>2
        <4> HIDE DEF in, f, Scopes
        <4>3. out = [in EXCEPT ![1] = f]
          BY <2>5, <4>1, <4>2
        <4> HIDE DEF out
        <4>4. 1 \in 1..Len(in) /\ \A i \in 1..Len(ss) : 1 + i \in 1..Len(in) /\ 1 + i # 1
          BY <2>5
        <4> QED BY <2>1, <2>5, <4>3, <4>4
      <3> QED BY <3>1, <3>2
    <2> HIDE DEF in, out, f, fs, Scopes
    <2>9. fs \in Seq(Scopes) /\ Len(fs) = Len(out) /\ \A i \in 1..Len(fs) : fs[i] = out[i]
      <3>1. /\ fs \in Seq(Scopes) /\ Len(fs) = 1 + Len(ss) /\ fs[1] = f
            /\ \A i \in 1..Len(ss) : fs[1 + i] = ss[i]
        BY <2>6 DEF fs
      <3>2. ASSUME NEW i \in 1..Len(fs) PROVE fs[i] = out[i]
        <4>1. i = 1 \/ (i - 1 \in 1..Len(ss) /\ 1 + (i - 1) = i)
          BY <2>5, <3>1
        <4> QED BY <2>8, <3>1, <4>1
      <3> QED BY <2>8, <3>1, <3>2
    <2>10. fs = out
      BY <2>8, <2>9, SeqEqual
    <2> QED BY <2>4, <2>10 DEF fs, out, in
  <1> QED BY <1>4, <1>5

(* Scopes and declarations of one visit, put together.                     *)
LEMMA KindsTell ==
  ASSUME NEW n
  PROVE  /\ ast[n].kind # "variable" => ~NamesField(n) /\ ~Undeclared(n)
         /\ ast[n].kind # "return" => ~EmptyReturn(n)
         /\ ast[n].kind \notin Declaring => ~Clashes(n)
         /\ ast[n].kind \in {"unit", "record", "compound"} => Ends(n) /\ Scoping(n) /\ Ending(n) = "leave"
         /\ ast[n].kind \in {"function", "method"} =>
              /\ Scoping(n) <=> ast[n].kids # << >>
              /\ Ends(n) <=> ast[n].kids # << >>
              /\ Ending(n) = "endFunction"
         /\ ast[n].kind = "vardecl" => Ends(n) /\ ~Scoping(n) /\ Ending(n) = "declare"
         /\ ast[n].kind \notin {"unit", "record", "compound", "function", "method", "vardecl"} =>
              ~Ends(n) /\ ~Scoping(n)
  BY DEF NamesField, Undeclared, EmptyReturn, Clashes, Ends, Scoping, Ending

LEMMA ScopesStandAbove ==
  ASSUME IInv, tasks # << >>, top.do \in {"visit", "declare"},
         NEW c, NEW os, At(tasks, scopes, isField, errors, c, os)
  PROVE  /\ \A s \in OpenScopes(tasks) : s < top.node
         /\ Declared(tasks, c) \subseteq 1..top.node
         /\ \A d \in Declared(tasks, c) : ast[d].kind \in Declaring
  <1> DEFINE n == top.node
  <1>1. /\ ast \in Trees(Names) /\ tasks \in Seq(Tasks) /\ top = tasks[1]
        /\ n \in DOMAIN ast /\ Walk(tasks, c) /\ n \in Nat \ {0}
    BY AtTheTop
  <1>2. OpenScopes(tasks) \subseteq 1..(n - 1)
    <2>1. OpenScopes(tasks) = ScopesAround(n)
      BY <1>1, SeenFromHere
    <2> QED BY <2>1 DEF ScopesAround, Enclosing
  <1>3. Declared(tasks, c) \subseteq 1..(n - 1)
    BY <1>1, ViewFromHere
  <1>4. \A s \in 1..(n - 1) : s < n /\ s \in 1..n
    BY <1>1
  <1> QED BY <1>2, <1>3, <1>4 DEF Declared

LEMMA EnteringResolves ==
  ASSUME IInv, RInv, ast' = ast, tasks # << >>, top.do = "visit",
         node.kind \in {"unit", "compound"},
         tasks' = (VisitAll(node.kids) \o <<Task("leave", top.node)>>) \o Tail(tasks),
         scopes' = enterScope(scopes), isField' = isField, errors' = errors
  PROVE  RInv'
  <1> DEFINE n == top.node
  <1>1. PICK c, os : At(tasks, scopes, isField, errors, c, os)
    BY DEF RInv
  <1>2. /\ ast \in Trees(Names) /\ n \in DOMAIN ast /\ node = ast[n] /\ scopes \in Seq(Scopes)
        /\ Chain(os, OpenScopes(tasks), scopes, Declared(tasks, c))
    BY <1>1, AtTheTop
  <1>3. /\ \A s \in OpenScopes(tasks) : s < n
        /\ Declared(tasks, c) \subseteq 1..n
        /\ \A d \in Declared(tasks, c) : ast[d].kind \in Declaring
    BY <1>1, ScopesStandAbove
  <1>4. /\ Ends(n) /\ Scoping(n) /\ Ending(n) = "leave" /\ ~NamesField(n) /\ ~Undeclared(n)
    BY <1>2, KindsTell
  <1>5. tasks' = TasksOf(n) \o Tail(tasks)
    BY <1>2, <1>4, TasksByKind
  <1>6. node.kind \notin Declaring /\ node.kind # "record"
    BY DEF Declaring
  <1>7. Chain(<<n>> \o os, OpenScopes(tasks) \cup {n}, scopes', Declared(tasks, c))
    BY <1>2, <1>3, <1>6, EmptyScopeEntered
  <1> HIDE DEF n
  <1>8. /\ Chain(<<n>> \o os, OpenScopes(tasks) \cup (IF Scoping(n) THEN {n} ELSE {}), scopes',
                 Declared(tasks, c) \cup {})
        /\ {} = (IF node.kind \in Declaring \ {"vardecl"} THEN {n} ELSE {})
        /\ isField' = isField \cup (IF NamesField(n) THEN {n} ELSE {})
        /\ {} \in SUBSET {n} /\ errors' = errors \cup {}
    BY <1>4, <1>6, <1>7
  <1>9. n \in {} /\ ~EmptyReturn(n) <=> ({} # {} /\ Clashes(n)) \/ Undeclared(n)
    BY <1>4
  <1> DEFINE X == {}
             R == {}
  <1> HIDE DEF X, R
  <1>10. /\ Chain(<<n>> \o os, OpenScopes(tasks) \cup (IF Scoping(n) THEN {n} ELSE {}), scopes',
                 Declared(tasks, c) \cup X)
         /\ X = (IF node.kind \in Declaring \ {"vardecl"} THEN {n} ELSE {})
         /\ R \in SUBSET {n} /\ errors' = errors \cup R
         /\ n \in R /\ ~EmptyReturn(n) <=> (X # {} /\ Clashes(n)) \/ Undeclared(n)
    BY <1>8, <1>9 DEF X, R
  <1> QED BY <1>1, <1>5, <1>8, <1>10, VisitResolves DEF n

(* Visits that neither enter a scope nor declare.                          *)
LEMMA PlainResolves ==
  ASSUME IInv, RInv, ast' = ast, tasks # << >>, top.do = "visit",
         ~Scoping(top.node), node.kind \notin Declaring \ {"vardecl"},
         tasks' = TasksOf(top.node) \o Tail(tasks),
         scopes' = scopes,
         isField' = isField \cup (IF NamesField(top.node) THEN {top.node} ELSE {}),
         NEW R \in SUBSET {top.node}, errors' = errors \cup R,
         top.node \in R /\ ~EmptyReturn(top.node) <=> Undeclared(top.node)
  PROVE  RInv'
  <1> DEFINE n == top.node
             X == {}
  <1>1. PICK c, os : At(tasks, scopes, isField, errors, c, os)
    BY DEF RInv
  <1>2. Chain(os, OpenScopes(tasks), scopes, Declared(tasks, c))
    BY <1>1, AtTheTop
  <1>3. /\ Chain(os, OpenScopes(tasks) \cup (IF Scoping(n) THEN {n} ELSE {}), scopes',
                 Declared(tasks, c) \cup X)
        /\ X = (IF node.kind \in Declaring \ {"vardecl"} THEN {n} ELSE {})
        /\ n \in R /\ ~EmptyReturn(n) <=> (X # {} /\ Clashes(n)) \/ Undeclared(n)
    BY <1>2
  <1> HIDE DEF X, n
  <1> QED BY <1>1, <1>3, VisitResolves DEF n

(* Visits that declare: fields, functions and records.                     *)
LEMMA DeclaringResolves ==
  ASSUME IInv, RInv, ast' = ast, tasks # << >>, top.do = "visit",
         node.kind \in Declaring \ {"vardecl"},
         tasks' = TasksOf(top.node) \o Tail(tasks),
         \/ ~Scoping(top.node) /\ scopes' = Declare(scopes, node.name, top.node)
         \/ /\ Scoping(top.node) /\ node.kind # "record"
            /\ scopes' = enterScope(Declare(scopes, node.name, top.node))
         \/ /\ Scoping(top.node) /\ node.kind = "record"
            /\ scopes' = Declare(enterScope(Declare(scopes, node.name, top.node)), "this", NoDecl),
         isField' = isField, errors' = Reported(scopes, node.name, top.node)
  PROVE  RInv'
  <1> DEFINE n == top.node
             X == {n}
             R == IF Clashes(n) THEN {n} ELSE {}
             declared == Declare(scopes, node.name, n)
  <1>1. PICK c, os : At(tasks, scopes, isField, errors, c, os)
    BY DEF RInv
  <1> DEFINE D == Declared(tasks, c)
             S == OpenScopes(tasks)
  <1>2. /\ ast \in Trees(Names) /\ n \in DOMAIN ast /\ node = ast[n]
    BY <1>1, AtTheTop
  <1>3. /\ Chain(os, S, declared, D \cup {n})
        /\ declared \in Seq(Scopes)
        /\ Reported(scopes, node.name, n) = errors \cup (IF Clashes(n) THEN {n} ELSE {})
        /\ D \cup {n} \subseteq 1..n
        /\ \A d \in D \cup {n} : ast[d].kind \in Declaring
    BY <1>1, VisitedAndDeclared
  <1>4. \A s \in S : s < n
    BY <1>1, ScopesStandAbove
  <1>5. ~NamesField(n) /\ ~Undeclared(n) /\ ~EmptyReturn(n)
    BY <1>2, KindsTell DEF Declaring
  <1> HIDE DEF n, D, S, declared
  <1>6. \E os1 : Chain(os1, S \cup (IF Scoping(n) THEN {n} ELSE {}), scopes', D \cup X)
    <2>1. CASE ~Scoping(n) /\ scopes' = declared
      <3>1. S \cup (IF Scoping(n) THEN {n} ELSE {}) = S
        BY <2>1
      <3> QED BY <1>3, <2>1, <3>1
    <2>2. CASE Scoping(n) /\ node.kind # "record" /\ scopes' = enterScope(declared)
      <3>1. Chain(<<n>> \o os, S \cup {n}, enterScope(declared), D \cup {n})
        BY <1>2, <1>3, <1>4, <2>2, EmptyScopeEntered
      <3>2. S \cup (IF Scoping(n) THEN {n} ELSE {}) = S \cup {n}
        BY <2>2
      <3> QED BY <2>2, <3>1, <3>2
    <2>3. CASE /\ Scoping(n) /\ node.kind = "record"
               /\ scopes' = Declare(enterScope(declared), "this", NoDecl)
      <3>1. Chain(<<n>> \o os, S \cup {n}, Declare(enterScope(declared), "this", NoDecl), D \cup {n})
        BY <1>2, <1>3, <1>4, <2>3, EmptyScopeEntered
      <3>2. S \cup (IF Scoping(n) THEN {n} ELSE {}) = S \cup {n}
        BY <2>3
      <3> QED BY <2>3, <3>1, <3>2
    <2> QED BY <2>1, <2>2, <2>3 DEF n, declared
  <1>7. /\ X = (IF node.kind \in Declaring \ {"vardecl"} THEN {n} ELSE {})
        /\ isField' = isField \cup (IF NamesField(n) THEN {n} ELSE {})
        /\ R \in SUBSET {n}
        /\ n \in R /\ ~EmptyReturn(n) <=> (X # {} /\ Clashes(n)) \/ Undeclared(n)
    BY <1>5
  <1>8. errors' = errors \cup R
    BY <1>3 DEF n
  <1> HIDE DEF X, R
  <1> QED BY <1>1, <1>6, <1>7, <1>8, VisitResolves DEF n, D, S

LEMMA DeclareVarResolves ==
  ASSUME IInv, RInv, DeclareVar
  PROVE  RInv'
  <1> DEFINE n == top.node
             R == IF Clashes(n) THEN {n} ELSE {}
  <1>1. /\ tasks # << >> /\ top.do = "declare" /\ ast' = ast
        /\ tasks' = << >> \o Tail(tasks)
        /\ scopes' = Declare(scopes, node.name, n)
        /\ errors' = Reported(scopes, node.name, n) /\ isField' = isField
    BY DEF DeclareVar, Doing, Continue
  <1>2. PICK c, os : At(tasks, scopes, isField, errors, c, os)
    BY DEF RInv
  <1>3. /\ ast \in Trees(Names) /\ tasks \in Seq(Tasks) /\ top = tasks[1] /\ node = ast[n]
        /\ Walk(tasks, c)
    BY <1>1, <1>2, AtTheTop
  <1>4. ast[n].kind = "vardecl"
    BY <1>1, <1>3, EndDeclares
  <1>5. node.kind \in Declaring /\ ~IsLeave(top)
    BY <1>1, <1>3, <1>4 DEF Declaring, IsLeave
  <1>6. /\ Chain(os, OpenScopes(tasks), scopes', Declared(tasks, c) \cup {n})
        /\ errors' = errors \cup R
    BY <1>1, <1>2, <1>5, VisitedAndDeclared
  <1>7. /\ OpenScopes(tasks) \ (IF IsLeave(top) THEN {n} ELSE {}) = OpenScopes(tasks)
        /\ (IF top.do = "declare" THEN {n} ELSE {}) = {n}
        /\ R \in SUBSET {n} /\ (n \in R <=> top.do = "declare" /\ Clashes(n))
    BY <1>1, <1>5
  <1> HIDE DEF n, R
  <1>8. Chain(os, OpenScopes(tasks) \ (IF IsLeave(top) THEN {n} ELSE {}), scopes',
              Declared(tasks, c) \cup (IF top.do = "declare" THEN {n} ELSE {}))
    BY <1>6, <1>7
  <1>9. top.do # "visit"
    BY <1>1
  <1> QED BY <1>1, <1>2, <1>6, <1>7, <1>8, <1>9, EndResolves DEF n

LEMMA LeavingResolves ==
  ASSUME IInv, RInv, ast' = ast, tasks # << >>, IsLeave(top),
         tasks' = << >> \o Tail(tasks), scopes' = leaveScope(scopes),
         isField' = isField, errors' = errors
  PROVE  RInv'
  <1> DEFINE n == top.node
             S == OpenScopes(tasks)
             R == {}
  <1>1. PICK c, os : At(tasks, scopes, isField, errors, c, os)
    BY DEF RInv
  <1>2. top.do # "visit" /\ top.do # "declare"
    BY DEF IsLeave
  <1>3. /\ ast \in Trees(Names) /\ tasks \in Seq(Tasks) /\ top = tasks[1] /\ node = ast[n]
        /\ Walk(tasks, c) /\ scopes \in Seq(Scopes) /\ n \in Nat \ {0}
        /\ Chain(os, S, scopes, Declared(tasks, c))
    BY <1>1, AtTheTop
  <1>4. n \in S /\ \A s \in S : s # n => s \in Enclosing(n)
    BY <1>2, <1>3, EndDeclares
  <1>5. \A s \in S : s <= n
    <2>1. \A s \in Enclosing(n) : s <= n
      BY <1>3 DEF Enclosing
    <2> QED BY <1>3, <1>4, <2>1
  <1> HIDE DEF n, S
  <1>6. scopes # << >> /\ os[1] = n
    BY <1>3, <1>4, <1>5, ChainTop
  <1>7. Chain(Tail(os), S \ {n}, scopes', Declared(tasks, c))
    <2>1. Chain(Tail(os), S \ {os[1]}, Tail(scopes), Declared(tasks, c))
      BY <1>3, <1>6, ChainLeave
    <2> QED BY <1>6, <2>1 DEF leaveScope
  <1>8. /\ (IF IsLeave(top) THEN {n} ELSE {}) = {n}
        /\ Declared(tasks, c) \cup (IF top.do = "declare" THEN {n} ELSE {}) = Declared(tasks, c)
        /\ R \in SUBSET {n} /\ errors' = errors \cup R
        /\ (n \in R <=> top.do = "declare" /\ Clashes(n))
    BY <1>2
  <1>9. Chain(Tail(os), S \ (IF IsLeave(top) THEN {n} ELSE {}), scopes',
              Declared(tasks, c) \cup (IF top.do = "declare" THEN {n} ELSE {}))
    BY <1>7, <1>8
  <1> HIDE DEF R
  <1> QED BY <1>1, <1>2, <1>8, <1>9, EndResolves DEF n, S

LEMMA VariableResolves ==
  ASSUME IInv, RInv, VisitVariableExpr
  PROVE  RInv'
  <1> DEFINE n == top.node
             d == lookup(scopes, node.name)
             R == IF Undeclared(n) THEN {n} ELSE {}
  <1>1. /\ tasks # << >> /\ top.do = "visit" /\ node.kind = "variable" /\ ast' = ast
        /\ tasks' = << >> \o Tail(tasks) /\ scopes' = scopes
        /\ errors' = IF d = Absent THEN errors \cup {n} ELSE errors
        /\ isField' = IF d \in DOMAIN ast /\ ast[d].kind = "field"
                      THEN isField \cup {n} ELSE isField
    BY DEF VisitVariableExpr, Visiting, Doing, Continue
  <1>2. PICK c, os : At(tasks, scopes, isField, errors, c, os)
    BY DEF RInv
  <1>3. /\ ast \in Trees(Names) /\ tasks \in Seq(Tasks) /\ top = tasks[1] /\ node = ast[n]
        /\ Walk(tasks, c) /\ scopes \in Seq(Scopes) /\ n \in Nat \ {0} /\ n \in DOMAIN ast
        /\ node.name \in Names /\ node.name # "this"
        /\ Chain(os, OpenScopes(tasks), scopes, Declared(tasks, c))
        /\ Declared(tasks, c) \subseteq Nat \ {0}
    BY <1>1, <1>2, AtTheTop
  <1>4. /\ InView(n) = {e \in Declared(tasks, c) :
                          ast[e].name = ast[n].name /\ ScopeOf(e) \in OpenScopes(tasks)}
        /\ Declared(tasks, c) \subseteq 1..(n - 1)
    BY <1>1, <1>3, ViewFromHere
  <1>5. /\ InView(n) = {} => d = Absent
        /\ InView(n) # {} => d = Meant(n) /\ Meant(n) \in InView(n)
    BY <1>3, <1>4, LookupFindsMeant
  <1>6. InView(n) # {} => d \in DOMAIN ast /\ d # Absent
    <2>1. \A e \in 1..(n - 1) : e \in DOMAIN ast /\ e # Absent
      BY <1>3, NodesOf DEF Absent
    <2> QED BY <1>4, <1>5, <2>1
  <1>7. Absent \notin DOMAIN ast
    BY <1>3, NodesOf DEF Absent
  <1> HIDE DEF d
  <1>8. errors' = errors \cup R
    BY <1>1, <1>3, <1>5, <1>6 DEF Undeclared
  <1>9. isField' = isField \cup (IF NamesField(n) THEN {n} ELSE {})
    BY <1>1, <1>3, <1>5, <1>6, <1>7 DEF NamesField
  <1>10. /\ R \in SUBSET {n} /\ ~EmptyReturn(n)
         /\ ~Scoping(n) /\ ~Ends(n) /\ node.kind \notin Declaring \ {"vardecl"}
    BY <1>1, <1>3, KindsTell DEF Declaring
  <1>11. n \in R /\ ~EmptyReturn(n) <=> Undeclared(n)
    BY <1>10
  <1>12. tasks' = TasksOf(n) \o Tail(tasks)
    BY <1>1, <1>3, <1>10, TasksByKind
  <1> HIDE DEF R, n
  <1> QED BY <1>1, <1>8, <1>9, <1>10, <1>11, <1>12, PlainResolves DEF n

LEMMA NextResolves == IInv /\ RInv /\ [Next]_semaVars => RInv'
  <1> SUFFICES ASSUME IInv, RInv, [Next]_semaVars PROVE RInv'
    OBVIOUS
  <1> DEFINE n == top.node
  <1>0. ASSUME tasks # << >>
        PROVE  ast \in Trees(Names) /\ n \in DOMAIN ast /\ node = ast[n]
    BY <1>0, AtTheTop DEF RInv
  <1>1. CASE VisitTranslationUnit
    BY <1>1, EnteringResolves DEF VisitTranslationUnit, Visiting, Doing, Continue
  <1>2. CASE VisitCompoundStmt
    BY <1>2, EnteringResolves DEF VisitCompoundStmt, Visiting, Doing, Continue
  <1>3. CASE VisitFunctionDecl
    <2>1. /\ tasks # << >> /\ top.do = "visit" /\ node.kind \in {"function", "method"}
          /\ ast' = ast /\ errors' = Reported(scopes, node.name, n) /\ isField' = isField
      BY <1>3 DEF VisitFunctionDecl, Visiting, Doing
    <2>2. /\ Scoping(n) <=> node.kids # << >>
          /\ Ends(n) <=> node.kids # << >>
          /\ Ending(n) = "endFunction"
      BY <1>0, <2>1, KindsTell
    <2>3. CASE node.kids = << >>
      <3>1. scopes' = Declare(scopes, node.name, n) /\ tasks' = << >> \o Tail(tasks)
        BY <1>3, <2>3 DEF VisitFunctionDecl, Continue
      <3>2. tasks' = TasksOf(n) \o Tail(tasks)
        BY <1>0, <2>1, <2>2, <2>3, <3>1, TasksByKind
      <3> QED BY <2>1, <2>2, <2>3, <3>1, <3>2, DeclaringResolves DEF Declaring
    <2>4. CASE node.kids # << >>
      <3>1. /\ scopes' = enterScope(Declare(scopes, node.name, n))
            /\ tasks' = (VisitAll(node.kids) \o <<Task("endFunction", n)>>) \o Tail(tasks)
        BY <1>3, <2>4 DEF VisitFunctionDecl, Continue
      <3>2. tasks' = TasksOf(n) \o Tail(tasks)
        BY <1>0, <2>1, <2>2, <2>4, <3>1, TasksByKind
      <3> QED BY <2>1, <2>2, <2>4, <3>1, <3>2, DeclaringResolves DEF Declaring
    <2> QED BY <2>3, <2>4
  <1>4. CASE EndFunctionDecl
    BY <1>4, LeavingResolves DEF EndFunctionDecl, Doing, Continue, IsLeave
  <1>5. CASE LeaveScope
    BY <1>5, LeavingResolves DEF LeaveScope, Doing, Continue, IsLeave
  <1>6. CASE VisitFieldDecl
    <2>1. /\ tasks # << >> /\ top.do = "visit" /\ node.kind = "field"
          /\ ast' = ast /\ errors' = Reported(scopes, node.name, n) /\ isField' = isField
          /\ scopes' = Declare(scopes, node.name, n) /\ tasks' = << >> \o Tail(tasks)
      BY <1>6 DEF VisitFieldDecl, Visiting, Doing, Continue
    <2>2. ~Scoping(n) /\ ~Ends(n)
      BY <1>0, <2>1, KindsTell
    <2>3. tasks' = TasksOf(n) \o Tail(tasks)
      BY <1>0, <2>1, <2>2, TasksByKind
    <2> QED BY <2>1, <2>2, <2>3, DeclaringResolves DEF Declaring
  <1>7. CASE VisitRecordDecl
    <2>1. /\ tasks # << >> /\ top.do = "visit" /\ node.kind = "record"
          /\ ast' = ast /\ errors' = Reported(scopes, node.name, n) /\ isField' = isField
          /\ scopes' = Declare(enterScope(Declare(scopes, node.name, n)), "this", NoDecl)
          /\ tasks' = (VisitAll(node.kids) \o <<Task("leave", n)>>) \o Tail(tasks)
      BY <1>7 DEF VisitRecordDecl, Visiting, Doing, Continue
    <2>2. Scoping(n) /\ Ends(n) /\ Ending(n) = "leave"
      BY <1>0, <2>1, KindsTell
    <2>3. tasks' = TasksOf(n) \o Tail(tasks)
      BY <1>0, <2>1, <2>2, TasksByKind
    <2> QED BY <2>1, <2>2, <2>3, DeclaringResolves DEF Declaring
  <1>8. CASE VisitVarDecl
    <2>1. /\ tasks # << >> /\ top.do = "visit" /\ node.kind = "vardecl"
          /\ ast' = ast /\ errors' = errors \cup {} /\ isField' = isField /\ scopes' = scopes
          /\ tasks' = (VisitAll(node.kids) \o <<Task("declare", n)>>) \o Tail(tasks)
      BY <1>8 DEF VisitVarDecl, Visiting, Doing, Continue
    <2>2. ~Scoping(n) /\ Ends(n) /\ Ending(n) = "declare" /\ ~NamesField(n) /\ ~Undeclared(n)
      BY <1>0, <2>1, KindsTell
    <2>3. tasks' = TasksOf(n) \o Tail(tasks)
      BY <1>0, <2>1, <2>2, TasksByKind
    <2>4. /\ isField' = isField \cup (IF NamesField(n) THEN {n} ELSE {})
          /\ n \in {} /\ ~EmptyReturn(n) <=> Undeclared(n)
      BY <2>1, <2>2
    <2> HIDE DEF n
    <2> QED BY <2>1, <2>2, <2>3, <2>4, PlainResolves DEF n
  <1>9. CASE DeclareVar
    BY <1>9, DeclareVarResolves
  <1>10. CASE VisitReturnStmt
    <2> DEFINE R == IF node.kids = << >> /\ currentReturnType # "null" THEN {n} ELSE {}
    <2>1. /\ tasks # << >> /\ top.do = "visit" /\ node.kind = "return"
          /\ ast' = ast /\ errors' = errors \cup R /\ isField' = isField /\ scopes' = scopes
          /\ tasks' = VisitAll(node.kids) \o Tail(tasks)
      BY <1>10 DEF VisitReturnStmt, Visiting, Doing, Continue
    <2>2. ~Scoping(n) /\ ~Ends(n) /\ ~NamesField(n) /\ ~Undeclared(n)
      BY <1>0, <2>1, KindsTell
    <2>3. tasks' = TasksOf(n) \o Tail(tasks)
      BY <1>0, <2>1, <2>2, TasksByKind
    <2>4. /\ isField' = isField \cup (IF NamesField(n) THEN {n} ELSE {})
          /\ R \in SUBSET {n} /\ (n \in R => EmptyReturn(n))
      BY <1>0, <2>1, <2>2 DEF EmptyReturn
    <2>5. n \in R /\ ~EmptyReturn(n) <=> Undeclared(n)
      BY <2>2, <2>4
    <2>6. node.kind \notin Declaring \ {"vardecl"}
      BY <2>1 DEF Declaring
    <2> HIDE DEF n, R
    <2> QED BY <2>1, <2>2, <2>3, <2>4, <2>5, <2>6, PlainResolves DEF n
  <1>11. CASE VisitVariableExpr
    BY <1>11, VariableResolves
  <1>12. CASE VisitChildren
    <2> DEFINE R == {}
    <2>1. /\ tasks # << >> /\ top.do = "visit"
          /\ node.kind \in {"exprstmt", "declstmt", "if", "while", "binary", "member", "literal"}
          /\ ast' = ast /\ errors' = errors /\ isField' = isField /\ scopes' = scopes
          /\ tasks' = VisitAll(node.kids) \o Tail(tasks)
      BY <1>12 DEF VisitChildren, Visiting, Doing, Continue
    <2>2. ~Scoping(n) /\ ~Ends(n) /\ ~NamesField(n) /\ ~Undeclared(n)
      BY <1>0, <2>1, KindsTell
    <2>3. tasks' = TasksOf(n) \o Tail(tasks)
      BY <1>0, <2>1, <2>2, TasksByKind
    <2>4. /\ isField' = isField \cup (IF NamesField(n) THEN {n} ELSE {})
          /\ R \in SUBSET {n} /\ errors' = errors \cup R
          /\ n \in R /\ ~EmptyReturn(n) <=> Undeclared(n)
      BY <2>1, <2>2
    <2>5. node.kind \notin Declaring \ {"vardecl"}
      BY <2>1 DEF Declaring
    <2> HIDE DEF n, R
    <2> QED BY <2>1, <2>2, <2>3, <2>4, <2>5, PlainResolves DEF n
  <1>13. CASE UNCHANGED semaVars
    <2>1. PICK c, os : At(tasks, scopes, isField, errors, c, os)
      BY DEF RInv
    <2>2. ast' = ast /\ At(tasks', scopes', isField', errors', c, os)
      BY <1>13, <2>1 DEF semaVars
    <2> QED BY <2>2, AtNext
  <1> QED BY <1>1, <1>2, <1>3, <1>4, <1>5, <1>6, <1>7, <1>8, <1>9, <1>10, <1>11, <1>12, <1>13
          DEF Next

-----------------------------------------------------------------------------
LEMMA InitWalks ==
  ASSUME Init
  PROVE  Walk(<<Visit(1)>>, 0)
  <1> DEFINE start == <<Visit(1)>>
  <1>1. ast \in Trees(Names)
    BY ProgramsAssumption DEF Init
  <1>2. Len(ast) \in Nat \ {0} /\ DOMAIN ast = 1..Len(ast)
    BY <1>1, NodesOf
  <1>3. Len(start) = 1 /\ start[1] = Visit(1) /\ Visit(1).do = "visit" /\ Visit(1).node = 1
    BY DEF Visit, Task
  <1>4. \A i \in 1..Len(start) : i = 1
    BY <1>3
  <1> HIDE DEF start
  <1>5. Walk(start, 0)
    <2>1. \A i \in 1..Len(start) : Started(start[i], 0)
      BY <1>3, <1>4 DEF Started
    <2>2. \A j \in 1..Len(start) : \A i \in 1..(j - 1) : Follows(start[i], start[j])
      BY <1>3
    <2>3. ASSUME NEW m \in (0 + 1)..Len(ast)
          PROVE  m = 1 \/ 1 \in Enclosing(m)
      BY <1>1, <1>2, EnclosingNodes
    <2>4. Covered(start, 0)
      BY <1>3, <2>3 DEF Covered
    <2>5. Enclosing(1) = {}
      BY <1>1, <1>2, EnclosingNodes
    <2>6. EndsBehind(start)
      BY <1>3, <1>4, <2>5 DEF EndsBehind
    <2>7. 0 \in 0..Len(ast)
      BY <1>2
    <2> QED BY <2>1, <2>2, <2>4, <2>6, <2>7 DEF Walk
  <1> QED BY <1>5 DEF start

LEMMA InitResolves == Init => RInv
  <1> SUFFICES ASSUME Init PROVE RInv
    OBVIOUS
  <1> DEFINE start == <<Visit(1)>>
             none == << >>
  <1>1. /\ ast \in Trees(Names) /\ tasks = start /\ scopes = none
        /\ isField = {} /\ errors = {}
    BY ProgramsAssumption DEF Init
  <1>2. Len(start) = 1 /\ start[1] = Visit(1) /\ Visit(1).do = "visit" /\ Visit(1).node = 1
    BY DEF Visit, Task
  <1>3. \A i \in 1..Len(start) : i = 1
    BY <1>2
  <1> HIDE DEF start
  <1>4. Walk(start, 0)
    BY InitWalks DEF start
  <1>5. OpenScopes(start) = {}
    BY <1>2, <1>3 DEF OpenScopes, IsLeave
  <1>6. 1..0 = {}
    OBVIOUS
  <1>7. Declared(start, 0) = {}
    BY <1>6 DEF Declared
  <1>8. Chain(none, {}, none, {})
    BY DEF Chain
  <1>9. Resolved(0, {}, {}, {})
    BY <1>6 DEF Resolved
  <1>10. At(start, none, {}, {}, 0, none)
    BY <1>4, <1>5, <1>7, <1>8, <1>9 DEF At
  <1> HIDE DEF none
  <1> QED BY <1>1, <1>10 DEF RInv

LEMMA ResolutionInvariant == Spec => [](IInv /\ RInv)
  <1>1. Init => IInv /\ RInv
    BY InitEstablishes, InitResolves
  <1>2. (IInv /\ RInv) /\ [Next]_semaVars => (IInv /\ RInv)'
    BY NextKeeps, NextResolves
  <1> QED BY <1>1, <1>2, PTL DEF Spec

(* When nothing is left to do, every node was visited and every variable   *)
(* declared.                                                               *)
LEMMA AllVisited ==
  ASSUME ast \in Trees(Names), NEW c, Walk(<< >>, c)
  PROVE  /\ c = Len(ast) /\ DOMAIN ast = 1..c
         /\ Declared(<< >>, c) = {d \in DOMAIN ast : ast[d].kind \in Declaring}
  <1>1. Len(ast) \in Nat /\ DOMAIN ast = 1..Len(ast) /\ c \in 0..Len(ast)
    BY NodesOf DEF Walk
  <1>2. 1..Len(<< >>) = {}
    OBVIOUS
  <1>3. \A m \in (c + 1)..Len(ast) : FALSE
    BY <1>2 DEF Walk, Covered
  <1>4. c = Len(ast)
    <2>1. SUFFICES ASSUME c # Len(ast) PROVE FALSE
      OBVIOUS
    <2> DEFINE len == Len(ast)
    <2> HIDE DEF len
    <2>2. len \in Nat /\ c \in Nat /\ c <= len /\ c # len
      <3>1. len \in Nat /\ c \in 0..len /\ c # len
        BY ONLY <1>1, <2>1 DEF len
      <3> QED BY ONLY <3>1
    <2>3. len \in (c + 1)..len
      BY ONLY <2>2
    <2> QED BY <1>3, <2>3 DEF len
  <1>5. \A d : ~IsPending(<< >>, d)
    BY <1>2 DEF IsPending
  <1> QED BY <1>1, <1>4, <1>5 DEF Declared

(* isField is set on exactly the variables that the tree resolves to       *)
(* fields: Scope::lookup from the innermost scope, over the scopes that    *)
(* the visit methods opened and left on the way, finds the declaration     *)
(* that the blocks around the node and the order of the source tell.       *)
THEOREM FieldsAreResolved == Spec => []FieldsResolved
  <1>1. IInv /\ RInv => FieldsResolved
    <2> SUFFICES ASSUME IInv, RInv, Analyzed
                 PROVE  isField = {n \in DOMAIN ast : NamesField(n)}
      BY DEF FieldsResolved
    <2>1. PICK c, os : At(tasks, scopes, isField, errors, c, os)
      BY DEF RInv
    <2>2. ast \in Trees(Names) /\ tasks = << >>
      BY DEF IInv, Analyzed
    <2>3. DOMAIN ast = 1..c
      BY <2>1, <2>2, AllVisited DEF At
    <2>4. isField = {n \in 1..c : NamesField(n)}
      BY <2>1 DEF At, Resolved
    <2> QED BY <2>3, <2>4
  <1> QED BY <1>1, ResolutionInvariant, PTL

-----------------------------------------------------------------------------
(* Returns without a value.                                                *)
LEMMA KindOfParent ==
  ASSUME ast \in Trees(Names), NEW n \in DOMAIN ast, n # 1
  PROVE  /\ Parent(n) \in DOMAIN ast /\ Parent(n) < n
         /\ Enclosing(n) = {Parent(n)} \cup Enclosing(Parent(n))
         /\ ast[n].kind \in KindsOfKids(ast, Parent(n))
         /\ ast[Parent(n)].kids # << >>
         /\ ast[n].kind # "unit"
         /\ ast[n].kind = "function" => ast[Parent(n)].kind \in {"unit", "declstmt"}
         /\ ast[n].kind = "method" => ast[Parent(n)].kind = "record"
         /\ ast[n].kind = "record" => ast[Parent(n)].kind = "unit"
         /\ ast[n].kind \in StmtKinds =>
              ast[Parent(n)].kind \in {"function", "method", "compound", "if", "while"}
  <1> DEFINE p == Parent(n)
             ks == ast[p].kids
  <1>1. n \in 2..Len(ast) /\ p \in DOMAIN ast /\ Enclosing(n) = {p} \cup Enclosing(p)
    BY EnclosingNodes
  <1>2. p \in 1..(n - 1) /\ n \in KidsOf(ast, p)
    BY <1>1, ParentOf
  <1>3. /\ WellShaped(ast, p) /\ ast[n].kind \in KindsOfKids(ast, p)
        /\ ast[p].kind \in Kinds
    BY <1>1, <1>2, NodeKinds
  <1>4. ks \in Seq(DOMAIN ast) /\ DOMAIN ks = 1..Len(ks) /\ Len(ks) \in Nat
    BY <1>1, TreeTypes, LenProperties
  <1>5. PICK k \in 1..Len(ks) : n = ks[k]
    BY <1>2, <1>4 DEF KidsOf
  <1>6. ks # << >> /\ Len(ks) # 0
    <2>1. Len(ks) # 0
      BY <1>4, <1>5
    <2> QED BY <2>1, <1>4, EmptySeq
  <1>7. p < n
    BY <1>1, <1>2
  <1> DEFINE kind == ast[n].kind
             of == ast[p].kind
  <1>8. /\ kind # "unit"
        /\ kind = "function" => of \in {"unit", "declstmt"}
        /\ kind = "method" => of = "record"
        /\ kind = "record" => of = "unit"
        /\ kind \in StmtKinds => of \in {"function", "method", "compound", "if", "while"}
    <2>1. CASE of = "if"
      <3>1. /\ Len(ks) \in 2..3 /\ ast[ks[1]].kind \in ExprKinds
            /\ \A j \in 2..Len(ks) : ast[ks[j]].kind \in StmtKinds
        BY <1>3, <2>1 DEF WellShaped, Kid
      <3>2. kind \in ExprKinds \cup StmtKinds
        <4>1. k = 1 \/ k \in 2..Len(ks)
          BY <1>4, <1>5
        <4> QED BY <1>5, <3>1, <4>1
      <3> QED BY <2>1, <3>2 DEF ExprKinds, StmtKinds
    <2>2. CASE of = "while"
      <3>1. /\ Len(ks) = 2 /\ ast[ks[1]].kind \in ExprKinds /\ ast[ks[2]].kind \in StmtKinds
        BY <1>3, <2>2 DEF WellShaped, Kid
      <3>2. kind \in ExprKinds \cup StmtKinds
        <4>1. k = 1 \/ k = 2
          BY <1>5, <3>1
        <4> QED BY <1>5, <3>1, <4>1
      <3> QED BY <2>2, <3>2 DEF ExprKinds, StmtKinds
    <2>3. CASE of \in {"field", "literal", "variable"}
      BY <1>3, <1>6, <2>3 DEF WellShaped
    <2>4. CASE of \notin {"if", "while", "field", "literal", "variable"}
      <3>1. /\ of = "unit" => kind \in {"function", "vardecl", "record"}
            /\ of = "record" => kind \in {"field", "method"}
            /\ of \in {"function", "method"} => kind = "compound"
            /\ of \in {"vardecl", "return", "exprstmt", "binary", "member"} => kind \in ExprKinds
            /\ of = "compound" => kind \in StmtKinds
            /\ of = "declstmt" => kind \in {"vardecl", "function"}
        BY <1>3, <2>4 DEF WellShaped
      <3>2. of \in {"unit", "record", "function", "method", "vardecl", "return", "exprstmt",
                    "binary", "member", "compound", "declstmt"}
        BY <1>3, <2>4 DEF Kinds, ExprKinds, DeclKinds, StmtKinds
      <3> HIDE DEF kind, of
      <3> QED BY <3>1, <3>2 DEF ExprKinds, StmtKinds
    <2> QED BY <2>1, <2>2, <2>3, <2>4
  <1> QED BY <1>1, <1>3, <1>6, <1>7, <1>8

(* Every statement is in the body of a function.                           *)
LEMMA StatementsInFunctions ==
  ASSUME ast \in Trees(Names), NEW n \in DOMAIN ast, ast[n].kind \in StmtKinds
  PROVE  \E p \in Enclosing(n) : IsFunction(p) /\ Ends(p)
  <1> DEFINE F == {k \in DOMAIN ast : /\ ast[k].kind \in StmtKinds
                                      /\ ~\E p \in Enclosing(k) : IsFunction(p) /\ Ends(p)}
  <1>1. SUFFICES ASSUME F # {} PROVE FALSE
    OBVIOUS
  <1>2. F \subseteq Nat
    BY NodesOf
  <1>3. PICK k \in F : \A l \in F : k <= l
    <2> HIDE DEF F
    <2> QED BY <1>1, <1>2, LeastOf
  <1>4. k \in DOMAIN ast /\ k \in Nat /\ ast[k].kind \in StmtKinds /\ k # 1
    BY <1>2, <1>3, TreeTypes DEF StmtKinds
  <1> DEFINE p == Parent(k)
  <1>5. /\ p \in DOMAIN ast /\ p < k /\ Enclosing(k) = {p} \cup Enclosing(p)
        /\ ast[p].kids # << >>
        /\ ast[p].kind \in {"function", "method", "compound", "if", "while"}
    BY <1>4, KindOfParent
  <1>6. p \in Nat
    BY <1>5, NodesOf
  <1>7. CASE IsFunction(p)
    <2>1. Ends(p)
      BY <1>5, <1>7, KindsTell DEF IsFunction
    <2> QED BY <1>3, <1>5, <1>7, <2>1
  <1>8. CASE ~IsFunction(p)
    <2>1. ast[p].kind \in StmtKinds
      BY <1>5, <1>8 DEF IsFunction, StmtKinds
    <2>2. p \notin F
      <3> HIDE DEF F, p
      <3> QED BY <1>2, <1>3, <1>4, <1>5, <1>6
    <2>3. \E q \in Enclosing(p) : IsFunction(q) /\ Ends(q)
      BY <1>5, <2>1, <2>2
    <2> QED BY <1>3, <1>5, <2>3
  <1> QED BY <1>7, <1>8

(* Every node around another has a child.                                  *)
LEMMA AroundHaveChildren ==
  ASSUME ast \in Trees(Names), NEW n \in DOMAIN ast
  PROVE  \A p \in Enclosing(n) : ast[p].kids # << >>
  <1> DEFINE F == {k \in DOMAIN ast : \E p \in Enclosing(k) : ast[p].kids = << >>}
  <1>1. SUFFICES ASSUME F # {} PROVE FALSE
    OBVIOUS
  <1>2. F \subseteq Nat
    BY NodesOf
  <1>3. PICK k \in F : \A l \in F : k <= l
    <2> HIDE DEF F
    <2> QED BY <1>1, <1>2, LeastOf
  <1>4. k \in DOMAIN ast /\ k \in Nat /\ k # 1
    BY <1>2, <1>3, EnclosingNodes
  <1> DEFINE p == Parent(k)
  <1>5. /\ p \in DOMAIN ast /\ p < k /\ Enclosing(k) = {p} \cup Enclosing(p)
        /\ ast[p].kids # << >>
    BY <1>4, KindOfParent
  <1>6. p \in F
    BY <1>3, <1>5
  <1>7. p \in Nat
    BY <1>2, <1>6
  <1> HIDE DEF F, p
  <1> QED BY <1>2, <1>3, <1>4, <1>5, <1>6, <1>7

(* currentReturnType is set while the body of a function is visited, as    *)
(* long as no function was met in it; and the returns without a value that *)
(* were visited so far were reported, but for those behind such a function.*)
Alone(f, c) == \A g \in (f + 1)..c : ~IsFunction(g)
InFunction(ts, c) ==
  \E i \in 1..Len(ts) : ts[i].do = "endFunction" /\ Alone(ts[i].node, c)
Reachable(n) == EmptyReturn(n) /\ ~BehindInner(n)
VoidReported(reports, c) == \A n \in 1..c : Reachable(n) => n \in reports
ReturnInv ==
  \E c : /\ Walk(tasks, c) /\ VoidReported(errors, c)
         /\ InFunction(tasks, c) => currentReturnType = "int"

LEMMA ReturnNext ==
  ASSUME ast' = ast, NEW c, Walk(tasks', c), VoidReported(errors', c),
         InFunction(tasks', c) => currentReturnType' = "int"
  PROVE  ReturnInv'
  <1>1. (Walk(tasks, c))'
    BY SameTree
  <1>2. \A n : Around'[n] = Around[n]
    BY DEF Around, Parent, KidsOf
  <1>3. \A n : FunctionAround(n)' = FunctionAround(n)
    BY <1>2 DEF FunctionAround, IsFunction
  <1>4. \A n : Reachable(n)' <=> Reachable(n)
    BY <1>3 DEF Reachable, EmptyReturn, BehindInner, IsFunction
  <1>5. (VoidReported(errors, c))'
    BY <1>4 DEF VoidReported
  <1>6. (InFunction(tasks, c) => currentReturnType = "int")'
    BY DEF InFunction, Alone, IsFunction
  <1> QED BY <1>1, <1>5, <1>6 DEF ReturnInv

(* Around a return that is reachable is a function that stands alone.      *)
LEMMA ReachableReturn ==
  ASSUME ast \in Trees(Names), NEW n \in DOMAIN ast, Reachable(n)
  PROVE  \E f \in Enclosing(n) : IsFunction(f) /\ Ends(f) /\ Alone(f, n - 1)
  <1> DEFINE T == {f \in Enclosing(n) : IsFunction(f)}
  <1>1. ast[n].kind \in StmtKinds
    BY DEF Reachable, EmptyReturn, StmtKinds
  <1>2. T # {}
    BY <1>1, StatementsInFunctions
  <1>3. Enclosing(n) \subseteq 1..(n - 1) /\ n \in Nat
    BY EnclosingNodes
  <1>4. PICK f \in T : \A g \in T : g <= f
    <2>1. T \subseteq 0..n
      BY <1>3
    <2> HIDE DEF T
    <2> QED BY <1>2, <1>3, <2>1, GreatestOf
  <1>5. Around[n] = Enclosing(n)
    BY AroundIsEnclosing
  <1> DEFINE a == FunctionAround(n)
  <1>6. a \in T /\ \A g \in T : g <= a
    BY <1>4, <1>5 DEF FunctionAround
  <1>7. Alone(a, n - 1)
    BY DEF Reachable, BehindInner, Alone
  <1>8. ast[a].kids # << >>
    BY <1>6, AroundHaveChildren
  <1>9. Ends(a)
    BY <1>6, <1>8, KindsTell DEF IsFunction
  <1> QED BY <1>6, <1>7, <1>9

(* A function ahead that stands alone, in what follows the first task.     *)
LEMMA EndInTail ==
  ASSUME NEW ts \in Seq(Tasks), ts # << >>, NEW new \in Seq(Tasks), NEW c,
         InFunction(new \o Tail(ts), c),
         \A i \in 1..Len(new) : new[i].do # "endFunction"
  PROVE  \E i \in 2..Len(ts) : ts[i].do = "endFunction" /\ Alone(ts[i].node, c)
  <1> DEFINE next == new \o Tail(ts)
  <1>1. /\ Len(new) \in Nat
        /\ \A i \in 1..Len(new) : next[i] = new[i]
        /\ \A i \in 1..Len(next) : i > Len(new) => /\ i - Len(new) + 1 \in 2..Len(ts)
                                                   /\ next[i] = ts[i - Len(new) + 1]
    BY PlacesOf
  <1>2. PICK i \in 1..Len(next) : next[i].do = "endFunction" /\ Alone(next[i].node, c)
    BY DEF InFunction
  <1> HIDE DEF next
  <1>3. ~(i \in 1..Len(new))
    BY <1>1, <1>2
  <1>4. i > Len(new)
    BY <1>1, <1>3
  <1> QED BY <1>1, <1>2, <1>4

(* That function is around the first task, and the first task is no        *)
(* function that was met.                                                  *)
LEMMA AloneAhead ==
  ASSUME NEW ts \in Seq(Tasks), NEW c \in Nat, Walk(ts, c), NEW b \in Nat,
         NEW i \in 2..Len(ts), ts[i].do = "endFunction", Alone(ts[i].node, b),
         ts[1].node \in 1..b
  PROVE  ~IsFunction(ts[1].node)
  <1>1. ts[i].node \in Enclosing(ts[1].node) /\ ts[i].node \in 1..c
    BY LaterTasks
  <1>2. ts[i].node \in 1..(ts[1].node - 1)
    BY <1>1 DEF Enclosing
  <1>3. ts[1].node \in (ts[i].node + 1)..b
    BY <1>2
  <1> QED BY <1>3 DEF Alone

LEMMA VisitReturns ==
  ASSUME IInv, ReturnInv, ast' = ast, tasks # << >>, top.do = "visit",
         tasks' = TasksOf(top.node) \o Tail(tasks),
         NEW R \in SUBSET {top.node}, errors' = errors \cup R,
         EmptyReturn(top.node) /\ currentReturnType = "int" => top.node \in R,
         ~IsFunction(top.node) => currentReturnType' = currentReturnType,
         IsFunction(top.node) /\ Ends(top.node) => currentReturnType' = "int"
  PROVE  ReturnInv'
  <1> DEFINE n == top.node
  <1>1. /\ ast \in Trees(Names) /\ tasks \in Seq(Tasks)
        /\ n \in DOMAIN ast /\ top = tasks[1]
    BY TopTypes DEF IInv, TypeOK, Tasks, top
  <1>2. PICK c : /\ Walk(tasks, c) /\ VoidReported(errors, c)
                 /\ InFunction(tasks, c) => currentReturnType = "int"
    BY DEF ReturnInv
  <1>3. c \in Nat /\ n = c + 1 /\ n \in Nat
    BY <1>1, <1>2, NextVisit
  <1>4. Walk(tasks', n)
    BY <1>1, <1>2, VisitWalks
  <1>5. Reachable(n) => n \in R
    <2> SUFFICES ASSUME Reachable(n) PROVE n \in R
      OBVIOUS
    <2>1. n - 1 = c
      BY <1>3
    <2>2. PICK p \in Enclosing(n) : IsFunction(p) /\ Ends(p) /\ Alone(p, c)
      BY <1>1, <2>1, ReachableReturn
    <2>3. Len(tasks) \in Nat /\ 1 \in 1..Len(tasks)
      BY <1>1, EmptySeq, LenProperties
    <2>4. PICK j \in (1 + 1)..Len(tasks) : tasks[j] = EndOf(p)
      BY <1>1, <1>2, <2>2, <2>3 DEF Walk, EndsBehind
    <2>5. EndOf(p).do = "endFunction" /\ EndOf(p).node = p
      BY <2>2, EndingKinds, KindsTell DEF IsFunction, EndOf, Task
    <2>6. InFunction(tasks, c)
      BY <2>2, <2>3, <2>4, <2>5 DEF InFunction
    <2> QED BY <1>2, <2>6 DEF Reachable
  <1>6. VoidReported(errors', n)
    <2>1. 1..n = (1..c) \cup {n}
      BY <1>3
    <2> HIDE DEF n
    <2> QED BY ONLY <1>2, <1>5, <2>1, errors' = errors \cup R, R \in SUBSET {n}
            DEF VoidReported, n
  <1>7. TasksOf(n) \in Seq(Tasks)
    BY <1>1, TasksOfNode
  <1>8. ASSUME NEW i \in 1..Len(TasksOf(n)), TasksOf(n)[i].do = "endFunction"
        PROVE  IsFunction(n) /\ Ends(n)
    <2>1. \/ \E k \in KidsOf(ast, n) : TasksOf(n)[i] = Visit(k)
          \/ Ends(n) /\ TasksOf(n)[i] = EndOf(n)
      BY <1>1, TasksOfNode
    <2>2. \A k : Visit(k).do # "endFunction"
      BY DEF Visit, Task
    <2>3. Ends(n) /\ Ending(n) = "endFunction"
      BY <1>8, <2>1, <2>2, EndingKinds
    <2> QED BY <2>3 DEF Ending, IsFunction
  <1>9. InFunction(tasks', n) => currentReturnType' = "int"
    <2> SUFFICES ASSUME InFunction(tasks', n) PROVE currentReturnType' = "int"
      OBVIOUS
    <2>1. CASE IsFunction(n) /\ Ends(n)
      BY <2>1
    <2>2. CASE ~(IsFunction(n) /\ Ends(n))
      <3>1. PICK i \in 2..Len(tasks) : tasks[i].do = "endFunction" /\ Alone(tasks[i].node, n)
        BY <1>1, <1>7, <1>8, <2>2, EndInTail
      <3>2. ~IsFunction(n)
        <4>1. tasks[1].node \in 1..n
          BY <1>1, <1>3
        <4> QED BY <1>1, <1>2, <1>3, <3>1, <4>1, AloneAhead
      <3>3. 1..c \subseteq 1..n /\ \A f : (f + 1)..c \subseteq (f + 1)..n
        BY <1>3
      <3>4. Alone(tasks[i].node, c)
        BY <3>1, <3>3 DEF Alone
      <3>5. i \in 1..Len(tasks)
        BY <3>1
      <3>6. InFunction(tasks, c)
        BY <3>1, <3>4, <3>5 DEF InFunction
      <3> QED BY <1>2, <3>2, <3>6
    <2> QED BY <2>1, <2>2
  <1> QED BY <1>1, <1>4, <1>6, <1>9, ReturnNext

LEMMA EndReturns ==
  ASSUME IInv, ReturnInv, ast' = ast, tasks # << >>, top.do # "visit",
         tasks' = << >> \o Tail(tasks),
         NEW R, errors' = errors \cup R,
         top.do # "endFunction" => currentReturnType' = currentReturnType
  PROVE  ReturnInv'
  <1> DEFINE n == top.node
             none == << >>
  <1>1. /\ ast \in Trees(Names) /\ tasks \in Seq(Tasks) /\ top = tasks[1]
    BY DEF IInv, TypeOK, Tasks, top
  <1>2. PICK c : /\ Walk(tasks, c) /\ VoidReported(errors, c)
                 /\ InFunction(tasks, c) => currentReturnType = "int"
    BY DEF ReturnInv
  <1>3. Walk(tasks', c) /\ c \in Nat
    BY <1>1, <1>2, EndWalks DEF Walk
  <1>4. VoidReported(errors', c)
    BY <1>2 DEF VoidReported
  <1>5. n \in 1..c /\ Ends(n) /\ top = EndOf(n)
    BY <1>1, <1>2, EndDeclares, TopTypes
  <1>6. none \in Seq(Tasks) /\ Len(none) = 0
    OBVIOUS
  <1>7. \A i \in 1..Len(none) : none[i].do # "endFunction"
    BY <1>6
  <1> HIDE DEF none
  <1>8. InFunction(tasks', c) => currentReturnType' = "int"
    <2> SUFFICES ASSUME InFunction(tasks', c) PROVE currentReturnType' = "int"
      OBVIOUS
    <2>1. tasks' = none \o Tail(tasks)
      BY DEF none
    <2>2. PICK i \in 2..Len(tasks) : tasks[i].do = "endFunction" /\ Alone(tasks[i].node, c)
      BY <1>1, <1>6, <1>7, <2>1, EndInTail
    <2>3. top.do # "endFunction"
      <3> SUFFICES ASSUME top.do = "endFunction" PROVE FALSE
        OBVIOUS
      <3>1. Ending(n) = "endFunction"
        BY <1>5, EndingKinds
      <3>2. IsFunction(n)
        BY <3>1 DEF Ending, IsFunction
      <3>3. ~IsFunction(tasks[1].node)
        BY <1>1, <1>2, <1>3, <1>5, <2>2, AloneAhead
      <3> QED BY <1>1, <3>2, <3>3
    <2>4. i \in 1..Len(tasks)
      BY <2>2
    <2>5. InFunction(tasks, c)
      BY <2>2, <2>4 DEF InFunction
    <2> QED BY <1>2, <2>3, <2>5
  <1> QED BY <1>1, <1>3, <1>4, <1>8, ReturnNext

LEMMA NextReturns == IInv /\ ReturnInv /\ [Next]_semaVars => ReturnInv'
  <1> SUFFICES ASSUME IInv, ReturnInv, [Next]_semaVars PROVE ReturnInv'
    OBVIOUS
  <1> DEFINE n == top.node
  <1>0. ASSUME tasks # << >>
        PROVE  ast \in Trees(Names) /\ n \in DOMAIN ast /\ node = ast[n]
    BY <1>0, TopTypes DEF IInv, node
  <1>1. ASSUME NEW x, errors' = Reported(scopes, x, n)
        PROVE  \E R \in SUBSET {n} : errors' = errors \cup R
    <2>1. CASE Holds(Head(scopes), x)
      BY <1>1, <2>1 DEF Reported
    <2>2. CASE ~Holds(Head(scopes), x)
      <3>1. {} \in SUBSET {n} /\ errors' = errors \cup {}
        BY <1>1, <2>2 DEF Reported
      <3> QED BY <3>1
    <2> QED BY <2>1, <2>2
  <1>2. ASSUME VisitFunctionDecl \/ VisitFieldDecl \/ VisitRecordDecl
        PROVE  ReturnInv'
    <2>1. /\ tasks # << >> /\ top.do = "visit" /\ ast' = ast
          /\ node.kind \in {"function", "method", "field", "record"}
          /\ errors' = Reported(scopes, node.name, n)
      BY <1>2 DEF VisitFunctionDecl, VisitFieldDecl, VisitRecordDecl, Visiting, Doing
    <2>2. PICK R \in SUBSET {n} : errors' = errors \cup R
      BY <1>1, <2>1
    <2>3. ~EmptyReturn(n)
      BY <1>0, <2>1, KindsTell
    <2>4. CASE node.kind \in {"function", "method"}
      <3>1. /\ Ends(n) <=> node.kids # << >>
            /\ Ending(n) = "endFunction" /\ IsFunction(n)
        BY <1>0, <2>1, <2>4, KindsTell DEF IsFunction
      <3>2. VisitFunctionDecl
        BY <1>2, <2>4 DEF VisitFieldDecl, VisitRecordDecl, Visiting
      <3>3. CASE node.kids = << >>
        <4>1. tasks' = << >> \o Tail(tasks)
          BY <3>2, <3>3 DEF VisitFunctionDecl, Continue
        <4>2. tasks' = TasksOf(n) \o Tail(tasks)
          BY <1>0, <2>1, <3>1, <3>3, <4>1, TasksByKind
        <4> QED BY <2>1, <2>2, <2>3, <3>1, <3>3, <4>2, VisitReturns
      <3>4. CASE node.kids # << >>
        <4>1. /\ tasks' = (VisitAll(node.kids) \o <<Task("endFunction", n)>>) \o Tail(tasks)
              /\ currentReturnType' = "int"
          BY <3>2, <3>4 DEF VisitFunctionDecl, Continue
        <4>2. tasks' = TasksOf(n) \o Tail(tasks)
          BY <1>0, <2>1, <3>1, <3>4, <4>1, TasksByKind
        <4> QED BY <2>1, <2>2, <2>3, <3>1, <4>1, <4>2, VisitReturns
      <3> QED BY <3>3, <3>4
    <2>5. CASE node.kind = "field"
      <3>1. tasks' = << >> \o Tail(tasks) /\ currentReturnType' = currentReturnType
        BY <1>2, <2>5 DEF VisitFunctionDecl, VisitFieldDecl, VisitRecordDecl, Visiting, Continue
      <3>2. ~Ends(n) /\ ~IsFunction(n)
        BY <1>0, <2>1, <2>5, KindsTell DEF IsFunction
      <3>3. tasks' = TasksOf(n) \o Tail(tasks)
        BY <1>0, <2>1, <2>5, <3>1, <3>2, TasksByKind
      <3> QED BY <2>1, <2>2, <2>3, <3>1, <3>2, <3>3, VisitReturns
    <2>6. CASE node.kind = "record"
      <3>1. /\ tasks' = (VisitAll(node.kids) \o <<Task("leave", n)>>) \o Tail(tasks)
            /\ currentReturnType' = currentReturnType
        BY <1>2, <2>6 DEF VisitFunctionDecl, VisitFieldDecl, VisitRecordDecl, Visiting, Continue
      <3>2. Ends(n) /\ Ending(n) = "leave" /\ ~IsFunction(n)
        BY <1>0, <2>1, <2>6, KindsTell DEF IsFunction
      <3>3. tasks' = TasksOf(n) \o Tail(tasks)
        BY <1>0, <2>1, <3>1, <3>2, TasksByKind
      <3> QED BY <2>1, <2>2, <2>3, <3>1, <3>2, <3>3, VisitReturns
    <2> QED BY <2>1, <2>4, <2>5, <2>6
  <1>3. ASSUME VisitTranslationUnit \/ VisitCompoundStmt \/ VisitVarDecl
        PROVE  ReturnInv'
    <2>1. /\ tasks # << >> /\ top.do = "visit" /\ ast' = ast
          /\ node.kind \in {"unit", "compound", "vardecl"}
          /\ errors' = errors \cup {} /\ currentReturnType' = currentReturnType
      BY <1>3 DEF VisitTranslationUnit, VisitCompoundStmt, VisitVarDecl, Visiting, Doing
    <2>2. ~EmptyReturn(n) /\ Ends(n) /\ ~IsFunction(n)
      BY <1>0, <2>1, KindsTell DEF IsFunction
    <2>3. tasks' = (VisitAll(node.kids) \o <<Task(Ending(n), n)>>) \o Tail(tasks)
      <3>1. CASE node.kind = "vardecl"
        <4>1. Ending(n) = "declare"
          BY <1>0, <2>1, <3>1, KindsTell
        <4> QED BY <1>3, <3>1, <4>1
                DEF VisitTranslationUnit, VisitCompoundStmt, VisitVarDecl, Visiting, Continue
      <3>2. CASE node.kind \in {"unit", "compound"}
        <4>1. Ending(n) = "leave"
          BY <1>0, <2>1, <3>2, KindsTell
        <4> QED BY <1>3, <3>2, <4>1
                DEF VisitTranslationUnit, VisitCompoundStmt, VisitVarDecl, Visiting, Continue
      <3> QED BY <2>1, <3>1, <3>2
    <2>4. tasks' = TasksOf(n) \o Tail(tasks)
      BY <1>0, <2>1, <2>2, <2>3, TasksByKind
    <2> DEFINE R == {}
    <2>5. R \in SUBSET {n} /\ errors' = errors \cup R
      BY <2>1
    <2> HIDE DEF n, R
    <2> QED BY <2>1, <2>2, <2>4, <2>5, VisitReturns DEF n
  <1>4. ASSUME VisitChildren \/ VisitReturnStmt
        PROVE  ReturnInv'
    <2> DEFINE R == IF EmptyReturn(n) /\ currentReturnType # "null" THEN {n} ELSE {}
    <2>1. /\ tasks # << >> /\ top.do = "visit" /\ ast' = ast
          /\ node.kind \in {"return", "exprstmt", "declstmt", "if", "while", "binary", "member",
                            "literal"}
          /\ currentReturnType' = currentReturnType
          /\ tasks' = VisitAll(node.kids) \o Tail(tasks)
      BY <1>4 DEF VisitChildren, VisitReturnStmt, Visiting, Doing, Continue
    <2>2. ~Ends(n) /\ ~IsFunction(n)
      BY <1>0, <2>1, KindsTell DEF IsFunction
    <2>3. tasks' = TasksOf(n) \o Tail(tasks)
      BY <1>0, <2>1, <2>2, TasksByKind
    <2>4. errors' = errors \cup R
      <3>1. CASE VisitReturnStmt
        BY <1>0, <2>1, <3>1 DEF VisitReturnStmt, Visiting, EmptyReturn
      <3>2. CASE VisitChildren
        <4>1. errors' = errors /\ node.kind # "return"
          BY <3>2 DEF VisitChildren, Visiting
        <4>2. ~EmptyReturn(n)
          BY <1>0, <2>1, <4>1 DEF EmptyReturn
        <4> QED BY <4>1, <4>2
      <3> QED BY <1>4, <3>1, <3>2
    <2>5. R \in SUBSET {n} /\ (EmptyReturn(n) /\ currentReturnType = "int" => n \in R)
      OBVIOUS
    <2> HIDE DEF n, R
    <2> QED BY <2>1, <2>2, <2>3, <2>4, <2>5, VisitReturns DEF n
  <1>5. CASE VisitVariableExpr
    <2> DEFINE R == IF lookup(scopes, node.name) = Absent THEN {n} ELSE {}
    <2>1. /\ tasks # << >> /\ top.do = "visit" /\ ast' = ast /\ node.kind = "variable"
          /\ currentReturnType' = currentReturnType
          /\ tasks' = << >> \o Tail(tasks)
          /\ errors' = errors \cup R
      BY <1>5 DEF VisitVariableExpr, Visiting, Doing, Continue
    <2>2. ~Ends(n) /\ ~IsFunction(n) /\ ~EmptyReturn(n)
      BY <1>0, <2>1, KindsTell DEF IsFunction
    <2>3. tasks' = TasksOf(n) \o Tail(tasks)
      BY <1>0, <2>1, <2>2, TasksByKind
    <2>4. R \in SUBSET {n}
      OBVIOUS
    <2> HIDE DEF n, R
    <2> QED BY <2>1, <2>2, <2>3, <2>4, VisitReturns DEF n
  <1>6. CASE DeclareVar
    <2>1. /\ tasks # << >> /\ top.do = "declare" /\ ast' = ast
          /\ tasks' = << >> \o Tail(tasks)
          /\ errors' = Reported(scopes, node.name, n)
          /\ currentReturnType' = currentReturnType
      BY <1>6 DEF DeclareVar, Doing, Continue
    <2>2. PICK R \in SUBSET {n} : errors' = errors \cup R
      BY <1>1, <2>1
    <2> HIDE DEF n
    <2> QED BY <2>1, <2>2, EndReturns
  <1>7. ASSUME EndFunctionDecl \/ LeaveScope
        PROVE  ReturnInv'
    <2> DEFINE R == {}
    <2>1. /\ tasks # << >> /\ top.do # "visit" /\ ast' = ast
          /\ tasks' = << >> \o Tail(tasks) /\ errors' = errors \cup R
          /\ top.do # "endFunction" => currentReturnType' = currentReturnType
      BY <1>7 DEF EndFunctionDecl, LeaveScope, Doing, Continue
    <2> HIDE DEF R
    <2> QED BY <2>1, EndReturns
  <1>8. CASE UNCHANGED semaVars
    <2>1. /\ tasks' = tasks /\ errors' = errors /\ currentReturnType' = currentReturnType
          /\ ast' = ast
      BY <1>8 DEF semaVars
    <2>2. PICK c : /\ Walk(tasks, c) /\ VoidReported(errors, c)
                   /\ InFunction(tasks, c) => currentReturnType = "int"
      BY DEF ReturnInv
    <2> QED BY <2>1, <2>2, ReturnNext
  <1> QED BY <1>2, <1>3, <1>4, <1>5, <1>6, <1>7, <1>8 DEF Next

LEMMA InitReturns == Init => ReturnInv
  <1> SUFFICES ASSUME Init PROVE ReturnInv
    OBVIOUS
  <1> DEFINE start == <<Visit(1)>>
  <1>1. tasks = start /\ errors = {}
    BY DEF Init
  <1>2. Walk(start, 0)
    BY InitWalks DEF Init
  <1>3. Len(start) = 1 /\ start[1].do = "visit"
    BY DEF Visit, Task
  <1> HIDE DEF start
  <1>4. \A i \in 1..Len(start) : start[i].do # "endFunction"
    <2>1. \A i \in 1..Len(start) : i = 1
      BY <1>3
    <2> QED BY <1>3, <2>1
  <1>5. ~InFunction(start, 0)
    BY <1>4 DEF InFunction
  <1>6. 1..0 = {}
    OBVIOUS
  <1>7. VoidReported({}, 0)
    BY <1>6 DEF VoidReported
  <1> QED BY <1>1, <1>2, <1>5, <1>7 DEF ReturnInv

(* The analyzer's faults and those of the source, apart from the three     *)
(* kinds of nodes that the analyzer is known to judge wrongly.             *)
LEMMA FaultsSeen ==
  ASSUME NEW n, ~(AboutParameter(n) \/ FromVoid(n) \/ BehindInner(n))
  PROVE  Faulty(n) <=> Clashes(n) \/ Undeclared(n) \/ Reachable(n)
  <1>1. Redeclared(n) <=> Clashes(n)
    BY DEF Redeclared, AboutParameter, NamesParameter, ClashesWithParameter
  <1>2. Unknown(n) <=> Undeclared(n)
    BY DEF Unknown, AboutParameter
  <1>3. MissesValue(n) <=> Reachable(n)
    BY DEF MissesValue, FromVoid, Reachable
  <1> QED BY <1>1, <1>2, <1>3 DEF Faulty

(* The errors of the analysis are those of the source: what is declared    *)
(* twice in a scope, used with no declaration in view, or returned without *)
(* a value; but for names of parameters, returns of void functions, and    *)
(* returns behind a function declared in the same body, where the code     *)
(* judges wrongly.                                                         *)
THEOREM ErrorsAreThoseOfTheTree == Spec => []Diagnosed
  <1>1. Init => IInv /\ RInv /\ ReturnInv
    BY InitEstablishes, InitResolves, InitReturns
  <1>2. (IInv /\ RInv /\ ReturnInv) /\ [Next]_semaVars => (IInv /\ RInv /\ ReturnInv)'
    BY NextKeeps, NextResolves, NextReturns
  <1>3. IInv /\ RInv /\ ReturnInv => Diagnosed
    <2> SUFFICES ASSUME IInv, RInv, ReturnInv, Analyzed, NEW n \in DOMAIN ast,
                        ~(AboutParameter(n) \/ FromVoid(n) \/ BehindInner(n))
                 PROVE  n \in errors <=> Faulty(n)
      BY DEF Diagnosed, Judged
    <2>1. PICK c, os : At(tasks, scopes, isField, errors, c, os)
      BY DEF RInv
    <2>2. PICK b : Walk(tasks, b) /\ VoidReported(errors, b)
      BY DEF ReturnInv
    <2>3. ast \in Trees(Names) /\ tasks = << >>
      BY DEF IInv, Analyzed
    <2>4. /\ DOMAIN ast = 1..c /\ b = c
          /\ Declared(tasks, c) = {d \in DOMAIN ast : ast[d].kind \in Declaring}
      <3>1. Walk(<< >>, c) /\ Walk(<< >>, b)
        BY <2>1, <2>2, <2>3 DEF At
      <3>2. c = Len(ast) /\ b = Len(ast)
        BY <2>3, <3>1, AllVisited
      <3> QED BY <2>3, <3>1, <3>2, AllVisited
    <2>5. {m \in errors : ~EmptyReturn(m)}
            = {m \in Declared(tasks, c) : Clashes(m)} \cup {m \in 1..c : Undeclared(m)}
      BY <2>1 DEF At, Resolved
    <2>6. Reachable(n) => n \in errors
      BY <2>2, <2>4 DEF VoidReported
    <2>7. Clashes(n) => ast[n].kind \in Declaring
      BY DEF Clashes
    <2>8. ~EmptyReturn(n) => (n \in errors <=> Clashes(n) \/ Undeclared(n))
      BY ONLY <2>4, <2>5, <2>7, n \in DOMAIN ast
    <2>9. EmptyReturn(n) => Reachable(n)
      BY DEF Reachable
    <2>10. EmptyReturn(n) => ~Clashes(n) /\ ~Undeclared(n)
      BY DEF EmptyReturn, Clashes, Undeclared, Declaring
    <2> QED BY <2>6, <2>8, <2>9, <2>10, FaultsSeen DEF Reachable
  <1> QED BY <1>1, <1>2, <1>3, PTL DEF Spec
=============================================================================
