------------------------ MODULE ScenarioBuilderProofs ------------------------
(***********************************************************************************)
(* What TLAPS proves of ScenarioBuilder, for any scenarios, contents, size of      *)
(* the history, edits and saves, and any order of the answers: the types with      *)
(* the bound on the stacks, whose content is shown and can come back, that a       *)
(* clean draft is the saved one, and that undo and redo cancel each other.         *)
(***********************************************************************************)
EXTENDS ScenarioBuilder, TLAPS

(* Where undoing everything leads.                                                 *)
EndsAtBase(s) ==
  IF s.undo = <<>> THEN s.draft.is = s.base ELSE s.undo[1].is = s.base

(* Undo and redo move snapshots from one stack to the other, so that together      *)
(* they stay within the capacity and neither of the two drops one.                 *)
StoreOK(s) ==
  /\ s \in StoreRecord
  /\ Len(s.undo) + Len(s.redo) <= HISTORY_CAPACITY
  /\ s.draft \notin Draft => s.undo = <<>> /\ s.redo = <<>>
  /\ \A i \in DOMAIN s.undo : s.undo[i].id = s.draft.id
  /\ \A i \in DOMAIN s.redo : s.redo[i].id = s.draft.id
  /\ ~s.dirty => s.undo = <<>>
  /\ s.draft # None /\ ~s.lost => EndsAtBase(s)

(* A page of a scenario names it, and one that has filled the store finds its      *)
(* own draft there.                                                                *)
PageOK ==
  /\ page.at \in {"edit", "dup"} => page.id \in Ids
  /\ page.hydrated => /\ store.draft \in Draft
                      /\ store.draft.id = IF page.at = "edit" THEN page.id ELSE None

IInv == TypeOK /\ StoreOK(store) /\ PageOK

-----------------------------------------------------------------------------
(* The stacks.                                                                     *)

(* A bounded stack ends as the unbounded one does, and is it while that fits.      *)
LEMMA LastOfAppend ==
  ASSUME NEW s \in Seq(Draft), NEW d \in Draft, Len(s) <= HISTORY_CAPACITY
  PROVE  LET t == LastOf(Append(s, d))
         IN /\ t \in Seq(Draft) /\ t # <<>> /\ Len(t) <= HISTORY_CAPACITY
            /\ t[Len(t)] = d
            /\ \A i \in DOMAIN t : t[i] = d \/ \E j \in DOMAIN s : t[i] = s[j]
            /\ Len(s) < HISTORY_CAPACITY => t = Append(s, d)
<1> DEFINE a == Append(s, d)
<1>0. /\ HISTORY_CAPACITY \in Nat /\ HISTORY_CAPACITY > 0
      /\ Len(s) \in Nat /\ a \in Seq(Draft) /\ Len(a) = Len(s) + 1
      /\ a[Len(a)] = d /\ \A j \in 1..Len(s) : a[j] = s[j]
  BY ScenarioBuilderAssumption
<1>1. CASE Len(s) < HISTORY_CAPACITY
  <2>1. LastOf(a) = SubSeq(a, 1, Len(a))
    <3> HIDE DEF a
    <3>1. ~(Len(a) > HISTORY_CAPACITY)
      BY <1>0, <1>1
    <3> QED BY <3>1 DEF LastOf
  <2>2. SubSeq(a, 1, Len(a)) = a
    BY <1>0
  <2>3. LastOf(a) = a
    BY <2>1, <2>2
  <2> HIDE DEF a
  <2>4. DOMAIN a = 1..Len(a) /\ DOMAIN s = 1..Len(s) /\ a # <<>>
    BY <1>0
  <2>5. \A i \in DOMAIN a : a[i] = d \/ \E j \in DOMAIN s : a[i] = s[j]
    BY <1>0, <2>4
  <2> QED BY <1>0, <1>1, <2>3, <2>4, <2>5 DEF a
<1>2. CASE Len(s) = HISTORY_CAPACITY
  <2> DEFINE t == LastOf(a)
  <2>1. t = SubSeq(a, 2, Len(a))
    <3> HIDE DEF a
    <3>1. Len(a) > HISTORY_CAPACITY /\ Len(a) - HISTORY_CAPACITY + 1 = 2
      BY <1>0, <1>2
    <3> QED BY <3>1 DEF LastOf
  <2> HIDE DEF a, t
  <2>2. /\ t \in Seq(Draft) /\ Len(t) = Len(s)
        /\ \A i \in 1..Len(t) : t[i] = a[i + 1]
    BY <1>0, <2>1
  <2>3. DOMAIN t = 1..Len(t) /\ DOMAIN s = 1..Len(s) /\ t # <<>>
    BY <1>0, <1>2, <2>2
  <2>4. t[Len(t)] = d
    BY <1>0, <1>2, <2>2
  <2>5. \A i \in DOMAIN t : t[i] = d \/ \E j \in DOMAIN s : t[i] = s[j]
    <3> TAKE i \in DOMAIN t
    <3>1. CASE i = Len(t) BY <2>4, <3>1
    <3>2. CASE i # Len(t)
      <4>1. i + 1 \in 1..Len(s) /\ t[i] = a[i + 1]
        BY <1>0, <2>2, <2>3, <3>2
      <4> QED BY <1>0, <2>3, <4>1
    <3> QED BY <3>1, <3>2
  <2> QED BY <1>0, <1>2, <2>2, <2>3, <2>4, <2>5 DEF a, t
<1> QED BY <1>0, <1>1, <1>2

(* What pops leaves the rest as it was.                                            *)
LEMMA Pop ==
  ASSUME NEW s \in Seq(Draft), s # <<>>
  PROVE  LET t == SubSeq(s, 1, Len(s) - 1)
         IN /\ t \in Seq(Draft) /\ Len(t) = Len(s) - 1 /\ Len(s) \in Nat \ {0}
            /\ s[Len(s)] \in Draft /\ Len(s) \in DOMAIN s
            /\ \A i \in DOMAIN t : i \in DOMAIN s /\ t[i] = s[i]
            /\ (t = <<>>) <=> (Len(s) = 1)
            /\ t # <<>> => t[1] = s[1]
<1> DEFINE t == SubSeq(s, 1, Len(s) - 1)
<1>1. Len(s) \in Nat \ {0} /\ DOMAIN s = 1..Len(s)
  OBVIOUS
<1>2. /\ t \in Seq(Draft) /\ Len(t) = Len(s) - 1
      /\ \A i \in 1..Len(t) : t[i] = s[i]
  BY <1>1
<1>3. DOMAIN t = 1..Len(t)
  BY <1>2
<1>4. s[Len(s)] \in Draft
  BY <1>1
<1> HIDE DEF t
<1>5. (t = <<>>) <=> (Len(t) = 0)
  BY <1>2
<1> QED BY <1>1, <1>2, <1>3, <1>4, <1>5 DEF t

(* A snapshot that moves to the other stack finds room there.                      *)
LEMMA Room ==
  ASSUME NEW a \in Nat, NEW b \in Nat, NEW cap \in Nat, a # 0,
         a + b <= cap \/ b + a <= cap
  PROVE  b < cap /\ b <= cap /\ (a - 1) + (b + 1) <= cap /\ (b + 1) + (a - 1) <= cap
OBVIOUS

(* What two keep together, each keeps.                                             *)
LEMMA Both ==
  ASSUME NEW a \in Nat, NEW b \in Nat, NEW cap \in Nat, a + b <= cap
  PROVE  a <= cap /\ b <= cap
OBVIOUS

(* So do the stacks with their capacity.                                           *)
LEMMA StoreTypes ==
  ASSUME NEW s, StoreOK(s)
  PROVE  /\ s \in StoreRecord
         /\ Len(s.undo) <= HISTORY_CAPACITY /\ Len(s.redo) <= HISTORY_CAPACITY
<1> DEFINE a == Len(s.undo)  b == Len(s.redo)
<1>1. s \in StoreRecord /\ a + b <= HISTORY_CAPACITY
  BY DEF StoreOK
<1>2. a \in Nat /\ b \in Nat /\ HISTORY_CAPACITY \in Nat
  BY <1>1, ScenarioBuilderAssumption DEF StoreRecord
<1> HIDE DEF a, b
<1>3. a <= HISTORY_CAPACITY /\ b <= HISTORY_CAPACITY
  BY <1>1, <1>2, Both
<1> QED BY <1>1, <1>3 DEF a, b

-----------------------------------------------------------------------------
(* The operations of the store.                                                    *)

(* Loading and saving start a history at the draft.                                *)
LEMMA LoadOK ==
  ASSUME NEW s, NEW d \in Draft
  PROVE  /\ StoreOK(load(s, d)) /\ load(s, d).draft = d
         /\ StoreOK(markSaved(s, d)) /\ markSaved(s, d).draft = d
<1>1. d.is \in Versions /\ <<>> \in Seq(Draft) /\ Len(<<>>) = 0
  BY DEF Draft
<1>2. load(s, d) = markSaved(s, d) /\ load(s, d).draft = d
  BY DEF load, markSaved
<1>3. load(s, d) \in StoreRecord
  BY <1>1 DEF load, StoreRecord
<1>4. StoreOK(load(s, d))
  BY <1>1, <1>3, ScenarioBuilderAssumption DEF StoreOK, EndsAtBase, load
<1> QED BY <1>2, <1>4

(* A commit keeps the draft it replaces, or drops the oldest and says so.          *)
LEMMA CommitOK ==
  ASSUME NEW s, StoreOK(s), s.draft # None, NEW v \in Versions
  PROVE  /\ StoreOK(commit(s, v))
         /\ commit(s, v).draft \in Draft /\ commit(s, v).draft.id = s.draft.id
<1> DEFINE d == [s.draft EXCEPT !.is = v]
           t == LastOf(Append(s.undo, s.draft))
           c == commit(s, v)
<1>0. /\ s \in StoreRecord /\ s.undo \in Seq(Draft) /\ Len(s.undo) <= HISTORY_CAPACITY
      /\ s.draft \in Draft
  <2>1. s \in StoreRecord /\ Len(s.undo) <= HISTORY_CAPACITY
    BY StoreTypes
  <2>2. s.undo \in Seq(Draft) /\ s.draft \in Draft
    BY <2>1 DEF StoreRecord
  <2> QED BY <2>1, <2>2
<1>1. d \in Draft /\ d.id = s.draft.id
  BY <1>0 DEF Draft
<1>2. /\ t \in Seq(Draft) /\ t # <<>> /\ Len(t) <= HISTORY_CAPACITY
      /\ \A i \in DOMAIN t : t[i] = s.draft \/ \E j \in DOMAIN s.undo : t[i] = s.undo[j]
      /\ Len(s.undo) < HISTORY_CAPACITY => t = Append(s.undo, s.draft)
  BY <1>0, LastOfAppend
<1>3. /\ c = [s EXCEPT !.draft = d, !.dirty = TRUE, !.redo = <<>>, !.undo = t,
                       !.lost = s.lost \/ Len(s.undo) = HISTORY_CAPACITY]
  BY <1>0 DEF commit, StoreRecord
<1>4. /\ c.draft = d /\ c.dirty = TRUE /\ c.redo = <<>> /\ c.undo = t /\ c.base = s.base
      /\ c.lost = (s.lost \/ Len(s.undo) = HISTORY_CAPACITY)
  BY <1>0, <1>3 DEF StoreRecord
<1>5. c \in StoreRecord
  <2>1. <<>> \in Seq(Draft) OBVIOUS
  <2> QED BY <1>0, <1>1, <1>2, <1>3, <2>1 DEF StoreRecord
<1> HIDE DEF d, t, c
<1>6. Len(c.undo) + Len(c.redo) <= HISTORY_CAPACITY
  BY <1>2, <1>4
<1>7. \A i \in DOMAIN c.undo : c.undo[i].id = c.draft.id
  BY <1>1, <1>2, <1>4 DEF StoreOK
<1>8. ~c.lost => EndsAtBase(c)
  <2> SUFFICES ASSUME ~c.lost PROVE t[1].is = s.base
    BY <1>2, <1>4 DEF EndsAtBase
  <2>1. Len(s.undo) < HISTORY_CAPACITY /\ EndsAtBase(s)
    <3>1. ~(s.lost \/ Len(s.undo) = HISTORY_CAPACITY)
      BY <1>4
    <3>2. Len(s.undo) \in Nat
      BY <1>0
    <3> QED BY <1>0, <3>1, <3>2, ScenarioBuilderAssumption DEF StoreOK
  <2>2. t = Append(s.undo, s.draft)
    BY <1>2, <2>1
  <2>3. CASE s.undo = <<>>
    BY <2>1, <2>2, <2>3 DEF EndsAtBase
  <2>4. CASE s.undo # <<>>
    <3>1. t[1] = s.undo[1]
      BY <1>0, <2>2, <2>4
    <3> QED BY <2>1, <2>4, <3>1 DEF EndsAtBase
  <2> QED BY <2>3, <2>4
<1> QED BY <1>1, <1>4, <1>5, <1>6, <1>7, <1>8 DEF StoreOK, c

(* Undo moves the draft to the redo stack, from where redo takes it back.          *)
LEMMA UndoOK ==
  ASSUME NEW s, StoreOK(s), canUndo(s)
  PROVE  /\ s.draft # None => StoreOK(undo(s))
         /\ undo(s).draft \in Draft /\ undo(s).draft.id = s.draft.id
         /\ canRedo(undo(s)) /\ redo(undo(s)).draft = s.draft
<1> DEFINE d == s.undo[Len(s.undo)]
           p == SubSeq(s.undo, 1, Len(s.undo) - 1)
           t == LastOf(Append(s.redo, s.draft))
           more == Len(s.undo) > 1
           u == undo(s)
<1>0. /\ s \in StoreRecord /\ s.undo \in Seq(Draft) /\ s.redo \in Seq(Draft)
      /\ s.undo # <<>> /\ s.draft \in Draft
  BY DEF StoreOK, StoreRecord, canUndo
<1>1. /\ p \in Seq(Draft) /\ Len(p) = Len(s.undo) - 1 /\ Len(s.undo) \in Nat \ {0}
      /\ d \in Draft /\ Len(s.undo) \in DOMAIN s.undo
      /\ \A i \in DOMAIN p : i \in DOMAIN s.undo /\ p[i] = s.undo[i]
      /\ (p = <<>>) <=> (Len(s.undo) = 1)
      /\ p # <<>> => p[1] = s.undo[1]
  BY <1>0, Pop
<1>c. /\ HISTORY_CAPACITY \in Nat /\ Len(s.undo) \in Nat /\ Len(s.redo) \in Nat
      /\ Len(s.undo) + Len(s.redo) <= HISTORY_CAPACITY
  <2>1. HISTORY_CAPACITY \in Nat
    BY ScenarioBuilderAssumption
  <2>2. Len(s.undo) \in Nat /\ Len(s.redo) \in Nat
    BY <1>0
  <2>3. Len(s.undo) + Len(s.redo) <= HISTORY_CAPACITY
    BY DEF StoreOK
  <2> QED BY <2>1, <2>2, <2>3
<1>2. /\ Len(s.redo) < HISTORY_CAPACITY /\ Len(s.redo) <= HISTORY_CAPACITY
      /\ (Len(s.undo) - 1) + (Len(s.redo) + 1) <= HISTORY_CAPACITY
      /\ (Len(s.redo) + 1) + (Len(s.undo) - 1) <= HISTORY_CAPACITY
  <2>1. Len(s.undo) # 0
    BY <1>1
  <2> DEFINE a == Len(s.undo)  b == Len(s.redo)
  <2>2. a \in Nat /\ b \in Nat /\ HISTORY_CAPACITY \in Nat /\ a # 0 /\ a + b <= HISTORY_CAPACITY
    BY <1>c, <2>1
  <2> HIDE DEF a, b
  <2>3. /\ b < HISTORY_CAPACITY /\ b <= HISTORY_CAPACITY
        /\ (a - 1) + (b + 1) <= HISTORY_CAPACITY /\ (b + 1) + (a - 1) <= HISTORY_CAPACITY
    BY <2>2, Room
  <2> QED BY <2>3 DEF a, b
<1>3. /\ t \in Seq(Draft) /\ t # <<>> /\ t[Len(t)] = s.draft /\ t = Append(s.redo, s.draft)
      /\ \A i \in DOMAIN t : t[i] = s.draft \/ \E j \in DOMAIN s.redo : t[i] = s.redo[j]
  BY <1>0, <1>2, LastOfAppend
<1>4. /\ u = [s EXCEPT !.draft = d, !.undo = p, !.redo = t, !.dirty = more]
  BY <1>0 DEF undo, StoreRecord
<1>5. /\ u.draft = d /\ u.undo = p /\ u.redo = t /\ u.dirty = more
      /\ u.base = s.base /\ u.lost = s.lost
  BY <1>0, <1>4 DEF StoreRecord
<1>b. more \in BOOLEAN
  OBVIOUS
<1>7. Len(t) = Len(s.redo) + 1
  BY <1>0, <1>3
<1> HIDE DEF d, p, t, u, more
<1>6. u \in StoreRecord
  BY <1>0, <1>1, <1>3, <1>4, <1>b DEF StoreRecord
<1>8. d.id = s.draft.id /\ Len(u.undo) + Len(u.redo) <= HISTORY_CAPACITY
  <2>1. Len(p) + Len(t) <= HISTORY_CAPACITY
    BY <1>1, <1>2, <1>7
  <2>2. d.id = s.draft.id
    BY <1>1 DEF StoreOK, d
  <2> QED BY <1>5, <2>1, <2>2
<1>9. /\ \A i \in DOMAIN u.undo : u.undo[i].id = u.draft.id
      /\ \A i \in DOMAIN u.redo : u.redo[i].id = u.draft.id
  <2>1. \A i \in DOMAIN p : p[i].id = s.draft.id
    BY <1>1 DEF StoreOK
  <2>2. \A i \in DOMAIN t : t[i].id = s.draft.id
    BY <1>3 DEF StoreOK
  <2> QED BY <1>5, <1>8, <2>1, <2>2
<1>10. ~u.dirty => u.undo = <<>>
  <2>1. ~more => Len(s.undo) = 1
    BY <1>c, <1>1 DEF more
  <2> QED BY <1>1, <1>5, <2>1
<1>11. s.draft # None /\ ~u.lost => EndsAtBase(u)
  BY <1>0, <1>1, <1>5 DEF StoreOK, EndsAtBase, d
<1>12. s.draft # None => StoreOK(u)
  BY <1>1, <1>5, <1>6, <1>8, <1>9, <1>10, <1>11 DEF StoreOK
<1>13. redo(u).draft = s.draft
  BY <1>3, <1>5, <1>6 DEF redo, StoreRecord
<1> QED BY <1>1, <1>3, <1>5, <1>8, <1>12, <1>13 DEF u, canRedo

(* Redo moves it the other way.                                                    *)
LEMMA RedoOK ==
  ASSUME NEW s, StoreOK(s), canRedo(s)
  PROVE  /\ s.draft # None => StoreOK(redo(s))
         /\ redo(s).draft \in Draft /\ redo(s).draft.id = s.draft.id
         /\ canUndo(redo(s)) /\ undo(redo(s)).draft = s.draft
<1> DEFINE d == s.redo[Len(s.redo)]
           p == SubSeq(s.redo, 1, Len(s.redo) - 1)
           t == LastOf(Append(s.undo, s.draft))
           u == redo(s)
<1>0. /\ s \in StoreRecord /\ s.undo \in Seq(Draft) /\ s.redo \in Seq(Draft)
      /\ s.redo # <<>> /\ s.draft \in Draft
  BY DEF StoreOK, StoreRecord, canRedo
<1>1. /\ p \in Seq(Draft) /\ Len(p) = Len(s.redo) - 1 /\ Len(s.redo) \in Nat \ {0}
      /\ d \in Draft /\ Len(s.redo) \in DOMAIN s.redo
      /\ \A i \in DOMAIN p : i \in DOMAIN s.redo /\ p[i] = s.redo[i]
  BY <1>0, Pop
<1>c. /\ HISTORY_CAPACITY \in Nat /\ Len(s.undo) \in Nat /\ Len(s.redo) \in Nat
      /\ Len(s.undo) + Len(s.redo) <= HISTORY_CAPACITY
  <2>1. HISTORY_CAPACITY \in Nat
    BY ScenarioBuilderAssumption
  <2>2. Len(s.undo) \in Nat /\ Len(s.redo) \in Nat
    BY <1>0
  <2>3. Len(s.undo) + Len(s.redo) <= HISTORY_CAPACITY
    BY DEF StoreOK
  <2> QED BY <2>1, <2>2, <2>3
<1>2. /\ Len(s.undo) < HISTORY_CAPACITY /\ Len(s.undo) <= HISTORY_CAPACITY
      /\ (Len(s.redo) - 1) + (Len(s.undo) + 1) <= HISTORY_CAPACITY
      /\ (Len(s.undo) + 1) + (Len(s.redo) - 1) <= HISTORY_CAPACITY
  <2>1. Len(s.redo) # 0
    BY <1>1
  <2> DEFINE a == Len(s.redo)  b == Len(s.undo)
  <2>2. a \in Nat /\ b \in Nat /\ HISTORY_CAPACITY \in Nat /\ a # 0 /\ b + a <= HISTORY_CAPACITY
    BY <1>c, <2>1
  <2> HIDE DEF a, b
  <2>3. /\ b < HISTORY_CAPACITY /\ b <= HISTORY_CAPACITY
        /\ (a - 1) + (b + 1) <= HISTORY_CAPACITY /\ (b + 1) + (a - 1) <= HISTORY_CAPACITY
    BY <2>2, Room
  <2> QED BY <2>3 DEF a, b
<1>3. /\ t \in Seq(Draft) /\ t # <<>> /\ t[Len(t)] = s.draft /\ t = Append(s.undo, s.draft)
      /\ \A i \in DOMAIN t : t[i] = s.draft \/ \E j \in DOMAIN s.undo : t[i] = s.undo[j]
  BY <1>0, <1>2, LastOfAppend
<1>4. u = [s EXCEPT !.draft = d, !.redo = p, !.undo = t, !.dirty = TRUE]
  BY <1>0 DEF redo, StoreRecord
<1>5. /\ u.draft = d /\ u.redo = p /\ u.undo = t /\ u.dirty = TRUE
      /\ u.base = s.base /\ u.lost = s.lost
  BY <1>0, <1>4 DEF StoreRecord
<1>6. u \in StoreRecord
  BY <1>0, <1>1, <1>3, <1>4 DEF StoreRecord
<1>7. /\ Len(t) = Len(s.undo) + 1
      /\ t[1] = IF s.undo = <<>> THEN s.draft ELSE s.undo[1]
  <2>1. Len(t) = Len(s.undo) + 1
    BY <1>0, <1>3
  <2>2. CASE s.undo = <<>>
    BY <1>3, <2>2
  <2>3. CASE s.undo # <<>>
    BY <1>0, <1>3, <2>3
  <2> QED BY <2>1, <2>2, <2>3
<1> HIDE DEF d, p, t, u
<1>8. d.id = s.draft.id /\ Len(u.undo) + Len(u.redo) <= HISTORY_CAPACITY
  <2>1. Len(t) + Len(p) <= HISTORY_CAPACITY
    BY <1>1, <1>2, <1>7
  <2>2. d.id = s.draft.id
    BY <1>1 DEF StoreOK, d
  <2> QED BY <1>5, <2>1, <2>2
<1>9. /\ \A i \in DOMAIN u.undo : u.undo[i].id = u.draft.id
      /\ \A i \in DOMAIN u.redo : u.redo[i].id = u.draft.id
  <2>1. \A i \in DOMAIN p : p[i].id = s.draft.id
    BY <1>1 DEF StoreOK
  <2>2. \A i \in DOMAIN t : t[i].id = s.draft.id
    BY <1>3 DEF StoreOK
  <2> QED BY <1>5, <1>8, <2>1, <2>2
<1>10. s.draft # None /\ ~u.lost => EndsAtBase(u)
  BY <1>0, <1>3, <1>5, <1>7 DEF StoreOK, EndsAtBase
<1>11. s.draft # None => StoreOK(u)
  BY <1>1, <1>5, <1>6, <1>8, <1>9, <1>10 DEF StoreOK
<1>12. undo(u).draft = s.draft
  BY <1>3, <1>5, <1>6 DEF undo, StoreRecord
<1> QED BY <1>1, <1>3, <1>5, <1>8, <1>11, <1>12 DEF u, canUndo

-----------------------------------------------------------------------------
(* The steps.                                                                      *)

(* Nothing is drafted at first.                                                    *)
LEMMA Initial == Init => IInv
<1> SUFFICES ASSUME Init PROVE IInv
  OBVIOUS
<1> DEFINE first == CHOOSE v \in Versions \ ({Blank} \cup Clashing) : TRUE
<1>1. first \in Versions
  BY ScenarioBuilderAssumption
<1>2. db \in [Ids -> Versions \cup {None}] /\ cached \in [Ids -> Versions \cup {None}]
  <2> HIDE DEF first
  <2>1. db = [i \in Ids |-> IF i \in Stored THEN first ELSE None]
    BY DEF Init, first
  <2> QED BY <1>1, <2>1 DEF Init
<1>3. page \in PageRecord /\ PageOK
  BY DEF Init, List, PageRecord, PageOK
<1>4. /\ store \in StoreRecord /\ store.undo = <<>> /\ store.redo = <<>>
      /\ store.base = store.draft /\ store.draft = None /\ store.dirty = FALSE
  <2>1. <<>> \in Seq(Draft)
    OBVIOUS
  <2> QED BY <2>1 DEF Init, StoreRecord
<1>5. StoreOK(store)
  <2>1. Len(<<>>) = 0 /\ HISTORY_CAPACITY \in Nat
    BY ScenarioBuilderAssumption
  <2> QED BY <1>4, <2>1 DEF StoreOK
<1> QED BY <1>2, <1>3, <1>4, <1>5, StoreTypes DEF IInv, TypeOK, Init

(* The list of scenarios.                                                          *)
LEMMA ListSteps ==
  ASSUME IInv, handleNew \/ \E i \in Ids : handleEdit(i) \/ handleDuplicate(i) \/ handleDeleteRow(i)
  PROVE  IInv'
<1>1. ASSUME NEW at \in {"edit", "new", "dup"}, NEW i \in Ids \cup {None}, Opens(at, i),
             at # "new" => i \in Ids
      PROVE  IInv'
  <2>1. page' = [at |-> at, id |-> i, hydrated |-> FALSE, failed |-> FALSE, asking |-> FALSE]
    BY <1>1 DEF Opens, List
  <2>2. page' \in PageRecord /\ PageOK'
    BY <1>1, <2>1 DEF PageRecord, PageOK
  <2>3. StoreOK(store)' /\ UNCHANGED <<db, cached, fetch, store, saves, removal, edits>>
    BY <1>1 DEF Opens, ListFrame, IInv
  <2> QED BY <2>2, <2>3 DEF IInv, TypeOK
<1>2. ASSUME NEW i \in Ids, handleDeleteRow(i)
      PROVE  IInv'
  <2>1. removal' \in RemovalRecord
    BY <1>2 DEF handleDeleteRow, RemovalRecord
  <2>2. UNCHANGED <<db, cached, page, fetch, store, saves, edits>>
    BY <1>2 DEF handleDeleteRow, ListFrame
  <2> QED BY <2>1, <2>2 DEF IInv, TypeOK, PageOK
<1>3. CASE handleNew
  BY <1>1, <1>3 DEF handleNew
<1>4. CASE \E i \in Ids : handleEdit(i) \/ handleDuplicate(i) \/ handleDeleteRow(i)
  BY <1>1, <1>2, <1>4 DEF handleEdit, handleDuplicate
<1> QED BY <1>3, <1>4

(* The detail is fetched and arrives.                                              *)
LEMMA QuerySteps ==
  ASSUME IInv, useScenario \/ DetailArrives
  PROVE  IInv'
<1>1. CASE useScenario
  <2>1. fetch' \in [id : Ids, is : Versions \cup {None}]
    BY <1>1 DEF useScenario, IInv, PageOK, TypeOK
  <2>2. UNCHANGED <<db, cached, page, store, saves, removal, edits>>
    BY <1>1 DEF useScenario, ListFrame
  <2> QED BY <2>1, <2>2 DEF IInv, TypeOK, PageOK
<1>2. CASE DetailArrives
  <2>1. fetch' = None /\ UNCHANGED <<db, store, saves, removal, edits>>
    BY <1>2 DEF DetailArrives, ListFrame
  <2>2. fetch.is # None => fetch.is \in Versions /\ fetch.id \in Ids
    BY <1>2 DEF DetailArrives, IInv, TypeOK
  <2>3. cached' \in [Ids -> Versions \cup {None}]
    BY <1>2, <2>2 DEF DetailArrives, IInv, TypeOK
  <2>4. page' \in PageRecord /\ page'.at = page.at /\ page'.id = page.id
        /\ page'.hydrated = page.hydrated
    <3>1. page' = page \/ page' = [page EXCEPT !.failed = TRUE]
      BY <1>2 DEF DetailArrives
    <3>2. page \in PageRecord
      BY DEF IInv, TypeOK
    <3> QED BY <3>1, <3>2 DEF PageRecord
  <2> QED BY <2>1, <2>3, <2>4 DEF IInv, TypeOK, PageOK
<1> QED BY <1>1, <1>2

(* The page fills the store with what it edits.                                    *)
LEMMA HydrateStep ==
  ASSUME IInv, Hydrate
  PROVE  IInv'
<1> DEFINE d == Source
<1>1. d \in Draft /\ d.id = IF page.at = "edit" THEN page.id ELSE None
  <2>1. CASE page.at = "new"
    BY <2>1, ScenarioBuilderAssumption DEF Source, Draft
  <2>2. CASE page.at # "new"
    <3>1. page.at \in {"edit", "dup"} /\ page.id \in Ids
      BY <2>2 DEF Hydrate, Editor, IInv, TypeOK, PageRecord, PageOK
    <3>2. cached[page.id] \in Versions
      BY <2>2, <3>1 DEF Hydrate, Source, IInv, TypeOK
    <3> QED BY <2>2, <3>1, <3>2 DEF Source, Draft
  <2> QED BY <2>1, <2>2
<1>2. store' = load(store, d) /\ page' = [page EXCEPT !.hydrated = TRUE]
      /\ UNCHANGED <<db, cached, fetch, saves, removal, edits>>
  BY DEF Hydrate
<1> HIDE DEF d
<1>3. StoreOK(store') /\ store'.draft = d
  BY <1>1, <1>2, LoadOK
<1>4. page' \in PageRecord /\ page'.at = page.at /\ page'.id = page.id
  BY <1>2 DEF IInv, TypeOK, PageRecord
<1>5. PageOK'
  BY <1>1, <1>3, <1>4 DEF IInv, PageOK
<1> QED BY <1>2, <1>3, <1>4, <1>5, StoreTypes DEF IInv, TypeOK

(* The user edits, undoes and redoes.                                              *)
LEMMA EditSteps ==
  ASSUME IInv, Undo \/ Redo \/ \E v \in Versions : Edit(v)
  PROVE  IInv'
<1>1. store.draft # None /\ StoreOK(store)
  BY DEF Undo, Redo, Edit, Shown, IInv
<1>2. UNCHANGED <<db, cached, page, fetch, saves, removal>>
  BY DEF Undo, Redo, Edit, EditFrame
<1>3. /\ StoreOK(store') /\ edits' \in Nat
      /\ store'.draft \in Draft /\ store'.draft.id = store.draft.id
  <2>1. CASE Undo
    <3>1. canUndo(store) /\ store' = undo(store) /\ edits' = edits
      BY <2>1 DEF Undo
    <3> QED BY <1>1, <3>1, UndoOK DEF IInv, TypeOK
  <2>2. CASE Redo
    <3>1. canRedo(store) /\ store' = redo(store) /\ edits' = edits
      BY <2>2 DEF Redo
    <3> QED BY <1>1, <3>1, RedoOK DEF IInv, TypeOK
  <2>3. CASE \E v \in Versions : Edit(v)
    <3>1. PICK v \in Versions : store' = commit(store, v) /\ edits' = edits + 1
      BY <2>3 DEF Edit
    <3>2. edits' \in Nat
      BY <3>1 DEF IInv, TypeOK
    <3> QED BY <1>1, <3>1, <3>2, CommitOK
  <2> QED BY <2>1, <2>2, <2>3
<1>4. PageOK'
  BY <1>2, <1>3 DEF IInv, PageOK
<1> QED BY <1>2, <1>3, <1>4, StoreTypes DEF IInv, TypeOK

(* A page that is left names nothing and has filled nothing.                       *)
LEMMA LeaveTypes ==
  ASSUME NEW out \in SUBSET SaveRecord, NEW r \in RemovalRecord \cup {None}, Leave(out, r)
  PROVE  /\ page' \in PageRecord /\ PageOK'
         /\ saves' \subseteq SaveRecord /\ removal' \in RemovalRecord \cup {None}
<1>1. page' \in PageRecord /\ PageOK'
  BY DEF Leave, List, PageRecord, PageOK
<1>2. saves' \subseteq SaveRecord
  BY DEF Leave, SaveRecord
<1>3. removal' \in RemovalRecord \cup {None}
  <2>1. CASE removal' = [r EXCEPT !.from = "gone"] /\ r # None
    BY <2>1 DEF RemovalRecord
  <2> QED BY <2>1 DEF Leave
<1> QED BY <1>1, <1>2, <1>3

(* The user saves, leaves or deletes.                                              *)
LEMMA EditorSteps ==
  ASSUME IInv,
         \/ handleSave \/ handleCloseRequest \/ KeepEditing \/ handleDiscardConfirm
         \/ BrowserBack \/ handleDeleteRequest \/ CancelDelete \/ handleDeleteConfirm
  PROVE  IInv'
<1>0. /\ UNCHANGED <<db, cached, fetch, store, edits>> /\ page \in PageRecord
      /\ saves \in SUBSET SaveRecord /\ removal \in RemovalRecord \cup {None} /\ PageOK
  BY DEF handleSave, handleCloseRequest, KeepEditing, handleDiscardConfirm, BrowserBack,
         handleDeleteRequest, CancelDelete, handleDeleteConfirm, LeaveFrame, IInv, TypeOK
<1>1. ASSUME /\ page' \in PageRecord /\ PageOK' /\ saves' \subseteq SaveRecord
             /\ removal' \in RemovalRecord \cup {None}
      PROVE  IInv'
  BY <1>0, <1>1 DEF IInv, TypeOK
<1>2. ASSUME NEW b \in BOOLEAN, page' = [page EXCEPT !.asking = b]
      PROVE  page' \in PageRecord /\ PageOK'
  <2>1. /\ page' \in PageRecord /\ page'.at = page.at /\ page'.id = page.id
        /\ page'.hydrated = page.hydrated
    BY <1>0, <1>2 DEF PageRecord
  <2> QED BY <1>0, <2>1 DEF PageOK
<1>3. ASSUME page' = page PROVE page' \in PageRecord /\ PageOK'
  BY <1>0, <1>3 DEF PageOK
<1>4. CASE handleSave
  <2>1. page' = page /\ removal' = removal
    BY <1>4 DEF handleSave
  <2> DEFINE s == [to |-> IF page.at = "edit" THEN page.id ELSE New, new |-> page.at # "edit",
                   is |-> store.draft.is, at |-> "sent", mounted |-> TRUE]
  <2>2. s \in SaveRecord
    <3>1. store.draft \in Draft
      BY <1>4 DEF handleSave, CanSave, Shown, IInv, TypeOK, StoreRecord
    <3>2. (IF page.at = "edit" THEN page.id ELSE New) \in Ids
      BY <1>0 DEF PageOK, Ids
    <3> QED BY <3>1, <3>2 DEF Draft, SaveRecord
  <2>3. saves' = saves \cup {s}
    BY <1>4 DEF handleSave
  <2> HIDE DEF s
  <2> QED BY <1>0, <1>1, <1>3, <2>1, <2>2, <2>3
<1>5. CASE handleCloseRequest
  <2>1. CASE page' = [page EXCEPT !.asking = TRUE] /\ UNCHANGED <<saves, removal>>
    BY <1>0, <1>1, <1>2, <2>1
  <2>2. CASE Leave(saves, removal)
    BY <1>0, <1>1, <2>2, LeaveTypes
  <2> QED BY <1>5, <2>1, <2>2 DEF handleCloseRequest
<1>6. CASE KeepEditing
  BY <1>0, <1>1, <1>2, <1>6 DEF KeepEditing
<1>7. CASE handleDiscardConfirm \/ BrowserBack
  BY <1>0, <1>1, <1>7, LeaveTypes DEF handleDiscardConfirm, BrowserBack
<1>8. CASE handleDeleteRequest
  <2>1. removal' \in RemovalRecord
    BY <1>0, <1>8 DEF handleDeleteRequest, PageOK, RemovalRecord
  <2> QED BY <1>0, <1>1, <1>3, <1>8, <2>1 DEF handleDeleteRequest
<1>9. CASE CancelDelete \/ handleDeleteConfirm
  <2>1. removal' \in RemovalRecord \cup {None}
    BY <1>0, <1>9 DEF CancelDelete, handleDeleteConfirm, RemovalRecord
  <2>2. page' = page /\ saves' = saves
    BY <1>9 DEF CancelDelete, handleDeleteConfirm
  <2> QED BY <1>0, <1>1, <1>3, <2>1, <2>2
<1> QED BY <1>4, <1>5, <1>6, <1>7, <1>8, <1>9

(* The server handles a save, and its answer acts on whatever page shows.          *)
LEMMA SaveSteps ==
  ASSUME IInv, NEW s \in saves, SaveHandled(s) \/ SaveReturns(s) \/ SaveFails(s)
  PROVE  IInv'
<1>0. /\ s \in SaveRecord /\ saves \in SUBSET SaveRecord
      /\ s.to \in Ids /\ s.is \in Versions /\ removal \in RemovalRecord \cup {None}
      /\ db \in [Ids -> Versions \cup {None}] /\ cached \in [Ids -> Versions \cup {None}]
  BY DEF IInv, TypeOK, SaveRecord
<1>1. CASE SaveHandled(s)
  <2>1. db' \in [Ids -> Versions \cup {None}]
    BY <1>0, <1>1 DEF SaveHandled
  <2>2. [s EXCEPT !.at = "ok"] \in SaveRecord /\ [s EXCEPT !.at = "refused"] \in SaveRecord
    BY <1>0 DEF SaveRecord
  <2>3. saves' \subseteq SaveRecord
    BY <1>0, <1>1, <2>2 DEF SaveHandled
  <2>4. UNCHANGED <<cached, page, fetch, store, removal, edits>>
    BY <1>1 DEF SaveHandled
  <2> QED BY <2>1, <2>3, <2>4 DEF IInv, TypeOK, PageOK
<1>2. CASE SaveReturns(s)
  <2> DEFINE d == [id |-> s.to, is |-> s.is]
  <2>1. cached' \in [Ids -> Versions \cup {None}]
    BY <1>0, <1>2 DEF SaveReturns
  <2>2. d \in Draft
    BY <1>0 DEF Draft
  <2>3. store' = markSaved(store, d) /\ UNCHANGED <<db, fetch, edits>>
    BY <1>2 DEF SaveReturns
  <2>4. Leave(saves \ {s}, removal) /\ saves \ {s} \in SUBSET SaveRecord
    BY <1>0, <1>2 DEF SaveReturns
  <2> HIDE DEF d
  <2>5. StoreOK(store')
    BY <2>2, <2>3, LoadOK
  <2>6. /\ page' \in PageRecord /\ PageOK'
        /\ saves' \subseteq SaveRecord /\ removal' \in RemovalRecord \cup {None}
    BY <1>0, <2>4, LeaveTypes
  <2> QED BY <2>1, <2>3, <2>5, <2>6, StoreTypes DEF IInv, TypeOK
<1>3. CASE SaveFails(s)
  <2>1. saves' \subseteq SaveRecord
    BY <1>0, <1>3 DEF SaveFails
  <2> QED BY <1>3, <2>1 DEF SaveFails, IInv, TypeOK, PageOK
<1> QED BY <1>1, <1>2, <1>3

(* The server handles a deletion, and its answer closes the page or stays.         *)
LEMMA DeleteSteps ==
  ASSUME IInv, DeleteHandled \/ DeleteReturns
  PROVE  IInv'
<1>0. /\ removal \in RemovalRecord /\ removal.id \in Ids /\ saves \in SUBSET SaveRecord
      /\ page \in PageRecord /\ PageOK
      /\ db \in [Ids -> Versions \cup {None}] /\ cached \in [Ids -> Versions \cup {None}]
  BY DEF DeleteHandled, DeleteReturns, IInv, TypeOK, RemovalRecord
<1>1. CASE DeleteHandled
  <2>1. db' \in [Ids -> Versions \cup {None}]
    BY <1>0, <1>1 DEF DeleteHandled
  <2>2. removal' \in RemovalRecord
    BY <1>0, <1>1 DEF DeleteHandled, RemovalRecord
  <2>3. UNCHANGED <<cached, page, fetch, store, saves, edits>>
    BY <1>1 DEF DeleteHandled
  <2> QED BY <2>1, <2>2, <2>3 DEF IInv, TypeOK, PageOK
<1>2. CASE DeleteReturns
  <2>1. cached' \in [Ids -> Versions \cup {None}]
    BY <1>0, <1>2 DEF DeleteReturns
  <2>2. UNCHANGED <<db, fetch, store, edits>>
    BY <1>2 DEF DeleteReturns
  <2>3. /\ page' \in PageRecord /\ PageOK'
        /\ saves' \subseteq SaveRecord /\ removal' \in RemovalRecord \cup {None}
    <3>1. CASE Leave(saves, None)
      BY <1>0, <3>1, LeaveTypes
    <3>2. CASE removal' = None /\ UNCHANGED <<page, saves>>
      BY <1>0, <2>2, <3>2 DEF PageOK
    <3>3. CASE /\ removal' = IF removal.from = "gone" THEN None ELSE [removal EXCEPT !.at = "asking"]
               /\ UNCHANGED <<page, saves>>
      <4>1. [removal EXCEPT !.at = "asking"] \in RemovalRecord
        BY <1>0 DEF RemovalRecord
      <4> QED BY <1>0, <2>2, <3>3, <4>1 DEF PageOK
    <3> QED BY <1>2, <3>1, <3>2, <3>3 DEF DeleteReturns
  <2> QED BY <2>1, <2>2, <2>3 DEF IInv, TypeOK
<1> QED BY <1>1, <1>2

(* No step leaves the invariant.                                                   *)
LEMMA Inductive == IInv /\ [Next]_vars => IInv'
<1> SUFFICES ASSUME IInv, [Next]_vars PROVE IInv'
  OBVIOUS
<1>1. CASE User
  BY <1>1, ListSteps, EditSteps, EditorSteps DEF User
<1>2. CASE Query
  BY <1>2, QuerySteps, HydrateStep DEF Query
<1>3. CASE Calls
  BY <1>3, SaveSteps, DeleteSteps DEF Calls
<1>4. CASE UNCHANGED vars
  BY <1>4 DEF vars, IInv, TypeOK, PageOK, StoreOK, EndsAtBase
<1> QED BY <1>1, <1>2, <1>3, <1>4 DEF Next

(* Where the draft comes from, whatever page shows it: the invariant holds         *)
(* throughout, whatever the order of the answers.                                  *)
LEMMA Invariance == Spec => []IInv
<1> QED BY Initial, Inductive, PTL DEF Spec

-----------------------------------------------------------------------------
(* What the editor promises.                                                       *)

(* Every variable keeps its type, and both stacks their capacity: the commit,      *)
(* undo and redo of scenarioDraftStore.ts never let one grow past it.              *)
THEOREM EditorTypes == Spec => []TypeOK
<1>1. IInv => TypeOK
  BY DEF IInv
<1> QED BY <1>1, Invariance, PTL

(* No undo or redo reaches another scenario's content, and a page that has         *)
(* filled the store shows its own scenario, although the answer to a save of       *)
(* an earlier page may replace the draft at any moment.                            *)
THEOREM OwnDraftShown == Spec => []ShownDraftIsOwn
<1>1. IInv => ShownDraftIsOwn
  BY DEF IInv, StoreOK, PageOK, ShownDraftIsOwn
<1> QED BY <1>1, Invariance, PTL

(* A draft for which the store offers no Save is what was loaded or saved          *)
(* last, as long as the bounded history dropped no snapshot.                       *)
THEOREM CleanDraftIsSaved == Spec => []CleanMeansSaved
<1>1. IInv => CleanMeansSaved
  BY DEF IInv, StoreOK, EndsAtBase, CleanMeansSaved
<1> QED BY <1>1, Invariance, PTL

(* Undo and redo cancel each other, at any depth of the history: since the two     *)
(* stacks fit the capacity together, moving a snapshot drops none.                 *)
THEOREM UndoRedoRoundTrip == Spec => []UndoRedoCancel
<1>1. IInv => UndoRedoCancel
  BY UndoOK, RedoOK DEF IInv, UndoRedoCancel
<1> QED BY <1>1, Invariance, PTL
=============================================================================
