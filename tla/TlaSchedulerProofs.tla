------------------------- MODULE TlaSchedulerProofs --------------------------
(***************************************************************************)
(* Proofs about TLAScheduler, for all options and all targets: the search  *)
(* never comes back to a place where it was.                               *)
(***************************************************************************)
EXTENDS MCTlaScheduler, SequenceTheorems, TLAPS

(* Sequences whose elements can be anything. *)
IsSeq(s) == s \in Seq(Range(s))

(* u is s with e added at its end, or with e at position m. *)
Appended(u, s, e) ==
  /\ IsSeq(u) /\ Len(u) = Len(s) + 1
  /\ \A k \in 1..Len(s) : u[k] = s[k]
  /\ u[Len(s) + 1] = e
Replaced(u, s, m, e) ==
  /\ IsSeq(u) /\ Len(u) = Len(s)
  /\ \A k \in 1..Len(s) : u[k] = IF k = m THEN e ELSE s[k]

(* The positions of a sequence. *)
LEMMA SeqDomain ==
  ASSUME NEW s, IsSeq(s)
  PROVE  Len(s) \in Nat /\ DOMAIN s = 1..Len(s)
BY LenProperties DEF IsSeq

(* Adding an element. *)
LEMMA AppendIsSeq ==
  ASSUME NEW s, IsSeq(s), NEW e, NEW u, u = Append(s, e) \/ u = s \o <<e>>
  PROVE  Appended(u, s, e)
<1>1. PICK S : S = Range(s) \cup {e} OBVIOUS
<1>2. s \in Seq(S) /\ e \in S
  <2>1. s \in Seq(Range(s)) /\ Range(s) \subseteq S BY <1>1 DEF IsSeq
  <2> QED BY <1>1, <2>1, SeqMonotonic
<1>3. u = Append(s, e) BY <1>2, AppendIsConcat
<1>4. /\ u \in Seq(S) /\ Len(u) = Len(s) + 1
      /\ \A k \in 1..Len(s) : u[k] = s[k]
      /\ u[Len(s) + 1] = e
  BY <1>2, <1>3, AppendProperties
<1>5. IsSeq(u) BY <1>4, SeqOfRange DEF IsSeq
<1> QED BY <1>4, <1>5 DEF Appended

(* All but the last element, and the last one. *)
LEMMA FrontIsSeq ==
  ASSUME NEW s, IsSeq(s), NEW n \in Nat, Len(s) = n + 1
  PROVE  /\ IsSeq(Front(s)) /\ Len(Front(s)) = n
         /\ \A k \in 1..n : Front(s)[k] = s[k]
         /\ Last(s) = s[n + 1]
<1>1. s \in Seq(Range(s)) BY DEF IsSeq
<1>2. 1 \in Int /\ n \in Int /\ \A k \in 1..n : s[k] \in Range(s)
  BY <1>1, ElementOfSeq
<1>3. /\ SubSeq(s, 1, n) \in Seq(Range(s))
      /\ Len(SubSeq(s, 1, n)) = IF 1 <= n THEN n - 1 + 1 ELSE 0
      /\ \A k \in 1..(n - 1 + 1) : SubSeq(s, 1, n)[k] = s[1 + k - 1]
  BY <1>2, SubSeqProperties
<1>4. \A k \in 1..n : 1 + k - 1 = k OBVIOUS
<1>5. n - 1 + 1 = n /\ Len(s) - 1 = n /\ (~(1 <= n) => n = 0) OBVIOUS
<1>6. Front(s) = SubSeq(s, 1, n) BY <1>5 DEF Front
<1>7. IsSeq(SubSeq(s, 1, n)) BY <1>3, SeqOfRange DEF IsSeq
<1> QED BY <1>3, <1>4, <1>5, <1>6, <1>7 DEF Last

(* Replacing the last element. *)
LEMMA ReplaceLast ==
  ASSUME NEW s, IsSeq(s), NEW n \in Nat, Len(s) = n + 1, NEW e, NEW u,
         u = Append(Front(s), e)
  PROVE  Replaced(u, s, n + 1, e)
<1>1. /\ IsSeq(Front(s)) /\ Len(Front(s)) = n
      /\ \A k \in 1..n : Front(s)[k] = s[k]
  BY FrontIsSeq
<1>2. Appended(u, Front(s), e) BY <1>1, AppendIsSeq
<1>3. IsSeq(u) /\ Len(u) = n + 1 /\ u[n + 1] = e BY <1>1, <1>2 DEF Appended
<1>4. \A k \in 1..n : u[k] = s[k] BY <1>1, <1>2 DEF Appended
<1>5. \A k \in 1..(n + 1) : u[k] = IF k = n + 1 THEN e ELSE s[k] BY <1>3, <1>4
<1> QED BY <1>3, <1>5 DEF Replaced

-----------------------------------------------------------------------------
(* The activations of RunStep.  While the search goes on there is one. *)
FrameFields == {"thread", "constructor", "switches", "all_parked", "task", "is_new",
                "is_finished"}
IsFrame(f) == DOMAIN f = FrameFields /\ f.thread \in Nat /\ f.constructor \in Nat
Searching == mode \in {"step", "judge", "undo"}
FrameInv ==
  /\ IsSeq(frames) /\ \A p \in 1..Len(frames) : IsFrame(frames[p])
  /\ Searching => Len(frames) > 0

(* The position of a frame, and how two are compared. *)
PlaceOf(f, done) == <<f.thread, f.constructor, done>>
Less(a, b) ==
  \/ a[1] < b[1]
  \/ a[1] = b[1] /\ a[2] < b[2]
  \/ a[1] = b[1] /\ a[2] = b[2] /\ a[3] < b[3]

(* Less is the order in which Earlier compares places. *)
LEMMA LessIsEarlier ==
  ASSUME NEW P, NEW Q, NEW n, n \in DOMAIN P, n \in DOMAIN Q,
         \A q \in 1..(n - 1) : P[q] = Q[q],
         DOMAIN P[n] = 1..3, Less(P[n], Q[n])
  PROVE  Earlier(P, Q)
<1>1. DOMAIN P[n] = 1..3 OBVIOUS
<1>2. \E k \in 1..3 : P[n][k] < Q[n][k] /\ \A j \in 1..(k - 1) : P[n][j] = Q[n][j]
  <2>1. CASE P[n][1] < Q[n][1]
    <3>1. \A j \in 1..(1 - 1) : P[n][j] = Q[n][j] OBVIOUS
    <3> QED BY <2>1, <3>1
  <2>2. CASE P[n][1] = Q[n][1] /\ P[n][2] < Q[n][2]
    <3>1. \A j \in 1..(2 - 1) : P[n][j] = Q[n][j] BY <2>2
    <3> QED BY <2>2, <3>1
  <2>3. CASE P[n][1] = Q[n][1] /\ P[n][2] = Q[n][2] /\ P[n][3] < Q[n][3]
    <3>1. \A j \in 1..(3 - 1) : P[n][j] = Q[n][j]
      <4>1. \A j \in 1..(3 - 1) : j = 1 \/ j = 2 OBVIOUS
      <4> QED BY <2>3, <4>1
    <3> QED BY <2>3, <3>1
  <2> QED BY <2>1, <2>2, <2>3 DEF Less
<1>3. n \in DOMAIN P \cap DOMAIN Q OBVIOUS
<1> QED BY <1>1, <1>2, <1>3 DEF Earlier

(* What Position holds for a frame. *)
DoneAt(p, n, m) == IF p < n \/ m = "judge" THEN 1 ELSE IF m = "undo" THEN 2 ELSE 0

(* The positions before and after a step are compared at the frame n that  *)
(* it changes, the last one of the two stacks.                             *)
LEMMA ChangeIsEarlier ==
  ASSUME FrameInv, IsSeq(frames'), NEW n, n \in 1..Len(frames), n \in 1..Len(frames'),
         \A p \in 1..(n - 1) : frames'[p] = frames[p],
         Less(PlaceOf(frames[n], DoneAt(n, Len(frames), mode)),
              PlaceOf(frames'[n], DoneAt(n, Len(frames'), mode')))
  PROVE  Earlier(Position, Position')
<1>1. PICK P, Q, a, b : /\ P = Position /\ Q = Position'
                        /\ a = Len(frames) /\ b = Len(frames')
  OBVIOUS
<1>2. /\ a \in Nat /\ DOMAIN frames = 1..a /\ b \in Nat /\ DOMAIN frames' = 1..b
  BY <1>1, SeqDomain DEF FrameInv
<1>3. P = [p \in 1..a |-> PlaceOf(frames[p], DoneAt(p, a, mode))]
  BY <1>1, <1>2 DEF Position, PlaceOf, DoneAt
<1>4. Q = [p \in 1..b |-> PlaceOf(frames'[p], DoneAt(p, b, mode'))]
  BY <1>1, <1>2 DEF Position, PlaceOf, DoneAt
<1>5. P \in Seq(Range(P)) /\ Len(P) = a BY <1>2, <1>3 DEF Range
<1>6. \A q \in 1..(n - 1) : P[q] = Q[q]
  <2> TAKE q \in 1..(n - 1)
  <2>1. q \in 1..a /\ q \in 1..b /\ q < a /\ q < b BY <1>1, <1>2
  <2>2. DoneAt(q, a, mode) = 1 /\ DoneAt(q, b, mode') = 1 BY <2>1 DEF DoneAt
  <2> QED BY <1>3, <1>4, <2>1, <2>2
<1>7. PICK d, e : /\ d = DoneAt(n, a, mode) /\ d \in 0..2
                  /\ e = DoneAt(n, b, mode') /\ e \in 0..2
  BY DEF DoneAt
<1>8. P[n] = PlaceOf(frames[n], d) /\ Q[n] = PlaceOf(frames'[n], e)
  BY <1>1, <1>3, <1>4, <1>7
<1>9. Less(P[n], Q[n]) BY <1>1, <1>7, <1>8
<1>10. n \in DOMAIN P /\ n \in DOMAIN Q BY <1>1, <1>3, <1>4
<1>11. DOMAIN P[n] = 1..3 BY <1>8 DEF PlaceOf
<1>12. Earlier(P, Q) BY <1>6, <1>9, <1>10, <1>11, LessIsEarlier
<1> QED BY <1>1, <1>12

(* RunStep goes on to another choice: the top frame moves forward. *)
LEMMA TopAdvances ==
  ASSUME FrameInv, mode \in {"step", "undo"}, mode' = "step", NEW f, IsFrame(f),
         frames' = WithTop(f),
         \/ Top.thread < f.thread
         \/ Top.thread = f.thread /\ Top.constructor < f.constructor
  PROVE  FrameInv' /\ Earlier(Position, Position')
<1>1. PICK n \in Nat : Len(frames) = n + 1
  <2>1. Len(frames) \in Nat /\ Len(frames) > 0 BY SeqDomain DEF FrameInv, Searching
  <2>2. Len(frames) - 1 \in Nat /\ Len(frames) = (Len(frames) - 1) + 1 BY <2>1
  <2> QED BY <2>2
<1>2. IsSeq(frames) BY DEF FrameInv
<1>3. Top = frames[n + 1] BY <1>1, <1>2, FrontIsSeq DEF Top
<1>4. Replaced(frames', frames, n + 1, f) BY <1>1, <1>2, ReplaceLast DEF WithTop
<1>5. /\ IsSeq(frames') /\ Len(frames') = n + 1 /\ frames'[n + 1] = f
      /\ \A p \in 1..n : frames'[p] = frames[p]
  BY <1>1, <1>4 DEF Replaced
<1>6. \A p \in 1..Len(frames') : IsFrame(frames'[p])
  <2>1. \A p \in 1..(n + 1) : p \in 1..n \/ p = n + 1 OBVIOUS
  <2> QED BY <1>1, <1>5, <2>1 DEF FrameInv
<1>7. FrameInv' BY <1>5, <1>6 DEF FrameInv, Searching
<1>8. Less(PlaceOf(frames[n + 1], DoneAt(n + 1, Len(frames), mode)),
           PlaceOf(frames'[n + 1], DoneAt(n + 1, Len(frames'), mode')))
  BY <1>3, <1>5 DEF Less, PlaceOf
<1>9. Earlier(Position, Position')
  <2>1. PICK m : m = n + 1 OBVIOUS
  <2>2. m \in 1..Len(frames) /\ m \in 1..Len(frames') /\ m - 1 = n BY <1>1, <1>5, <2>1
  <2> QED BY <1>5, <1>8, <2>1, <2>2, ChangeIsEarlier
<1> QED BY <1>7, <1>9

(* A task is resumed: the top frame stays where it is, and a new one comes *)
(* above it unless the execution is complete.                              *)
LEMMA ResumeAdvances ==
  ASSUME FrameInv, mode = "step", NEW f, IsFrame(f), f.thread = Top.thread,
         f.constructor = Top.constructor, NEW g, IsFrame(g), NEW stop \in BOOLEAN,
         mode' = IF stop THEN "judge" ELSE "step",
         frames' = WithTop(f) \o (IF stop THEN << >> ELSE <<g>>)
  PROVE  FrameInv' /\ Earlier(Position, Position')
<1>1. PICK n \in Nat : Len(frames) = n + 1
  <2>1. Len(frames) \in Nat /\ Len(frames) > 0 BY SeqDomain DEF FrameInv, Searching
  <2>2. Len(frames) - 1 \in Nat /\ Len(frames) = (Len(frames) - 1) + 1 BY <2>1
  <2> QED BY <2>2
<1>2. IsSeq(frames) BY DEF FrameInv
<1>3. Top = frames[n + 1] BY <1>1, <1>2, FrontIsSeq DEF Top
<1>4. PICK u : u = WithTop(f) OBVIOUS
<1>5. Replaced(u, frames, n + 1, f) BY <1>1, <1>2, <1>4, ReplaceLast DEF WithTop
<1>6. /\ IsSeq(u) /\ Len(u) = n + 1 /\ u[n + 1] = f
      /\ \A p \in 1..n : u[p] = frames[p]
  BY <1>1, <1>5 DEF Replaced
<1>7. \A p \in 1..(n + 1) : IsFrame(u[p])
  <2>1. \A p \in 1..(n + 1) : p \in 1..n \/ p = n + 1 OBVIOUS
  <2> QED BY <1>1, <1>6, <2>1 DEF FrameInv
<1>8. CASE stop
  <2>1. frames' = u /\ mode' = "judge"
    <3>1. u \in Seq(Range(u)) BY <1>6 DEF IsSeq
    <3>2. u \o << >> = u BY <3>1, ConcatEmptySeq
    <3> QED BY <1>4, <1>8, <3>2
  <2>2. FrameInv'
    <3>1. IsSeq(frames') /\ Len(frames') = n + 1 BY <1>6, <2>1
    <3>2. \A p \in 1..(n + 1) : IsFrame(frames'[p]) BY <1>7, <2>1
    <3>3. Len(frames') > 0 BY <3>1
    <3> QED BY <3>1, <3>2, <3>3 DEF FrameInv
  <2>3. DoneAt(n + 1, Len(frames), mode) = 0 /\ DoneAt(n + 1, Len(frames'), mode') = 1
    BY <1>1, <1>6, <2>1 DEF DoneAt
  <2>4. Less(PlaceOf(frames[n + 1], DoneAt(n + 1, Len(frames), mode)),
             PlaceOf(frames'[n + 1], DoneAt(n + 1, Len(frames'), mode')))
    BY <1>3, <1>6, <2>1, <2>3 DEF Less, PlaceOf
  <2>5. PICK m : m = n + 1 OBVIOUS
  <2>6. m \in 1..Len(frames) /\ m \in 1..Len(frames') /\ m - 1 = n
    BY <1>1, <1>6, <2>1, <2>5
  <2>7. IsSeq(frames') /\ \A p \in 1..n : frames'[p] = frames[p] BY <1>6, <2>1
  <2>8. Earlier(Position, Position') BY <2>4, <2>5, <2>6, <2>7, ChangeIsEarlier
  <2> QED BY <2>2, <2>8
<1>9. CASE ~stop
  <2>1. frames' = u \o <<g>> /\ mode' = "step" BY <1>4, <1>9
  <2>2. Appended(frames', u, g) BY <1>6, <2>1, AppendIsSeq
  <2>3. /\ IsSeq(frames') /\ Len(frames') = n + 2 /\ frames'[n + 2] = g
        /\ \A p \in 1..(n + 1) : frames'[p] = u[p]
    BY <1>6, <2>2 DEF Appended
  <2>4. FrameInv'
    <3>1. \A p \in 1..(n + 2) : p \in 1..(n + 1) \/ p = n + 2 OBVIOUS
    <3>2. \A p \in 1..(n + 1) : IsFrame(frames'[p]) BY <1>7, <2>3
    <3>3. IsFrame(frames'[n + 2]) BY <2>3
    <3>4. \A p \in 1..(n + 2) : IsFrame(frames'[p]) BY <3>1, <3>2, <3>3
    <3>5. Len(frames') > 0 BY <2>3
    <3> QED BY <2>3, <3>4, <3>5 DEF FrameInv
  <2>5. DoneAt(n + 1, Len(frames), mode) = 0 /\ DoneAt(n + 1, Len(frames'), mode') = 1
    BY <1>1, <2>3 DEF DoneAt
  <2>6. frames'[n + 1] = f BY <1>6, <2>3
  <2>7. Less(PlaceOf(frames[n + 1], DoneAt(n + 1, Len(frames), mode)),
             PlaceOf(frames'[n + 1], DoneAt(n + 1, Len(frames'), mode')))
    <3>1. PICK a, b, d, e : /\ a = PlaceOf(frames[n + 1], d) /\ d = 0
                            /\ b = PlaceOf(f, e) /\ e = 1
      OBVIOUS
    <3>2. a[1] = f.thread /\ a[2] = f.constructor /\ a[3] = 0 BY <1>3, <3>1 DEF PlaceOf
    <3>3. b[1] = f.thread /\ b[2] = f.constructor /\ b[3] = 1 BY <3>1 DEF PlaceOf
    <3>4. Less(a, b) BY <3>2, <3>3 DEF Less
    <3> QED BY <2>5, <2>6, <3>1, <3>4
  <2>8. PICK m : m = n + 1 OBVIOUS
  <2>9. m \in 1..Len(frames) /\ m \in 1..Len(frames') /\ m - 1 = n BY <1>1, <2>3, <2>8
  <2>10. \A p \in 1..n : frames'[p] = frames[p] BY <1>6, <2>3
  <2>11. Earlier(Position, Position') BY <2>3, <2>7, <2>8, <2>9, <2>10, ChangeIsEarlier
  <2> QED BY <2>4, <2>11
<1> QED BY <1>8, <1>9

(* Each step keeps the frames, and takes the search forward. *)
LEMMA StepAdvances ==
  ASSUME FrameInv, [Next]_vars
  PROVE  FrameInv' /\ [Searching' => Earlier(Position, Position')]_vars
<1>1. ASSUME Searching PROVE IsFrame(Top)
  <2>1. Len(frames) \in Nat /\ Len(frames) > 0 BY <1>1, SeqDomain DEF FrameInv
  <2>2. PICK n \in Nat : Len(frames) = n + 1
    <3>1. Len(frames) - 1 \in Nat /\ Len(frames) = (Len(frames) - 1) + 1 BY <2>1
    <3> QED BY <3>1
  <2>3. Top = frames[n + 1] BY <2>2, FrontIsSeq DEF Top, FrameInv
  <2> QED BY <2>2, <2>3 DEF FrameInv
<1>2. ASSUME NEW f, IsFrame(f)
      PROVE  /\ IsFrame(NotParked(f)) /\ IsFrame(NextThread(f)) /\ IsFrame(NextTry(f))
             /\ NotParked(f).thread = f.thread /\ NotParked(f).constructor = f.constructor
             /\ f.thread < NextThread(f).thread
             /\ \/ f.thread < NextTry(f).thread
                \/ f.thread = NextTry(f).thread /\ f.constructor < NextTry(f).constructor
             /\ LET h == [f EXCEPT !.constructor = @ + 1]
                IN IsFrame(h) /\ h.thread = f.thread /\ f.constructor < h.constructor
  BY <1>2 DEF IsFrame, FrameFields, NotParked, NextThread, NextTry
<1>3. CASE SkipTask
  <2>1. PICK f : f \in {Top, NotParked(Top)} /\ frames' = WithTop(NextThread(f))
    BY <1>3 DEF SkipTask
  <2>2. mode = "step" /\ mode' = mode BY <1>3 DEF SkipTask, Visiting
  <2>3. IsFrame(Top) BY <1>1, <2>2 DEF Searching
  <2>4. IsFrame(f) /\ f.thread = Top.thread BY <1>2, <2>1, <2>3
  <2>5. IsFrame(NextThread(f)) /\ Top.thread < NextThread(f).thread BY <1>2, <2>4
  <2> QED BY <2>1, <2>2, <2>5, TopAdvances
<1>4. CASE NoStart \/ SwitchLimit
  <2>1. frames' = WithTop(NextThread(NotParked(Top)))
    BY <1>4 DEF NoStart, SwitchLimit, AfterLimit
  <2>2. mode = "step" /\ mode' = mode
    BY <1>4 DEF NoStart, SwitchLimit, Continuing, Visiting
  <2>3. IsFrame(Top) BY <1>1, <2>2 DEF Searching
  <2>4. PICK f : f = NotParked(Top) /\ IsFrame(f) /\ f.thread = Top.thread
    BY <1>2, <2>3
  <2>5. IsFrame(NextThread(f)) /\ Top.thread < NextThread(f).thread BY <1>2, <2>4
  <2> QED BY <2>1, <2>2, <2>4, <2>5, TopAdvances
<1>5. CASE SkipConstructor
  <2>1. PICK f, h : /\ f = NotParked(Top) /\ h = [f EXCEPT !.constructor = @ + 1]
                    /\ frames' = WithTop(h)
    BY <1>5 DEF SkipConstructor
  <2>2. mode = "step" /\ mode' = mode BY <1>5 DEF SkipConstructor, Starting, Visiting
  <2>3. IsFrame(Top) BY <1>1, <2>2 DEF Searching
  <2>4. IsFrame(f) /\ f.thread = Top.thread /\ f.constructor = Top.constructor
    BY <1>2, <2>1, <2>3
  <2>5. IsFrame(h) /\ h.thread = f.thread /\ f.constructor < h.constructor
    BY <1>2, <2>1, <2>4
  <2> QED BY <2>1, <2>2, <2>4, <2>5, TopAdvances
<1>6. CASE ContinueTask \/ StartTask
  <2>1. mode = "step" BY <1>6 DEF ContinueTask, StartTask, Continuing, Starting, Visiting
  <2>2. \E th, t, is_new, switches : Resumes(th, t, is_new, switches)
    BY <1>6 DEF ContinueTask, StartTask
  <2>3. PICK th, t, is_new, switches : Resumes(th, t, is_new, switches) BY <2>2
  <2>4. PICK finished, stop, f, g :
          /\ f = [NotParked(Top) EXCEPT !.task = t.id, !.is_new = is_new,
                                        !.is_finished = finished]
          /\ g = NewFrame(switches) /\ stop \in BOOLEAN
          /\ mode' = IF stop THEN "judge" ELSE "step"
          /\ frames' = WithTop(f) \o (IF stop THEN << >> ELSE <<g>>)
    BY <2>3 DEF Resumes
  <2>5. PICK h : h = NotParked(Top) /\ IsFrame(h) /\ h.thread = Top.thread
                 /\ h.constructor = Top.constructor
    BY <1>1, <1>2, <2>1 DEF Searching
  <2>6. IsFrame(f) /\ f.thread = Top.thread /\ f.constructor = Top.constructor
    BY <2>4, <2>5 DEF IsFrame, FrameFields
  <2>7. IsFrame(g) BY <2>4 DEF NewFrame, IsFrame, FrameFields
  <2> QED BY <2>1, <2>4, <2>6, <2>7, ResumeAdvances
<1>7. CASE Judge
  <2>1. mode = "judge" /\ frames' = frames /\ mode' \in {"destroy", "undo"}
    BY <1>7 DEF Judge
  <2>2. FrameInv' BY <2>1 DEF FrameInv, Searching
  <2>3. ASSUME Searching' PROVE Earlier(Position, Position')
    <3>1. mode' = "undo" BY <2>1, <2>3 DEF Searching
    <3>2. PICK n : n = Len(frames) /\ n \in Nat /\ n > 0
      BY <2>1, SeqDomain DEF FrameInv, Searching
    <3>3. DoneAt(n, n, mode) = 1 /\ DoneAt(n, n, mode') = 2 BY <2>1, <3>1, <3>2 DEF DoneAt
    <3>4. Less(PlaceOf(frames[n], DoneAt(n, Len(frames), mode)),
               PlaceOf(frames'[n], DoneAt(n, Len(frames'), mode')))
      BY <2>1, <3>2, <3>3 DEF Less, PlaceOf
    <3>5. n \in 1..Len(frames) /\ n \in 1..Len(frames') BY <2>1, <3>2
    <3>6. IsSeq(frames') BY <2>1 DEF FrameInv
    <3> QED BY <2>1, <3>4, <3>5, <3>6, ChangeIsEarlier
  <2> QED BY <2>2, <2>3
<1>8. CASE EndStep
  <2>1. mode = "step" /\ frames' = Front(frames) BY <1>8 DEF EndStep
  <2>2. PICK n \in Nat : Len(frames) = n + 1
    <3>1. Len(frames) \in Nat /\ Len(frames) > 0
      BY <2>1, SeqDomain DEF FrameInv, Searching
    <3>2. Len(frames) - 1 \in Nat /\ Len(frames) = (Len(frames) - 1) + 1 BY <3>1
    <3> QED BY <3>2
  <2>3. /\ IsSeq(frames') /\ Len(frames') = n /\ \A p \in 1..n : frames'[p] = frames[p]
    BY <2>1, <2>2, FrontIsSeq DEF FrameInv
  <2>4. CASE n = 0
    <3>1. mode' = "destroy" BY <1>8, <2>2, <2>4 DEF EndStep
    <3> QED BY <2>3, <2>4, <3>1 DEF FrameInv, Searching
  <2>5. CASE n # 0
    <3>1. mode' = "undo" BY <1>8, <2>2, <2>5 DEF EndStep
    <3>2. n \in 1..n /\ n \in 1..Len(frames) /\ n \in 1..Len(frames') BY <2>2, <2>3, <2>5
    <3>3. FrameInv' BY <2>2, <2>3, <2>5, <3>2 DEF FrameInv
    <3>4. DoneAt(n, Len(frames), mode) = 1 /\ DoneAt(n, Len(frames'), mode') = 2
      BY <2>2, <2>3, <3>1 DEF DoneAt
    <3>5. Less(PlaceOf(frames[n], DoneAt(n, Len(frames), mode)),
               PlaceOf(frames'[n], DoneAt(n, Len(frames'), mode')))
      BY <2>3, <3>2, <3>4 DEF Less, PlaceOf
    <3>6. \A p \in 1..(n - 1) : frames'[p] = frames[p] BY <2>3
    <3>7. Earlier(Position, Position') BY <2>3, <3>2, <3>5, <3>6, ChangeIsEarlier
    <3> QED BY <3>3, <3>7
  <2> QED BY <2>4, <2>5
<1>9. CASE Undo
  <2>1. mode = "undo" /\ mode' = "step" /\ frames' = WithTop(NextTry(Top))
    BY <1>9 DEF Undo
  <2>2. IsFrame(Top) BY <1>1, <2>1 DEF Searching
  <2>3. PICK f : f = NextTry(Top) /\ IsFrame(f)
                 /\ \/ Top.thread < f.thread
                    \/ Top.thread = f.thread /\ Top.constructor < f.constructor
    BY <1>2, <2>2
  <2> QED BY <2>1, <2>3, TopAdvances
<1>10. CASE CheckerThrows \/ Destroy \/ Abort
  <2>1. frames' = frames /\ mode' \in {"abort", "done"}
    BY <1>10 DEF CheckerThrows, Destroy, Abort
  <2> QED BY <2>1 DEF FrameInv, Searching
<1>11. CASE Ended \/ UNCHANGED vars
  <2>1. UNCHANGED vars BY <1>11 DEF Ended
  <2>2. frames' = frames /\ mode' = mode BY <2>1 DEF vars
  <2> QED BY <2>1, <2>2 DEF FrameInv, Searching
<1> QED BY <1>3, <1>4, <1>5, <1>6, <1>7, <1>8, <1>9, <1>10, <1>11 DEF Next

-----------------------------------------------------------------------------
(* What the positions of a search are: a place for each of the frames. *)
IsPlace(a) == DOMAIN a = 1..3 /\ \A k \in 1..3 : a[k] \in Nat
IsPosition(P) == \E n \in Nat : DOMAIN P = 1..n /\ \A p \in 1..n : IsPlace(P[p])

(* Places are compared lexicographically. *)
Before(a, b) == \E k \in 1..3 : a[k] < b[k] /\ \A j \in 1..(k - 1) : a[j] = b[j]

(* No place is before itself, and the order of the places is transitive. *)
LEMMA BeforeIsOrder ==
  ASSUME NEW a, IsPlace(a), NEW b, IsPlace(b), NEW c, IsPlace(c)
  PROVE  ~Before(a, a) /\ (Before(a, b) /\ Before(b, c) => Before(a, c))
<1>1. ~Before(a, a) BY DEF Before, IsPlace
<1>2. ASSUME Before(a, b), Before(b, c) PROVE Before(a, c)
  <2>1. PICK k \in 1..3 : a[k] < b[k] /\ \A j \in 1..(k - 1) : a[j] = b[j]
    BY <1>2 DEF Before
  <2>2. PICK m \in 1..3 : b[m] < c[m] /\ \A j \in 1..(m - 1) : b[j] = c[j]
    BY <1>2 DEF Before
  <2>3. \A j \in 1..3 : a[j] \in Nat /\ b[j] \in Nat /\ c[j] \in Nat BY DEF IsPlace
  <2>4. CASE k < m
    <3>1. k \in 1..(m - 1) /\ \A j \in 1..(k - 1) : j \in 1..(m - 1) BY <2>4
    <3>2. a[k] < c[k] BY <2>1, <2>2, <3>1
    <3>3. \A j \in 1..(k - 1) : a[j] = c[j] BY <2>1, <2>2, <3>1
    <3> QED BY <3>2, <3>3 DEF Before
  <2>5. CASE m < k
    <3>1. m \in 1..(k - 1) /\ \A j \in 1..(m - 1) : j \in 1..(k - 1) BY <2>5
    <3>2. a[m] < c[m] BY <2>1, <2>2, <3>1
    <3>3. \A j \in 1..(m - 1) : a[j] = c[j] BY <2>1, <2>2, <3>1
    <3> QED BY <3>2, <3>3 DEF Before
  <2>6. CASE k = m
    <3>1. a[k] < c[k] BY <2>1, <2>2, <2>3, <2>6
    <3>2. \A j \in 1..(k - 1) : a[j] = c[j] BY <2>1, <2>2, <2>6
    <3> QED BY <3>1, <3>2 DEF Before
  <2> QED BY <2>4, <2>5, <2>6
<1> QED BY <1>1, <1>2

(* Earlier compares the first places that differ. *)
LEMMA EarlierIsBefore ==
  ASSUME NEW P, IsPosition(P), NEW Q
  PROVE  Earlier(P, Q) <=> \E p \in DOMAIN P \cap DOMAIN Q :
                             /\ \A q \in 1..(p - 1) : P[q] = Q[q]
                             /\ Before(P[p], Q[p])
<1>1. \A p \in DOMAIN P : DOMAIN P[p] = 1..3 BY DEF IsPosition, IsPlace
<1> QED BY <1>1 DEF Earlier, Before

(* A search that goes forward does not come back: no position is earlier   *)
(* than itself, and what is earlier than an earlier position is earlier.   *)
THEOREM EarlierIsOrder ==
  ASSUME NEW P, IsPosition(P), NEW Q, IsPosition(Q), NEW R, IsPosition(R)
  PROVE  ~Earlier(P, P) /\ (Earlier(P, Q) /\ Earlier(Q, R) => Earlier(P, R))
<1>2. PICK l, m, n : /\ l \in Nat /\ m \in Nat /\ n \in Nat
                     /\ DOMAIN P = 1..l /\ DOMAIN Q = 1..m /\ DOMAIN R = 1..n
  BY DEF IsPosition
<1>3. /\ \A p \in DOMAIN P : IsPlace(P[p])
      /\ \A p \in DOMAIN Q : IsPlace(Q[p])
      /\ \A p \in DOMAIN R : IsPlace(R[p])
  BY DEF IsPosition
<1>4. ~Earlier(P, P)
  <2>1. \A p \in DOMAIN P : ~Before(P[p], P[p]) BY <1>3, BeforeIsOrder
  <2> QED BY <2>1, EarlierIsBefore
<1>5. ASSUME Earlier(P, Q), Earlier(Q, R) PROVE Earlier(P, R)
  <2>1. PICK p \in DOMAIN P \cap DOMAIN Q :
          (\A q \in 1..(p - 1) : P[q] = Q[q]) /\ Before(P[p], Q[p])
    BY <1>5, EarlierIsBefore
  <2>2. PICK r \in DOMAIN Q \cap DOMAIN R :
          (\A q \in 1..(r - 1) : Q[q] = R[q]) /\ Before(Q[r], R[r])
    BY <1>5, EarlierIsBefore
  <2>3. p \in 1..l /\ p \in 1..m /\ r \in 1..m /\ r \in 1..n BY <1>2, <2>1, <2>2
  <2>4. CASE p < r
    <3>1. p \in 1..(r - 1) /\ p \in 1..n /\ \A q \in 1..(p - 1) : q \in 1..(r - 1)
      BY <1>2, <2>3, <2>4
    <3>2. Before(P[p], R[p]) BY <2>1, <2>2, <3>1
    <3>3. \A q \in 1..(p - 1) : P[q] = R[q] BY <2>1, <2>2, <3>1
    <3> QED BY <1>2, <2>3, <3>1, <3>2, <3>3, EarlierIsBefore
  <2>5. CASE r < p
    <3>1. r \in 1..(p - 1) /\ r \in 1..l /\ \A q \in 1..(r - 1) : q \in 1..(p - 1)
      BY <1>2, <2>3, <2>5
    <3>2. Before(P[r], R[r]) BY <2>1, <2>2, <3>1
    <3>3. \A q \in 1..(r - 1) : P[q] = R[q] BY <2>1, <2>2, <3>1
    <3> QED BY <1>2, <2>3, <3>1, <3>2, <3>3, EarlierIsBefore
  <2>6. CASE p = r
    <3>1. Before(P[p], R[p])
      <4>1. IsPlace(P[p]) /\ IsPlace(Q[p]) /\ IsPlace(R[p]) BY <1>3, <2>1, <2>2, <2>6
      <4> QED BY <2>1, <2>2, <2>6, <4>1, BeforeIsOrder
    <3>2. \A q \in 1..(p - 1) : P[q] = R[q] BY <2>1, <2>2, <2>6
    <3> QED BY <2>1, <2>2, <2>6, <3>1, <3>2, EarlierIsBefore
  <2> QED BY <2>3, <2>4, <2>5, <2>6
<1> QED BY <1>4, <1>5

(* The positions of the search are of this kind. *)
LEMMA PositionsAreOrdered ==
  ASSUME FrameInv
  PROVE  IsPosition(Position)
<1>1. PICK n \in Nat : n = Len(frames) /\ DOMAIN frames = 1..n BY SeqDomain DEF FrameInv
<1>2. DOMAIN Position = 1..n BY <1>1 DEF Position
<1>3. ASSUME NEW p \in 1..n PROVE IsPlace(Position[p])
  <2>1. PICK d \in Nat : Position[p] = PlaceOf(frames[p], d)
    BY <1>1 DEF Position, PlaceOf
  <2>2. frames[p].thread \in Nat /\ frames[p].constructor \in Nat
    BY <1>1 DEF FrameInv, IsFrame
  <2> QED BY <2>1, <2>2 DEF IsPlace, PlaceOf
<1> QED BY <1>2, <1>3 DEF IsPosition

(* The frames of every state of a search. *)
LEMMA FramesAreKept == Spec => []FrameInv
<1>1. Init => FrameInv
  <2> SUFFICES ASSUME Init PROVE FrameInv OBVIOUS
  <2>1. PICK f : f = NewFrame(0) /\ frames = <<f>> BY DEF Init
  <2>2. IsFrame(f) BY <2>1 DEF NewFrame, IsFrame, FrameFields
  <2>3. frames \in Seq({f}) /\ Len(frames) = 1 /\ frames[1] = f BY <2>1
  <2>4. IsSeq(frames) BY <2>3, SeqOfRange DEF IsSeq
  <2> QED BY <2>2, <2>3, <2>4 DEF FrameInv
<1>2. FrameInv /\ [Next]_vars => FrameInv' BY StepAdvances
<1> QED BY <1>1, <1>2, PTL DEF Spec

(* Every state of a search is at a position of that order: the loops of    *)
(* RunStep count through natural numbers at every depth.                   *)
THEOREM SearchHasPosition == Spec => []IsPosition(Position)
BY FramesAreKept, PositionsAreOrdered, PTL

(* The search never comes back to a place where it was, for any target and *)
(* any options: RunStep goes through its choices in the order of the two   *)
(* loops, and what ResumeTask undoes is not tried again, although the      *)
(* tasks below are terminated and replayed after every step.               *)
THEOREM SearchGoesForward == Spec => SearchAdvances
<1>1. FrameInv /\ [Next]_vars =>
        [mode' \in {"step", "judge", "undo"} => Earlier(Position, Position')]_vars
  BY StepAdvances DEF Searching
<1> QED BY <1>1, FramesAreKept, PTL DEF Spec, SearchAdvances
=============================================================================
