------------------------- MODULE RateLimiter_proofs -------------------------
(***************************************************************************)
(* The limiter's promise for any number of requests and identifiers, and   *)
(* any limit, window and delay.                                            *)
(*                                                                         *)
(* A hit admitted by a pipeline that did not break leaves the store only   *)
(* when its window is over by the clock, whatever breaks later             *)
(* (Remembered).  Such a hit that is admitted now was stamped at most      *)
(* Delay ago, so it still finds every one of them in its span; one that    *)
(* breaks adds to both sides of the bound.                                 *)
(***************************************************************************)
EXTENDS RateLimiter, FiniteSetTheorems, TLAPS

\* A hit lands within Delay of its stamp.
Punctual == \A h \in flying : h.stamp <= now /\ now <= h.stamp + Delay

\* What was admitted and did not break is in the store, or its window is over;
\* its identifier's key outlives it.
Remembered ==
  \A g \in admitted \ broken :
    /\ g.stamp <= now
    /\ g \in store \/ g.stamp + Window <= now
    /\ g.stamp + Window <= expires[g.id]

Finite == IsFiniteSet(store) /\ IsFiniteSet(admitted)

Inv == LimiterTypeOK /\ Punctual /\ Remembered /\ Finite

-----------------------------------------------------------------------------

\* Whatever commands fail, recording a hit forgets none that is remembered; it
\* is remembered itself when the failures are harmless.
LEMMA RecordKeeps ==
  ASSUME Inv, NEW h \in flying, NEW f \in SUBSET Commands, Record(h, f)
  PROVE  /\ h \in Hits
         /\ flying' \subseteq flying /\ now' = now /\ asked' = asked
         /\ store' \subseteq Hits /\ IsFiniteSet(store')
         /\ expires' \in [Identifiers -> 0 .. MaxTime + Window]
         /\ \A g \in admitted \ broken :
              /\ g \in store' \/ g.stamp + Window <= now
              /\ g.stamp + Window <= expires'[g.id]
         /\ f \subseteq Harmless => h \in store' /\ h.stamp + Window <= expires'[h.id]
<1> USE LimiterAssumption
<1>1. h \in Hits /\ h.stamp <= now /\ now <= h.stamp + Delay
  BY DEF Inv, LimiterTypeOK, Punctual
<1>2. /\ store' = Others(h) \cup Recorded(h, f) /\ flying' = flying \ {h}
      /\ expires' = [expires EXCEPT ![h.id] = Expiry(h, f)]
      /\ now' = now /\ asked' = asked
  BY DEF Record
<1>3. now \in 0 .. MaxTime /\ store \subseteq Hits /\ admitted \subseteq Hits
      /\ expires \in [Identifiers -> 0 .. MaxTime + Window]
  BY DEF Inv, LimiterTypeOK
<1>4. h.id \in Identifiers /\ h.stamp \in 0 .. MaxTime  BY <1>1 DEF Hits
<1>5. Expiry(h, f) \in 0 .. MaxTime + Window
  <2>1. expires[h.id] \in 0 .. MaxTime + Window  BY <1>3, <1>4
  <2>2. now + Window \in 0 .. MaxTime + Window /\ Never \in 0 .. MaxTime + Window
    BY <1>3 DEF Never
  <2> QED  BY <2>1, <2>2 DEF Expiry
<1>6. expires' \in [Identifiers -> 0 .. MaxTime + Window]  BY <1>2, <1>3, <1>5
<1>7. expires'[h.id] = Expiry(h, f)  BY <1>2, <1>3, <1>4
<1>8. IsFiniteSet(store')
  <2>1. store' \subseteq store \cup {h}  BY <1>2 DEF Others, Recorded, Kept
  <2>2. IsFiniteSet(store \cup {h})  BY FS_AddElement DEF Inv, Finite
  <2> QED  BY <2>1, <2>2, FS_Subset
<1>9. ASSUME NEW g \in admitted \ broken
      PROVE  /\ g \in store' \/ g.stamp + Window <= now
             /\ g.stamp + Window <= expires'[g.id]
  <2>1. g \in Hits /\ g.stamp <= now /\ g.stamp + Window <= expires[g.id]
        /\ (g \in store \/ g.stamp + Window <= now)
    BY <1>3 DEF Inv, Remembered
  <2>2. g.stamp \in 0 .. MaxTime  BY <2>1 DEF Hits
  <2>3. CASE g.id # h.id
    BY <1>2, <1>3, <2>1, <2>3 DEF Others, Hits
  <2>4. CASE g.id = h.id
    <3>1. g.stamp + Window <= Expiry(h, f)
      <4>1. g.stamp + Window <= now + Window  BY <1>3, <2>1, <2>2
      <4>2. g.stamp + Window <= Never  BY <2>2 DEF Never
      <4> QED  BY <2>1, <2>4, <4>1, <4>2 DEF Expiry
    <3>2. CASE g \in Kept(h, f)  BY <1>2, <1>7, <2>4, <3>1, <3>2 DEF Recorded
    <3>3. CASE g \notin Kept(h, f)
      <4>1. g \notin store \/ expires[h.id] <= now \/ g.stamp <= h.stamp - Window
        BY <1>3, <1>4, <2>1, <2>2, <2>4, <3>3 DEF Kept
      <4>2. g.stamp + Window <= now
        BY <1>1, <1>3, <1>4, <2>1, <2>2, <2>4, <4>1
      <4> QED  BY <1>7, <2>4, <3>1, <4>2
    <3> QED  BY <3>2, <3>3
  <2> QED  BY <2>3, <2>4
<1>10. ASSUME f \subseteq Harmless
       PROVE  h \in store' /\ h.stamp + Window <= expires'[h.id]
  <2>1. "add" \notin f /\ "expire" \notin f  BY <1>10 DEF Harmless
  <2>2. h \in store'  BY <1>2, <2>1 DEF Recorded
  <2>3. expires'[h.id] = now + Window  BY <1>7, <2>1 DEF Expiry
  <2> QED  BY <1>1, <1>3, <1>4, <2>2, <2>3
<1>11. store' \subseteq Hits
  BY <1>1, <1>2, <1>3 DEF Others, Recorded, Kept
<1>12. flying' \subseteq flying /\ now' = now /\ asked' = asked  BY <1>2
<1> QED  BY <1>1, <1>6, <1>8, <1>9, <1>10, <1>11, <1>12

LEMMA InvInit == LimiterInit => Inv
<1> USE LimiterAssumption
<1> SUFFICES ASSUME LimiterInit PROVE Inv  OBVIOUS
<1>1. LimiterTypeOK /\ Punctual /\ Remembered
  BY DEF LimiterInit, LimiterTypeOK, Punctual, Remembered
<1>2. Finite  BY FS_EmptySet DEF LimiterInit, Finite
<1> QED  BY <1>1, <1>2 DEF Inv

LEMMA InvStep == Inv /\ [LimiterNext]_limiterVars => Inv'
<1> USE LimiterAssumption
<1> SUFFICES ASSUME Inv, [LimiterNext]_limiterVars PROVE Inv'  OBVIOUS
<1>1. CASE Tick
  <2>1. /\ now' = now + 1 /\ now < MaxTime
        /\ \A h \in flying : now < h.stamp + Delay
        /\ UNCHANGED <<asked, flying, store, expires, admitted, broken>>
    BY <1>1 DEF Tick
  <2>2. LimiterTypeOK'  BY <2>1 DEF Inv, LimiterTypeOK
  <2>3. Punctual'
    BY <2>1 DEF Inv, Punctual, LimiterTypeOK, Hits
  <2>4. Remembered'
    BY <2>1 DEF Inv, Remembered, LimiterTypeOK, Hits
  <2> QED  BY <2>1, <2>2, <2>3, <2>4 DEF Inv, Finite
<1>2. ASSUME NEW r \in Requests, NEW id \in Identifiers, Ask(r, id) PROVE Inv'
  <2>1. /\ asked' = asked \cup {r}
        /\ flying' = flying \cup {[by |-> r, id |-> id, stamp |-> now]}
        /\ UNCHANGED <<now, store, expires, admitted, broken>>
    BY <1>2 DEF Ask
  <2>2. LimiterTypeOK'  BY <2>1 DEF Inv, LimiterTypeOK, Hits
  <2>3. Punctual'  BY <2>1 DEF Inv, Punctual, LimiterTypeOK
  <2> QED  BY <2>1, <2>2, <2>3 DEF Inv, Remembered, Finite
<1>3. ASSUME NEW h \in flying, NEW f \in SUBSET Commands, Record(h, f),
             \/ UNCHANGED <<admitted, broken>>
             \/ /\ admitted' = admitted \cup {h}
                /\ broken' = IF f \subseteq Harmless THEN broken ELSE broken \cup {h}
      PROVE  Inv'
  <2>1. LimiterTypeOK'
    BY <1>3, RecordKeeps DEF Inv, LimiterTypeOK
  <2>2. Punctual'  BY <1>3, RecordKeeps DEF Inv, Punctual
  <2>3. h.stamp <= now  BY DEF Inv, Punctual
  <2>4. ASSUME NEW g \in admitted' \ broken'
        PROVE  g \in admitted \ broken \/ (g = h /\ f \subseteq Harmless)
    BY <1>3, <2>4
  <2>5. Remembered'
    BY <1>3, <2>3, <2>4, RecordKeeps DEF Inv, Remembered
  <2>6. IsFiniteSet(admitted \cup {h})  BY FS_AddElement DEF Inv, Finite
  <2>7. Finite'  BY <1>3, <2>6, RecordKeeps DEF Inv, Finite
  <2> QED  BY <2>1, <2>2, <2>5, <2>7 DEF Inv
<1>4. ASSUME NEW h \in flying, flying' = flying \ {h},
             UNCHANGED <<now, asked, store, expires, admitted, broken>>
      PROVE  Inv'
  BY <1>4 DEF Inv, LimiterTypeOK, Punctual, Remembered, Finite
<1>5. CASE UNCHANGED limiterVars
  BY <1>5 DEF limiterVars, Inv, LimiterTypeOK, Punctual, Remembered, Finite
<1> QED
  BY <1>1, <1>2, <1>3, <1>4, <1>5 DEF LimiterNext, Admit, Refuse, FailStore

-----------------------------------------------------------------------------

\* The admitted hits of a span that did not break.
Sound(id, t) == AdmittedIn(id, t) \ broken
SoundLimit == \A id \in Identifiers, t \in 0 .. MaxTime : Cardinality(Sound(id, t)) <= Limit

\* A hit that is admitted and does not break found all the others of any span
\* it belongs to.
LEMMA SpanIsRecorded ==
  ASSUME Inv, NEW h \in flying, NEW f \in SUBSET Harmless, Record(h, f),
         admitted' = admitted \cup {h}, broken' = broken,
         NEW id \in Identifiers, NEW t \in 0 .. MaxTime, h \in AdmittedIn(id, t)'
  PROVE  Sound(id, t)' \subseteq Recorded(h, f)
<1> USE LimiterAssumption
<1>1. /\ h \in Hits /\ now \in 0 .. MaxTime /\ now <= h.stamp + Delay
      /\ h.id = id /\ h.stamp <= t
      /\ admitted \subseteq Hits /\ expires \in [Identifiers -> 0 .. MaxTime + Window]
  BY DEF Inv, LimiterTypeOK, Punctual, AdmittedIn
<1>2. "add" \notin f  BY DEF Harmless
<1> SUFFICES ASSUME NEW g \in Sound(id, t)', g # h PROVE g \in Kept(h, f)
  BY <1>2 DEF Recorded
<1>3. g \in admitted \ broken /\ g \in Hits /\ g.id = id /\ t - Span < g.stamp
  BY <1>1 DEF AdmittedIn, Sound
<1>4. now < g.stamp + Window
  BY <1>1, <1>3 DEF Span, Hits
<1>5. g \in store /\ now < expires[g.id]
  BY <1>1, <1>3, <1>4 DEF Inv, Remembered, Hits
<1>6. g.stamp > h.stamp - Window
  BY <1>1, <1>3 DEF Span, Hits
<1> QED  BY <1>1, <1>3, <1>5, <1>6 DEF Kept, Hits

LEMMA LimitInit == LimiterInit => SoundLimit
<1> USE LimiterAssumption
<1>1. ASSUME LimiterInit, NEW id \in Identifiers, NEW t \in 0 .. MaxTime
      PROVE  Cardinality(Sound(id, t)) <= Limit
  <2>1. Sound(id, t) = {}  BY <1>1 DEF LimiterInit, AdmittedIn, Sound
  <2> QED  BY <2>1, FS_EmptySet
<1> QED  BY <1>1 DEF SoundLimit

LEMMA LimitStep == Inv /\ SoundLimit /\ [LimiterNext]_limiterVars => SoundLimit'
<1> USE LimiterAssumption
<1> SUFFICES ASSUME Inv, SoundLimit, [LimiterNext]_limiterVars,
                    NEW id \in Identifiers, NEW t \in 0 .. MaxTime
             PROVE  Cardinality(Sound(id, t)') <= Limit
  BY DEF SoundLimit
<1>1. Cardinality(Sound(id, t)) <= Limit  BY DEF SoundLimit
<1>2. IsFiniteSet(Sound(id, t))
  <2>1. Sound(id, t) \subseteq admitted  BY DEF Sound, AdmittedIn
  <2> QED  BY <2>1, FS_Subset DEF Inv, Finite
<1>3. ASSUME Sound(id, t)' \subseteq Sound(id, t) PROVE Cardinality(Sound(id, t)') <= Limit
  <2>1. /\ Cardinality(Sound(id, t)') <= Cardinality(Sound(id, t))
        /\ Cardinality(Sound(id, t)') \in Nat /\ Cardinality(Sound(id, t)) \in Nat
    BY <1>2, <1>3, FS_Subset, FS_CardinalityType
  <2> QED  BY <1>1, <2>1
<1>4. CASE UNCHANGED <<admitted, broken>>
  <2>1. Sound(id, t)' \subseteq Sound(id, t)  BY <1>4 DEF Sound, AdmittedIn
  <2> QED  BY <1>3, <2>1
<1>5. ASSUME NEW h \in flying, NEW f \in SUBSET Commands,
             Record(h, f), IsOk(h, f), admitted' = admitted \cup {h},
             broken' = IF f \subseteq Harmless THEN broken ELSE broken \cup {h}
      PROVE  Cardinality(Sound(id, t)') <= Limit
  <2>1. CASE h \in AdmittedIn(id, t)' /\ f \subseteq Harmless
    <3>1. Sound(id, t)' \subseteq Recorded(h, f)  BY <1>5, <2>1, SpanIsRecorded
    <3>2. IsFiniteSet(Recorded(h, f))
      <4>1. Recorded(h, f) \subseteq store \cup {h}  BY DEF Recorded, Kept
      <4>2. IsFiniteSet(store \cup {h})  BY FS_AddElement DEF Inv, Finite
      <4> QED  BY <4>1, <4>2, FS_Subset
    <3>3. /\ Cardinality(Sound(id, t)') <= Cardinality(Recorded(h, f))
          /\ Cardinality(Sound(id, t)') \in Nat /\ Cardinality(Recorded(h, f)) \in Nat
      BY <3>1, <3>2, FS_Subset, FS_CardinalityType
    <3>4. "count" \notin f  BY <2>1 DEF Harmless
    <3>5. Cardinality(Recorded(h, f)) <= Limit  BY <1>5, <3>4 DEF IsOk
    <3> QED  BY <3>3, <3>5
  <2>2. CASE h \notin AdmittedIn(id, t)' \/ ~(f \subseteq Harmless)
    <3>1. Sound(id, t)' \subseteq Sound(id, t)
      BY <1>5, <2>2 DEF Sound, AdmittedIn
    <3> QED  BY <1>3, <3>1
  <2> QED  BY <2>1, <2>2
<1> QED
  BY <1>4, <1>5 DEF LimiterNext, limiterVars, Tick, Ask, Admit, Refuse, FailStore

\* The bound on the hits that did not break is the bound stated.
LEMMA SoundIsLimit == Inv /\ SoundLimit => NeverOverLimit
<1> USE LimiterAssumption
<1> SUFFICES ASSUME Inv, SoundLimit, NEW id \in Identifiers, NEW t \in 0 .. MaxTime
             PROVE  Cardinality(AdmittedIn(id, t))
                      <= Limit + Cardinality(AdmittedIn(id, t) \cap broken)
  BY DEF NeverOverLimit
<1> DEFINE A == AdmittedIn(id, t)
<1>1. IsFiniteSet(A)
  <2>1. A \subseteq admitted  BY DEF AdmittedIn
  <2> QED  BY <2>1, FS_Subset DEF Inv, Finite
<1>2. Cardinality(A \ broken) = Cardinality(A) - Cardinality(A \cap broken)
  BY <1>1, FS_Difference
<1>3. IsFiniteSet(A \cap broken)  BY <1>1, FS_Subset
<1>4. Cardinality(A) \in Nat /\ Cardinality(A \cap broken) \in Nat
  BY <1>1, <1>3, FS_CardinalityType
<1>5. Cardinality(A \ broken) <= Limit  BY DEF SoundLimit, Sound
<1> QED  BY <1>2, <1>4, <1>5

\* The limiter's state keeps its type.
THEOREM LimiterTypeCorrect == LimiterSpec => []LimiterTypeOK
<1>1. Inv => LimiterTypeOK  BY DEF Inv
<1> QED  BY <1>1, InvInit, InvStep, PTL DEF LimiterSpec

\* An identifier is never admitted more than Limit times in a span, in whatever
\* order the pipelines of its requests land and whichever of them are lost; one
\* a command of which fails lets in its own request at most.
THEOREM Limits == LimiterSpec => []NeverOverLimit
<1>1. LimiterSpec => []Inv  BY InvInit, InvStep, PTL DEF LimiterSpec
<1> QED  BY <1>1, LimitInit, LimitStep, SoundIsLimit, PTL DEF LimiterSpec

=============================================================================
