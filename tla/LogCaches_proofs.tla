--------------------------- MODULE LogCaches_proofs ---------------------------
(***************************************************************************)
(* Type correctness of LogCaches, and that only what was overtaken is stale. *)
(***************************************************************************)
EXTENDS LogCaches, FiniteSetTheorems, TLAPS

LEMMA LoadType ==
  ASSUME TypeOK, NEW l \in Loads
  PROVE  load[l] \in Load
  BY DEF TypeOK

\* A load record with its pc, mapping and the rest in their sets.
LEMMA BecomeType ==
  ASSUME TypeOK, NEW l \in Loads, NEW s \in Load,
         s.pc # "idle" => s.mapping \in Mappings, Become(l, s)
  PROVE  /\ load' \in [Loads -> Load]
         /\ \A k \in Loads : load'[k].pc # "idle" => load'[k].mapping \in Mappings
         /\ load'[l] = s
         /\ \A k \in Loads : k # l => load'[k] = load[k]
  BY DEF TypeOK, Become

LEMMA IdleType == Idle \in Load /\ Idle.pc = "idle"
  BY DEF Idle, Load, Change

LEMMA OvertakeType ==
  ASSUME TypeOK, NEW pcs, NEW c \in Change, Overtake(pcs, c)
  PROVE  /\ load' \in [Loads -> Load]
         /\ \A k \in Loads : load'[k].pc # "idle" => load'[k].mapping \in Mappings
         /\ \A k \in Loads :
              /\ load'[k].pc = load[k].pc /\ load'[k].mapping = load[k].mapping
              /\ load'[k].mtime = load[k].mtime /\ load'[k].content = load[k].content
              /\ load'[k].written = load[k].written
              /\ load[k].pc \in pcs => load'[k].missed = load[k].missed \cup {c}
              /\ load[k].pc \notin pcs => load'[k].missed = load[k].missed
<1>1. ASSUME NEW k \in Loads
      PROVE  /\ load'[k] \in Load
             /\ load'[k].pc = load[k].pc /\ load'[k].mapping = load[k].mapping
             /\ load'[k].mtime = load[k].mtime /\ load'[k].content = load[k].content
             /\ load'[k].written = load[k].written
             /\ load[k].pc \in pcs => load'[k].missed = load[k].missed \cup {c}
             /\ load[k].pc \notin pcs => load'[k].missed = load[k].missed
  <2>1. load[k] \in Load
    BY LoadType
  <2>2. CASE load[k].pc \in pcs
    <3>1. load'[k] = [load[k] EXCEPT !.missed = load[k].missed \cup {c}]
      BY <2>2 DEF Overtake
    <3> QED BY <2>1, <2>2, <3>1 DEF Load
  <2>3. CASE load[k].pc \notin pcs
    BY <2>1, <2>3 DEF Overtake
  <2> QED BY <2>2, <2>3
<1>2. load' = [k \in Loads |-> load'[k]]
  BY DEF Overtake
<1> QED BY <1>1, <1>2 DEF TypeOK

\* The LRU keeps its bound and gains one frame.
LEMMA RememberType ==
  ASSUME TypeOK, NEW l \in Loads, load[l].mapping \in Mappings,
         NEW c \in Nat, NEW raced \in BOOLEAN, Remember(l, c, raced)
  PROVE  /\ frames' \in [Processes -> SUBSET Frame]
         /\ \A p \in Processes : IsFiniteSet(frames'[p]) /\ Cardinality(frames'[p]) <= FrameMax
         /\ \A p \in Processes : \A f \in frames'[p] :
              \/ f \in frames[p]
              \/ f.mtime = load[l].mtime /\ f.content = c /\ f.raced = raced
<1> DEFINE new == [mtime |-> load[l].mtime, mapping |-> load[l].mapping,
                   content |-> c, raced |-> raced]
<1>1. l[1] \in Processes
  BY DEF Loads
<1>2. new \in Frame
  BY LoadType DEF Frame, Load
<1>3. PICK kept \in SUBSET frames[l[1]] :
        Cardinality(kept) < FrameMax /\ frames' = [frames EXCEPT ![l[1]] = kept \cup {new}]
  BY DEF Remember
<1>4. IsFiniteSet(kept) /\ Cardinality(kept) \in Nat
  BY <1>1, <1>3, FS_Subset, FS_CardinalityType DEF TypeOK
<1>5. IsFiniteSet(kept \cup {new}) /\ Cardinality(kept \cup {new}) <= Cardinality(kept) + 1
  <2>1. Cardinality(kept \cup {new}) = IF new \in kept THEN Cardinality(kept)
                                                       ELSE Cardinality(kept) + 1
    BY <1>4, FS_AddElement
  <2>2. IsFiniteSet(kept \cup {new})
    BY <1>4, FS_AddElement
  <2> QED BY <1>4, <2>1, <2>2
<1>6. Cardinality(kept \cup {new}) <= FrameMax
  <2>1. Cardinality(kept \cup {new}) \in Nat /\ FrameMax \in Nat
    BY <1>5, FS_CardinalityType, CachesAssumption
  <2> QED BY <1>3, <1>4, <1>5, <2>1
<1>7. new.mtime = load[l].mtime /\ new.content = c /\ new.raced = raced
  OBVIOUS
<1> HIDE DEF new
<1>8. \A p \in Processes : frames'[p] = frames[p] \/ frames'[p] = kept \cup {new}
  BY <1>3 DEF TypeOK
<1>9. \A p \in Processes : p # l[1] => frames'[p] = frames[p]
  BY <1>3 DEF TypeOK
<1>10. frames'[l[1]] = kept \cup {new}
  BY <1>1, <1>3 DEF TypeOK
<1> QED BY <1>1, <1>2, <1>3, <1>5, <1>6, <1>7, <1>9, <1>10 DEF TypeOK

-----------------------------------------------------------------------------
(* Type correctness                                                          *)

LEMMA LoadStepType ==
  ASSUME TypeOK, NEW l \in Loads, LoadStep(l)
  PROVE  TypeOK'
<1> USE DEF Change
<1>0. load[l] \in Load /\ (load[l].pc # "idle" => load[l].mapping \in Mappings)
  BY LoadType DEF TypeOK
<1>1. CASE LookUp(l)
  <2>1. CASE Cached(l) = {}
    <3> DEFINE s == [load[l] EXCEPT !.pc = "looked", !.mtime = file.mtime]
    <3>1. Become(l, s) /\ s \in Load /\ (s.pc # "idle" => s.mapping \in Mappings)
      BY <1>0, <1>1, <2>1 DEF LookUp, Load, TypeOK
    <3> HIDE DEF s
    <3> QED BY <1>1, <3>1, BecomeType DEF LookUp, TypeOK
  <2>2. CASE Cached(l) # {}
    <3>1. PICK f \in Cached(l) :
            Become(l, [load[l] EXCEPT !.pc = "loaded", !.content = f.content,
                                      !.missed = @ \cup Misses(f.raced)])
      BY <1>1, <2>2 DEF LookUp
    <3>2. f \in Frame
      BY DEF Cached, TypeOK, Loads
    <3> DEFINE s == [load[l] EXCEPT !.pc = "loaded", !.content = f.content,
                                    !.missed = @ \cup Misses(f.raced)]
    <3>3. Become(l, s) /\ s \in Load /\ (s.pc # "idle" => s.mapping \in Mappings)
      BY <1>0, <1>1, <3>1, <3>2 DEF LookUp, Load, Frame, Misses
    <3> HIDE DEF s
    <3> QED BY <1>1, <3>3, BecomeType DEF LookUp, TypeOK
  <2> QED BY <2>1, <2>2
<1>2. CASE ReadSidecar(l)
  <2>1. PICK s \in sidecar[load[l].mapping] :
          LET missed == load[l].missed \cup Misses(s.raced)
          IN  /\ Remember(l, s.content, "repair" \in missed)
              /\ Become(l, [load[l] EXCEPT !.pc = "loaded", !.mtime = 0,
                                           !.content = s.content, !.missed = missed])
    BY <1>2 DEF ReadSidecar
  <2>2. s \in Sidecar
    BY <1>0, <1>2 DEF ReadSidecar, TypeOK
  <2> DEFINE missed == load[l].missed \cup Misses(s.raced)
             n == [load[l] EXCEPT !.pc = "loaded", !.mtime = 0,
                                  !.content = s.content, !.missed = missed]
  <2>3. Become(l, n) /\ n \in Load /\ (n.pc # "idle" => n.mapping \in Mappings)
    BY <1>0, <1>2, <2>1, <2>2 DEF ReadSidecar, Load, Sidecar, Misses
  <2>4. Remember(l, s.content, "repair" \in missed) /\ s.content \in Nat
        /\ ("repair" \in missed) \in BOOLEAN
    BY <2>1, <2>2 DEF Sidecar
  <2>5. load[l].mapping \in Mappings
    BY <1>0, <1>2 DEF ReadSidecar
  <2> HIDE DEF missed, n
  <2>6. /\ frames' \in [Processes -> SUBSET Frame]
        /\ \A p \in Processes : IsFiniteSet(frames'[p]) /\ Cardinality(frames'[p]) <= FrameMax
    BY <2>4, <2>5, RememberType
  <2>7. /\ load' \in [Loads -> Load]
        /\ \A k \in Loads : load'[k].pc # "idle" => load'[k].mapping \in Mappings
    BY <2>3, BecomeType
  <2> QED BY <1>2, <2>6, <2>7 DEF ReadSidecar, TypeOK
<1>3. CASE Parse(l)
  <2> DEFINE s == [load[l] EXCEPT !.pc = "parsed", !.content = file.content,
                                  !.missed = @ \ {"repair"}]
  <2>1. Become(l, s) /\ s \in Load /\ (s.pc # "idle" => s.mapping \in Mappings)
    BY <1>0, <1>3 DEF Parse, Load, TypeOK
  <2> HIDE DEF s
  <2> QED BY <1>3, <2>1, BecomeType DEF Parse, TypeOK
<1>4. CASE WriteSidecar(l)
  <2> DEFINE s == [load[l] EXCEPT !.pc = "written", !.written = clock + 1]
  <2>1. Become(l, s) /\ s \in Load /\ (s.pc # "idle" => s.mapping \in Mappings)
    <3>1. clock + 1 \in Nat /\ load[l].pc # "idle"
      BY <1>4 DEF WriteSidecar, TypeOK
    <3>2. Become(l, s)
      BY <1>4 DEF WriteSidecar
    <3> QED BY <1>0, <3>1, <3>2 DEF Load
  <2>2. clock' \in Nat
    BY <1>4 DEF WriteSidecar, TypeOK
  <2> HIDE DEF s
  <2> QED BY <1>4, <2>1, <2>2, BecomeType DEF WriteSidecar, TypeOK
<1>5. CASE InstallSidecar(l)
  <2> DEFINE s == [load[l] EXCEPT !.pc = "loaded", !.mtime = 0, !.written = 0]
  <2>1. Become(l, s) /\ s \in Load /\ (s.pc # "idle" => s.mapping \in Mappings)
    BY <1>0, <1>5 DEF InstallSidecar, Load
  <2>2. Remember(l, load[l].content, Raced(l)) /\ load[l].content \in Nat
        /\ Raced(l) \in BOOLEAN /\ load[l].mapping \in Mappings
    BY <1>0, <1>5 DEF InstallSidecar, Load, Raced
  <2>3. sidecar' \in [Mappings -> SUBSET Sidecar]
    BY <1>0, <1>5 DEF InstallSidecar, Load, Sidecar, Raced
  <2> HIDE DEF s
  <2>4. /\ frames' \in [Processes -> SUBSET Frame]
        /\ \A p \in Processes : IsFiniteSet(frames'[p]) /\ Cardinality(frames'[p]) <= FrameMax
    BY <2>2, RememberType
  <2> QED BY <1>5, <2>1, <2>3, <2>4, BecomeType DEF InstallSidecar, TypeOK
<1>6. CASE SkipSidecar(l)
  <2> DEFINE s == [load[l] EXCEPT !.pc = "loaded", !.mtime = 0]
  <2>1. Become(l, s) /\ s \in Load /\ (s.pc # "idle" => s.mapping \in Mappings)
    BY <1>0, <1>6 DEF SkipSidecar, Load
  <2>2. Remember(l, load[l].content, Raced(l)) /\ load[l].content \in Nat
        /\ Raced(l) \in BOOLEAN /\ load[l].mapping \in Mappings
    BY <1>0, <1>6 DEF SkipSidecar, Load, Raced
  <2> HIDE DEF s
  <2> QED BY <1>6, <2>1, <2>2, BecomeType, RememberType DEF SkipSidecar, TypeOK
<1>7. CASE Store(l)
  <2>1. result' \in SUBSET Result
    BY <1>0, <1>7 DEF Store, Load, Result
  <2> QED BY <1>7, <2>1, IdleType, BecomeType DEF Store, TypeOK
<1>8. CASE Leave(l)
  BY <1>8, IdleType, BecomeType DEF Leave, TypeOK
<1> QED BY <1>1, <1>2, <1>3, <1>4, <1>5, <1>6, <1>7, <1>8 DEF LoadStep

LEMMA WriteType ==
  ASSUME TypeOK, Write
  PROVE  /\ clock' \in Nat /\ file' \in [mtime : Nat, content : Nat]
         /\ load' \in [Loads -> Load]
         /\ \A k \in Loads : load'[k].pc # "idle" => load'[k].mapping \in Mappings
<1>1. clock' \in Nat /\ file' \in [mtime : Nat, content : Nat]
  BY DEF Write, TypeOK
<1> QED BY <1>1, OvertakeType DEF Write, Change

LEMMA LoseClearType ==
  ASSUME TypeOK, LoseClear
  PROVE  result' \in SUBSET Result /\ faults' \in Nat
  BY DEF TypeOK, LoseClear, Fault, Result, Change

LEMMA TypeStep == TypeOK /\ [Next]_vars => TypeOK'
<1> SUFFICES ASSUME TypeOK, [Next]_vars PROVE TypeOK'
  OBVIOUS
<1>1. ASSUME NEW l \in Loads, ReadMapping(l) PROVE TypeOK'
  <2> DEFINE s == [Idle EXCEPT !.pc = "mapped", !.mapping = mapping]
  <2>1. Become(l, s) /\ s \in Load /\ (s.pc # "idle" => s.mapping \in Mappings)
    BY <1>1 DEF ReadMapping, Idle, Load, TypeOK, Change
  <2> HIDE DEF s
  <2> QED BY <1>1, <2>1, BecomeType DEF ReadMapping, TypeOK
<1>2. ASSUME NEW l \in Loads, LoadStep(l) PROVE TypeOK'
  BY <1>2, LoadStepType
<1>3. CASE Expire
  BY <1>3 DEF Expire, TypeOK
<1>4. CASE BeginRewrite
  BY <1>4, WriteType DEF BeginRewrite, TypeOK
<1>5. CASE EndRewrite
  BY <1>5, WriteType DEF EndRewrite, TypeOK
<1>6. CASE ClearRepaired
  BY <1>6, LoseClearType DEF ClearRepaired, Clear, TypeOK
<1>7. CASE FailRewrite
  BY <1>7, LoseClearType DEF FailRewrite, TypeOK
<1>8. ASSUME NEW m \in Mappings, Remap(m) PROVE TypeOK'
  <2>1. remaps' \in Nat
    BY <1>8 DEF Remap, TypeOK
  <2> QED BY <1>8, <2>1, OvertakeType DEF Remap, Change, TypeOK
<1>9. CASE ClearRemapped
  BY <1>9, LoseClearType DEF ClearRemapped, Clear, TypeOK
<1>10. CASE UNCHANGED vars
  BY <1>10 DEF vars, TypeOK
<1> QED BY <1>1, <1>2, <1>3, <1>4, <1>5, <1>6, <1>7, <1>8, <1>9, <1>10
        DEF Next, Rewriting, Remapping

\* The caches, loads and handlers keep their types, and no LRU grows over
\* _DF_CACHE_MAX, whatever processes and threads share the log
\* (mining_engine.py _remember_df).
THEOREM TypeCorrect == Spec => []TypeOK
<1>1. Init => TypeOK
  <2> SUFFICES ASSUME Init PROVE TypeOK
    OBVIOUS
  <2>1. \A p \in Processes : frames[p] = {}
    BY DEF Init
  <2>2. IsFiniteSet({}) /\ Cardinality({}) = 0
    BY FS_EmptySet
  <2> QED BY <2>1, <2>2, IdleType, CachesAssumption DEF Init, TypeOK
<1> QED BY <1>1, TypeStep, PTL DEF Spec

-----------------------------------------------------------------------------
(* Only what was overtaken is stale                                          *)

\* A step that leaves the file, its dates, the row and the handlers alone,
\* adds only frames that fit the file, and whose new results are fresh or
\* overtaken.
LEMMA QuietStep ==
  ASSUME TypeOK, CachesInv,
         UNCHANGED <<mapping, file, repairer, mapper>>, clock' = clock \/ clock' = clock + 1,
         \A m \in Mappings : \A s \in sidecar'[m] :
            \/ s \in sidecar[m]
            \/ s.mtime \in 0..clock /\ (~s.raced => s.content = file.content),
         \A p \in Processes : \A f \in frames'[p] :
            \/ f \in frames[p]
            \/ f.mtime \in 0..clock /\ (~f.raced /\ f.mtime = file.mtime => f.content = file.content),
         \A e \in result' : e \in result \/ Fresh(e) \/ e.missed # {},
         \A l \in Loads : load'[l] = load[l]
            \/ /\ load'[l].mtime <= clock' /\ load'[l].written <= clock'
               /\ LoadInv(l)'
  PROVE  CachesInv'
<1>1. file.mtime \in Nat /\ clock \in Nat
  BY DEF TypeOK
<1>2. \A m \in Mappings : \A s \in sidecar[m] : s.mtime \in Nat
  BY DEF TypeOK, Sidecar
<1>3. \A p \in Processes : \A f \in frames[p] : f.mtime \in Nat
  BY DEF TypeOK, Frame
<1>4. \A l \in Loads : load[l].mtime \in Nat /\ load[l].written \in Nat
  BY LoadType DEF Load
<1>5. \A x \in Nat : x <= clock => x <= clock'
  BY <1>1
<1>6. DatesInv'
  <2>1. ASSUME NEW m \in Mappings, NEW s \in sidecar'[m] PROVE s.mtime <= clock'
    <3>1. s.mtime \in Nat /\ s.mtime <= clock
      BY <1>1, <1>2 DEF CachesInv, DatesInv
    <3> QED BY <1>5, <3>1
  <2>2. ASSUME NEW p \in Processes, NEW f \in frames'[p] PROVE f.mtime <= clock'
    <3>1. f.mtime \in Nat /\ f.mtime <= clock
      BY <1>1, <1>3 DEF CachesInv, DatesInv
    <3> QED BY <1>5, <3>1
  <2>3. ASSUME NEW l \in Loads PROVE load'[l].mtime <= clock' /\ load'[l].written <= clock'
    BY <1>4, <1>5 DEF CachesInv, DatesInv
  <2> QED BY <1>1, <1>5, <2>1, <2>2, <2>3 DEF CachesInv, DatesInv
<1>7. FramesInv'
  BY DEF CachesInv, FramesInv, Current
<1>8. StaleOnlyIfOvertaken'
  BY DEF CachesInv, StaleOnlyIfOvertaken, Fresh
<1>9. \A l \in Loads : LoadInv(l)'
  <2> SUFFICES ASSUME NEW l \in Loads, load'[l] = load[l] PROVE LoadInv(l)'
    OBVIOUS
  <2> QED BY DEF CachesInv, LoadInv, Raced
<1> QED BY <1>6, <1>7, <1>8, <1>9 DEF CachesInv

\* What a new record of load l owes to QuietStep.
LEMMA BecomeInv ==
  ASSUME TypeOK, NEW l \in Loads, NEW s \in Load,
         s.pc # "idle" => s.mapping \in Mappings, Become(l, s),
         UNCHANGED <<mapping, file>>,
         s.mtime <= clock' /\ s.written <= clock',
         s.pc # "idle" /\ "mapping" \notin s.missed => s.mapping = mapping,
         s.pc = "looked" /\ "repair" \notin s.missed => s.mtime = file.mtime,
         s.pc \in {"parsed", "written", "loaded"} /\ "repair" \notin s.missed
           => s.content = file.content
  PROVE  \A k \in Loads : load'[k] = load[k]
            \/ /\ load'[k].mtime <= clock' /\ load'[k].written <= clock'
               /\ LoadInv(k)'
<1>1. load'[l] = s /\ \A k \in Loads : k # l => load'[k] = load[k]
  BY BecomeType
<1>2. LoadInv(l)'
  BY <1>1 DEF LoadInv, Raced
<1> QED BY <1>1, <1>2

LEMMA LoadStepInv ==
  ASSUME TypeOK, CachesInv, NEW l \in Loads, LoadStep(l) \/ ReadMapping(l)
  PROVE  CachesInv'
<1> USE DEF Change
<1> DEFINE r == load[l]
<1>0. /\ r \in Load /\ (r.pc # "idle" => r.mapping \in Mappings)
      /\ r.mtime \in 0..clock /\ r.written \in 0..clock /\ clock \in Nat
      /\ file.mtime \in 0..clock
      /\ LoadInv(l) /\ 0 <= clock
  <2>1. r \in Load /\ clock \in Nat /\ file.mtime \in Nat
    BY LoadType DEF TypeOK
  <2>2. r.mtime \in Nat /\ r.written \in Nat
    BY <2>1 DEF Load
  <2> QED BY <2>1, <2>2 DEF CachesInv, DatesInv, TypeOK
<1>1. CASE ReadMapping(l)
  <2> DEFINE s == [Idle EXCEPT !.pc = "mapped", !.mapping = mapping]
  <2>1. Become(l, s) /\ s \in Load /\ (s.pc # "idle" => s.mapping \in Mappings)
        /\ s.mtime <= clock /\ s.written <= clock /\ s.mapping = mapping
        /\ s.pc \notin {"looked", "parsed", "written", "loaded"}
    BY <1>0, <1>1 DEF ReadMapping, Idle, Load, TypeOK
  <2> HIDE DEF s
  <2> QED BY <1>1, <2>1, BecomeInv, QuietStep DEF ReadMapping
<1>2. CASE LookUp(l)
  <2>1. CASE Cached(l) = {}
    <3> DEFINE s == [r EXCEPT !.pc = "looked", !.mtime = file.mtime]
    <3>1. r.pc = "mapped" /\ Become(l, s) /\ file.mtime \in Nat
      BY <1>2, <2>1 DEF LookUp, TypeOK
    <3>2. /\ s \in Load /\ s.pc = "looked" /\ s.mapping = r.mapping
          /\ s.mtime = file.mtime /\ s.written = r.written /\ s.missed = r.missed
      BY <1>0, <3>1 DEF Load
    <3> HIDE DEF s
    <3>3. /\ s.mtime <= clock /\ s.written <= clock /\ s.mapping \in Mappings
          /\ ("mapping" \notin s.missed => s.mapping = mapping)
      BY <1>0, <3>1, <3>2 DEF LoadInv
    <3> QED BY <1>2, <3>1, <3>2, <3>3, BecomeInv, QuietStep DEF LookUp
  <2>2. CASE Cached(l) # {}
    <3>1. PICK f \in Cached(l) :
            Become(l, [r EXCEPT !.pc = "loaded", !.content = f.content,
                                !.missed = @ \cup Misses(f.raced)])
      BY <1>2, <2>2 DEF LookUp
    <3>2. f \in Frame /\ (~f.raced => f.content = file.content)
      BY DEF Cached, TypeOK, Loads, CachesInv, FramesInv
    <3> DEFINE s == [r EXCEPT !.pc = "loaded", !.content = f.content,
                              !.missed = @ \cup Misses(f.raced)]
    <3>3. r.pc = "mapped" /\ Become(l, s) /\ f.content \in Nat /\ f.raced \in BOOLEAN
      BY <1>2, <3>1, <3>2 DEF LookUp, Frame
    <3>4. /\ s \in Load /\ s.pc = "loaded" /\ s.mapping = r.mapping
          /\ s.mtime = r.mtime /\ s.written = r.written /\ s.content = f.content
          /\ s.missed = r.missed \cup Misses(f.raced)
      BY <1>0, <3>3 DEF Load, Misses
    <3> HIDE DEF s
    <3>5. /\ s.mtime <= clock /\ s.written <= clock /\ s.mapping \in Mappings
          /\ ("mapping" \notin s.missed => s.mapping = mapping)
      BY <1>0, <3>3, <3>4 DEF LoadInv
    <3>6. "repair" \notin s.missed => s.content = file.content
      BY <3>2, <3>4 DEF Misses
    <3> QED BY <1>2, <3>3, <3>4, <3>5, <3>6, BecomeInv, QuietStep DEF LookUp
  <2> QED BY <2>1, <2>2
<1>3. CASE ReadSidecar(l)
  <2>1. PICK c \in sidecar[r.mapping] :
          /\ Current(c, r.mtime)
          /\ LET missed == r.missed \cup Misses(c.raced)
             IN  /\ Remember(l, c.content, "repair" \in missed)
                 /\ Become(l, [r EXCEPT !.pc = "loaded", !.mtime = 0,
                                        !.content = c.content, !.missed = missed])
    BY <1>3 DEF ReadSidecar
  <2> DEFINE missed == r.missed \cup Misses(c.raced)
             s == [r EXCEPT !.pc = "loaded", !.mtime = 0,
                            !.content = c.content, !.missed = missed]
  <2>2. r.mapping \in Mappings /\ c \in Sidecar
    BY <1>0, <1>3 DEF ReadSidecar, TypeOK
  <2>3. "repair" \notin missed => c.content = file.content
    <3> SUFFICES ASSUME "repair" \notin missed PROVE c.content = file.content
      OBVIOUS
    <3>1. ~c.raced /\ r.mtime = file.mtime
      BY <1>0, <1>3, <2>2 DEF ReadSidecar, Misses, LoadInv, Raced, Sidecar
    <3> QED BY <2>1, <2>2, <3>1 DEF CachesInv, FramesInv
  <2>4. /\ Become(l, s) /\ s \in Load /\ s.pc = "loaded" /\ s.mapping = r.mapping
        /\ s.mtime = 0 /\ s.written = r.written /\ s.content = c.content
        /\ s.missed = missed
    BY <1>0, <2>1, <2>2 DEF Load, Sidecar, Misses
  <2>5. \A p \in Processes : \A f \in frames'[p] :
           \/ f \in frames[p]
           \/ f.mtime \in 0..clock /\ (~f.raced => f.content = file.content)
    <3> DEFINE raced == "repair" \in missed
    <3>1. Remember(l, c.content, raced) /\ c.content \in Nat /\ raced \in BOOLEAN
      BY <2>1, <2>2 DEF Sidecar
    <3>2. ~raced => c.content = file.content
      BY <2>3
    <3> HIDE DEF missed, raced
    <3>3. \A p \in Processes : \A f \in frames'[p] :
             \/ f \in frames[p]
             \/ f.mtime = r.mtime /\ f.content = c.content /\ f.raced = raced
      BY <2>2, <3>1, RememberType
    <3> QED BY <1>0, <3>2, <3>3
  <2>6. "mapping" \notin missed => r.mapping = mapping
    BY <1>0, <1>3 DEF ReadSidecar, LoadInv
  <2> HIDE DEF missed, s
  <2>7. /\ s.mtime <= clock /\ s.written <= clock /\ s.mapping \in Mappings
        /\ ("mapping" \notin s.missed => s.mapping = mapping)
        /\ ("repair" \notin s.missed => s.content = file.content)
    BY <1>0, <2>2, <2>3, <2>4, <2>6
  <2> QED BY <1>3, <2>4, <2>5, <2>7, BecomeInv, QuietStep DEF ReadSidecar
<1>4. CASE Parse(l)
  <2> DEFINE s == [r EXCEPT !.pc = "parsed", !.content = file.content,
                            !.missed = @ \ {"repair"}]
  <2>1. r.pc = "looked" /\ Become(l, s) /\ file.content \in Nat
    BY <1>4 DEF Parse, TypeOK
  <2>2. /\ s \in Load /\ s.pc = "parsed" /\ s.mapping = r.mapping
        /\ s.mtime = r.mtime /\ s.written = r.written /\ s.content = file.content
        /\ s.missed = r.missed \ {"repair"}
    BY <1>0, <2>1 DEF Load
  <2> HIDE DEF s
  <2>3. /\ s.mtime <= clock /\ s.written <= clock /\ s.mapping \in Mappings
        /\ ("mapping" \notin s.missed => s.mapping = mapping)
    BY <1>0, <2>1, <2>2 DEF LoadInv
  <2> QED BY <1>4, <2>1, <2>2, <2>3, BecomeInv, QuietStep DEF Parse
<1>5. CASE WriteSidecar(l)
  <2> DEFINE s == [r EXCEPT !.pc = "written", !.written = clock + 1]
  <2>1. clock + 1 \in Nat /\ r.pc = "parsed" /\ clock' = clock + 1 /\ Become(l, s)
        /\ r.mtime <= clock + 1
    BY <1>0, <1>5 DEF WriteSidecar
  <2>2. s \in Load /\ (s.pc # "idle" => s.mapping \in Mappings)
        /\ s.mtime = r.mtime /\ s.written = clock + 1 /\ s.pc = "written"
        /\ ("mapping" \notin s.missed => s.mapping = mapping)
        /\ ("repair" \notin s.missed => s.content = file.content)
    BY <1>0, <2>1 DEF Load, LoadInv, Raced
  <2> HIDE DEF s
  <2>3. s.mtime <= clock' /\ s.written <= clock'
    BY <1>0, <2>1, <2>2
  <2> QED BY <1>5, <2>1, <2>2, <2>3, BecomeInv, QuietStep DEF WriteSidecar
<1>6. CASE InstallSidecar(l) \/ SkipSidecar(l)
  <2>1. r.pc \in {"parsed", "written"} /\ Remember(l, r.content, Raced(l))
        /\ UNCHANGED <<clock, mapping, file, result, repairer, mapper>>
    BY <1>6 DEF InstallSidecar, SkipSidecar
  <2>2. r.mapping \in Mappings /\ r.content \in Nat /\ Raced(l) \in BOOLEAN
        /\ (~Raced(l) => r.content = file.content)
    BY <1>0, <2>1 DEF Load, Raced, LoadInv
  <2>3. PICK s \in Load :
          /\ Become(l, s) /\ s.pc = "loaded" /\ s.mapping = r.mapping
          /\ s.mtime = 0 /\ s.written \in {0, r.written} /\ s.content = r.content
          /\ s.missed = r.missed
    <3>1. CASE InstallSidecar(l)
      <4> DEFINE s == [r EXCEPT !.pc = "loaded", !.mtime = 0, !.written = 0]
      <4>1. Become(l, s)
        BY <3>1 DEF InstallSidecar
      <4>2. /\ s \in Load /\ s.pc = "loaded" /\ s.mapping = r.mapping
            /\ s.mtime = 0 /\ s.written = 0 /\ s.content = r.content
            /\ s.missed = r.missed
        BY <1>0 DEF Load
      <4> HIDE DEF s
      <4> QED BY <4>1, <4>2
    <3>2. CASE SkipSidecar(l)
      <4> DEFINE s == [r EXCEPT !.pc = "loaded", !.mtime = 0]
      <4>1. Become(l, s)
        BY <3>2 DEF SkipSidecar
      <4>2. /\ s \in Load /\ s.pc = "loaded" /\ s.mapping = r.mapping
            /\ s.mtime = 0 /\ s.written = r.written /\ s.content = r.content
            /\ s.missed = r.missed
        BY <1>0 DEF Load
      <4> HIDE DEF s
      <4> QED BY <4>1, <4>2
    <3> QED BY <1>6, <3>1, <3>2
  <2>4. \A p \in Processes : \A f \in frames'[p] :
           \/ f \in frames[p]
           \/ f.mtime \in 0..clock /\ (~f.raced => f.content = file.content)
    BY <1>0, <2>1, <2>2, RememberType
  <2>5. \A m \in Mappings : \A c \in sidecar'[m] :
           \/ c \in sidecar[m]
           \/ c.mtime \in 0..clock /\ (~c.raced => c.content = file.content)
    BY <1>0, <1>6, <2>2 DEF InstallSidecar, SkipSidecar
  <2>6. /\ s.mtime <= clock /\ s.written <= clock /\ s.mapping \in Mappings
        /\ ("mapping" \notin s.missed => s.mapping = mapping)
        /\ ("repair" \notin s.missed => s.content = file.content)
    BY <1>0, <2>1, <2>2, <2>3 DEF LoadInv, Raced
  <2> QED BY <2>1, <2>3, <2>4, <2>5, <2>6, BecomeInv, QuietStep
<1>7. CASE Store(l)
  <2>1. Become(l, Idle) /\ Idle.mtime <= clock /\ Idle.written <= clock
    BY <1>0, <1>7 DEF Store, Idle
  <2>2. \A e \in result' : Fresh(e) \/ e.missed # {}
    BY <1>0, <1>7 DEF Store, Fresh, LoadInv, Raced
  <2> QED BY <1>7, <2>1, <2>2, IdleType, BecomeInv, QuietStep DEF Store
<1>8. CASE Leave(l)
  <2>1. Become(l, Idle) /\ Idle.mtime <= clock /\ Idle.written <= clock
    BY <1>0, <1>8 DEF Leave, Idle
  <2> QED BY <1>8, <2>1, IdleType, BecomeInv, QuietStep DEF Leave
<1> QED BY <1>1, <1>2, <1>3, <1>4, <1>5, <1>6, <1>7, <1>8 DEF LoadStep

\* A write of the file dates it after everything there is, and every load
\* that has looked at it is overtaken.
LEMMA WriteInv ==
  ASSUME TypeOK, CachesInv, Write, UNCHANGED <<mapping, sidecar, frames, result, mapper>>,
         repairer' # "idle"
  PROVE  CachesInv'
<1>1. /\ clock \in Nat /\ clock' = clock + 1 /\ file'.mtime = clock + 1
      /\ \A x \in Nat : x <= clock => x <= clock + 1 /\ ~(x >= clock + 1) /\ x # clock + 1
  BY DEF Write, TypeOK
<1>2. /\ \A m \in Mappings : \A s \in sidecar[m] : s.mtime \in Nat
      /\ \A p \in Processes : \A f \in frames[p] : f.mtime \in Nat
      /\ \A l \in Loads : load[l].mtime \in Nat /\ load[l].written \in Nat
  BY LoadType DEF TypeOK, Sidecar, Frame, Load
<1>3. \A l \in Loads :
        /\ load'[l].pc = load[l].pc /\ load'[l].mapping = load[l].mapping
        /\ load'[l].mtime = load[l].mtime /\ load'[l].written = load[l].written
        /\ ("mapping" \in load[l].missed => "mapping" \in load'[l].missed)
        /\ (load[l].pc \in {"looked", "parsed", "written", "loaded"}
              => "repair" \in load'[l].missed)
  BY OvertakeType DEF Write, Change
<1>4. DatesInv'
  BY <1>1, <1>2, <1>3 DEF CachesInv, DatesInv
<1>5. FramesInv'
  BY <1>1, <1>2 DEF CachesInv, DatesInv, FramesInv, Current
<1>6. StaleOnlyIfOvertaken'
  BY DEF StaleOnlyIfOvertaken
<1>7. \A l \in Loads : LoadInv(l)'
  BY <1>3 DEF CachesInv, LoadInv, Raced
<1> QED BY <1>4, <1>5, <1>6, <1>7 DEF CachesInv

LEMMA RemapInv ==
  ASSUME TypeOK, CachesInv, NEW m \in Mappings, Remap(m)
  PROVE  CachesInv'
<1>1. \A l \in Loads :
        /\ load'[l].pc = load[l].pc /\ load'[l].content = load[l].content
        /\ load'[l].mtime = load[l].mtime /\ load'[l].written = load[l].written
        /\ ("repair" \in load[l].missed => "repair" \in load'[l].missed)
        /\ (load[l].pc # "idle" => "mapping" \in load'[l].missed)
  BY LoadType, OvertakeType DEF Remap, Change, Load
<1>2. DatesInv' /\ FramesInv'
  BY <1>1 DEF Remap, CachesInv, DatesInv, FramesInv, Current
<1>3. StaleOnlyIfOvertaken'
  BY DEF Remap, StaleOnlyIfOvertaken
<1>4. \A l \in Loads : LoadInv(l)'
  BY <1>1 DEF Remap, CachesInv, LoadInv, Raced
<1> QED BY <1>2, <1>3, <1>4 DEF CachesInv

\* Without a clear, what is left is marked.
LEMMA ClearInv ==
  ASSUME TypeOK, CachesInv, Clear \/ LoseClear,
         UNCHANGED <<clock, mapping, file, sidecar, frames, load>>
  PROVE  CachesInv'
<1>1. ASSUME NEW e \in result' PROVE e.missed # {}
  <2>1. PICK x \in result : e = [x EXCEPT !.missed = x.missed \cup {"clear"}]
    BY DEF Clear, LoseClear
  <2>2. x \in Result
    BY DEF TypeOK
  <2>3. e.missed = x.missed \cup {"clear"}
    BY <2>1, <2>2 DEF Result
  <2> QED BY <2>3
<1>2. DatesInv' /\ FramesInv' /\ \A l \in Loads : LoadInv(l)'
  BY DEF CachesInv, DatesInv, FramesInv, LoadInv, Raced, Current
<1> QED BY <1>1, <1>2 DEF CachesInv, StaleOnlyIfOvertaken

LEMMA CachesInvStep == TypeOK /\ CachesInv /\ [Next]_vars => CachesInv'
<1> SUFFICES ASSUME TypeOK, CachesInv, [Next]_vars PROVE CachesInv'
  OBVIOUS
<1>1. ASSUME NEW l \in Loads, ReadMapping(l) \/ LoadStep(l) PROVE CachesInv'
  BY <1>1, LoadStepInv
<1>2. CASE Expire
  BY <1>2 DEF Expire, CachesInv, DatesInv, FramesInv, LoadInv, Raced, Current,
              StaleOnlyIfOvertaken
<1>3. CASE BeginRewrite \/ EndRewrite
  BY <1>3, WriteInv DEF BeginRewrite, EndRewrite
<1>4. CASE ClearRepaired \/ FailRewrite \/ ClearRemapped
  BY <1>4, ClearInv DEF ClearRepaired, FailRewrite, ClearRemapped
<1>5. ASSUME NEW m \in Mappings, Remap(m) PROVE CachesInv'
  BY <1>5, RemapInv
<1>6. CASE UNCHANGED vars
  BY <1>6 DEF vars, CachesInv, DatesInv, FramesInv, LoadInv, Raced, Current,
              StaleOnlyIfOvertaken, Fresh
<1> QED BY <1>1, <1>2, <1>3, <1>4, <1>5, <1>6 DEF Next, Rewriting, Remapping

\* A result that is not of the present row and file, and not about to be
\* cleared, was overtaken by a change that ended, or its clear was lost: of
\* any number of processes, threads, mappings and repairs
\* (result_cache.py, mining_engine.py load_event_log, event_logs.py).
THEOREM OnlyOvertakenIsStale == Spec => []StaleOnlyIfOvertaken
<1>1. Init => CachesInv
  BY DEF Init, CachesInv, DatesInv, FramesInv, LoadInv, Idle, StaleOnlyIfOvertaken
<1>2. CachesInv => StaleOnlyIfOvertaken
  BY DEF CachesInv
<1> QED BY <1>1, <1>2, CachesInvStep, TypeCorrect, PTL DEF Spec

=============================================================================
