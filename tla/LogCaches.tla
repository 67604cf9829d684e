------------------------------ MODULE LogCaches ------------------------------
(***************************************************************************)
(* The caches between one event log and the mining results computed from    *)
(* it.  A request that finds no result in Redis loads the row for the       *)
(* column mapping, then the frame: from its process's LRU, keyed by the      *)
(* mtime of the source file and the mapping, or from a parquet sidecar next  *)
(* to the file, or by parsing the file, which leaves a new sidecar.          *)
(* Meanwhile a user sets another mapping or has the timestamps repaired in   *)
(* place; both clear the results in Redis afterwards.                        *)
(*                                                                         *)
(* The content of the file is the number of writes so far (an odd one is a   *)
(* file half written), and that of a frame or a result is the content of the *)
(* file it was computed from.                                               *)
(***************************************************************************)
EXTENDS Naturals, FiniteSets

CONSTANTS
  Mappings,   \* column mappings a user may set
  NoMapping,  \* none read yet
  Processes,  \* API replicas and Celery workers: one LRU each
  Threads,    \* loads at one time in a process
  FrameMax,   \* _DF_CACHE_MAX: frames in an LRU
  MaxTime,    \* bound of the sidecars written, in the clock
  MaxRepairs, \* bound of the timestamp repairs
  MaxRemaps,  \* bound of the new mappings
  MaxFaults   \* bound of the failed clears and of the handlers that die

ASSUME CachesAssumption ==
  /\ NoMapping \notin Mappings
  /\ FrameMax \in Nat \ {0}
  /\ MaxTime \in Nat /\ MaxRepairs \in Nat /\ MaxRemaps \in Nat /\ MaxFaults \in Nat

VARIABLES
  clock,     \* time of the last write to the upload volume
  mapping,   \* of the event_logs row
  file,      \* the source file
  sidecar,   \* per mapping: no sidecar, or one
  frames,    \* per process: the frames of its LRU
  result,    \* no result in Redis, or one
  load,      \* per process and thread: where it is and what it has read
  repairer,  \* the handler of repair-timestamps
  mapper,    \* the handler of column-mapping
  remaps,    \* mappings set so far
  faults     \* faults so far

vars == <<clock, mapping, file, sidecar, frames, result, load,
          repairer, mapper, remaps, faults>>

Loads == Processes \X Threads

\* Changes of the log that a load or a result has not seen.  A clear that
\* did not happen counts as one.
Change == {"repair", "mapping", "clear"}

Sidecar == [mtime : Nat, content : Nat, raced : BOOLEAN]

Frame == [mtime : Nat, mapping : Mappings, content : Nat, raced : BOOLEAN]

Result == [mapping : Mappings, content : Nat, missed : SUBSET Change]

Load == [pc : {"idle", "mapped", "looked", "parsed", "written", "loaded"},
         mapping : Mappings \cup {NoMapping}, mtime : Nat, content : Nat,
         written : Nat, missed : SUBSET Change]

Idle == [pc |-> "idle", mapping |-> NoMapping, mtime |-> 0,
         content |-> 0, written |-> 0, missed |-> {}]

TypeOK ==
  /\ clock \in Nat
  /\ mapping \in Mappings
  /\ file \in [mtime : Nat, content : Nat]
  /\ sidecar \in [Mappings -> SUBSET Sidecar]
  /\ frames \in [Processes -> SUBSET Frame]
  /\ \A p \in Processes : IsFiniteSet(frames[p]) /\ Cardinality(frames[p]) <= FrameMax
  /\ result \in SUBSET Result
  /\ load \in [Loads -> Load]
  /\ \A l \in Loads : load[l].pc # "idle" => load[l].mapping \in Mappings
  /\ repairer \in {"idle", "writing", "rewritten"}
  /\ mapper \in {"idle", "committed"}
  /\ remaps \in Nat /\ faults \in Nat

Init ==
  /\ clock = 1
  /\ mapping \in Mappings
  /\ file = [mtime |-> 1, content |-> 0]
  /\ sidecar = [m \in Mappings |-> {}]
  /\ frames = [p \in Processes |-> {}]
  /\ result = {}
  /\ load = [l \in Loads |-> Idle]
  /\ repairer = "idle"
  /\ mapper = "idle"
  /\ remaps = 0
  /\ faults = 0

Become(l, state) == load' = [load EXCEPT ![l] = state]

Fault == faults < MaxFaults /\ faults' = faults + 1

----------------------------------------------------------------------------
(* A load: a mining endpoint that found no result or does not look for one   *)
(* (_load_event_log_and_df), or a task of a worker (load_event_log)          *)

ReadMapping(l) ==
  /\ load[l].pc = "idle"
  /\ Become(l, [Idle EXCEPT !.pc = "mapped", !.mapping = mapping])
  /\ UNCHANGED <<clock, mapping, file, sidecar, frames, result,
                 repairer, mapper, remaps, faults>>

Cached(l) == {f \in frames[l[1]] : f.mapping = load[l].mapping /\ f.mtime = file.mtime}

Raced(l) == "repair" \in load[l].missed

Misses(raced) == IF raced THEN {"repair"} ELSE {}

\* getmtime and layer 1.
LookUp(l) ==
  /\ load[l].pc = "mapped"
  /\ IF Cached(l) = {}
     THEN Become(l, [load[l] EXCEPT !.pc = "looked", !.mtime = file.mtime])
     ELSE \E f \in Cached(l) :
            Become(l, [load[l] EXCEPT !.pc = "loaded", !.content = f.content,
                                      !.missed = @ \cup Misses(f.raced)])
  /\ UNCHANGED <<clock, mapping, file, sidecar, frames, result,
                 repairer, mapper, remaps, faults>>

\* Mutant: the LRU only grows.
RememberAll(l, content, raced) ==
  frames' = [frames EXCEPT ![l[1]] = @ \cup
               {[mtime |-> load[l].mtime, mapping |-> load[l].mapping,
                 content |-> content, raced |-> raced]}]

\* The new frame takes the place of one with its key, or of the oldest ones:
\* the order of the LRU is left open.
Remember(l, content, raced) ==
  LET new == [mtime |-> load[l].mtime, mapping |-> load[l].mapping,
              content |-> content, raced |-> raced]
      others == {f \in frames[l[1]] : f.mtime # new.mtime \/ f.mapping # new.mapping}
  IN  \E kept \in SUBSET others :
        /\ Cardinality(kept) < FrameMax
        /\ kept = others \/ Cardinality(kept) = FrameMax - 1
        /\ frames' = [frames EXCEPT ![l[1]] = kept \cup {new}]

\* Mutant: any sidecar will do.
CurrentAlways(s, mtime) == s.mtime >= 0

Current(s, mtime) == s.mtime >= mtime

\* Layer 2, for a sidecar at least as new as the source was.
ReadSidecar(l) ==
  /\ load[l].pc = "looked"
  /\ \E s \in sidecar[load[l].mapping] :
       /\ Current(s, load[l].mtime)
       /\ LET missed == load[l].missed \cup Misses(s.raced)
          IN  /\ Remember(l, s.content, "repair" \in missed)
              /\ Become(l, [load[l] EXCEPT !.pc = "loaded", !.mtime = 0,
                                           !.content = s.content, !.missed = missed])
  /\ UNCHANGED <<clock, mapping, file, sidecar, result, repairer, mapper, remaps, faults>>

\* Without one, the source as it is now, whatever its mtime was.
Parse(l) ==
  /\ load[l].pc = "looked"
  /\ \A s \in sidecar[load[l].mapping] : ~Current(s, load[l].mtime)
  /\ Become(l, [load[l] EXCEPT !.pc = "parsed", !.content = file.content,
                               !.missed = @ \ {"repair"}])
  /\ UNCHANGED <<clock, mapping, file, sidecar, frames, result,
                 repairer, mapper, remaps, faults>>

\* The parquet file under its temporary name ...
WriteSidecar(l) ==
  /\ load[l].pc = "parsed"
  /\ clock < MaxTime
  /\ clock' = clock + 1
  /\ Become(l, [load[l] EXCEPT !.pc = "written", !.written = clock + 1])
  /\ UNCHANGED <<mapping, file, sidecar, frames, result, repairer, mapper, remaps, faults>>

\* ... renamed, and the sidecars of other mappings removed.
InstallSidecar(l) ==
  /\ load[l].pc = "written"
  /\ sidecar' = [m \in Mappings |->
                   IF m = load[l].mapping
                   THEN {[mtime |-> load[l].written, content |-> load[l].content,
                          raced |-> Raced(l)]}
                   ELSE {}]
  /\ Remember(l, load[l].content, Raced(l))
  /\ Become(l, [load[l] EXCEPT !.pc = "loaded", !.mtime = 0, !.written = 0])
  /\ UNCHANGED <<clock, mapping, file, result, repairer, mapper, remaps, faults>>

\* A sidecar that cannot be written is logged and done without.
SkipSidecar(l) ==
  /\ load[l].pc = "parsed"
  /\ Remember(l, load[l].content, Raced(l))
  /\ Become(l, [load[l] EXCEPT !.pc = "loaded", !.mtime = 0])
  /\ UNCHANGED <<clock, mapping, file, sidecar, result, repairer, mapper, remaps, faults>>

\* The analysis is done and goes to Redis.
Store(l) ==
  /\ load[l].pc = "loaded"
  /\ result' = {[mapping |-> load[l].mapping, content |-> load[l].content,
                 missed |-> load[l].missed]}
  /\ Become(l, Idle)
  /\ UNCHANGED <<clock, mapping, file, sidecar, frames, repairer, mapper, remaps, faults>>

\* An exception, a task that stores no result, Redis does not answer, or the
\* thread is gone.
Leave(l) ==
  /\ load[l].pc # "idle"
  /\ Become(l, Idle)
  /\ UNCHANGED <<clock, mapping, file, sidecar, frames, result,
                 repairer, mapper, remaps, faults>>

\* Mutant: SET without EX.
ExpireNever == FALSE /\ UNCHANGED vars

\* The TTL of the result.
Expire ==
  /\ result # {}
  /\ result' = {}
  /\ UNCHANGED <<clock, mapping, file, sidecar, frames, load,
                 repairer, mapper, remaps, faults>>

----------------------------------------------------------------------------
(* The writers                                                              *)

\* Everyone who has read what is being changed now misses the change.
Overtake(pcs, change) ==
  load' = [l \in Loads |->
             IF load[l].pc \in pcs
             THEN [load[l] EXCEPT !.missed = @ \cup {change}]
             ELSE load[l]]

Write ==
  /\ clock' = clock + 1
  /\ file' = [mtime |-> clock + 1, content |-> file.content + 1]
  /\ Overtake({"looked", "parsed", "written", "loaded"}, "repair")

\* apply_timestamp_repair rewrites the file in place (when there is nothing to
\* repair it only clears, which Expire covers), ...
BeginRewrite ==
  /\ repairer = "idle"
  /\ file.content < 2 * MaxRepairs
  /\ Write
  /\ repairer' = "writing"
  /\ UNCHANGED <<mapping, sidecar, frames, result, mapper, remaps, faults>>

EndRewrite ==
  /\ repairer = "writing"
  /\ Write
  /\ repairer' = "rewritten"
  /\ UNCHANGED <<mapping, sidecar, frames, result, mapper, remaps, faults>>

\* cache_clear_event_log
Clear == result' = {} /\ UNCHANGED faults

\* The clear fails, which is logged only, or its handler dies before it.
LoseClear ==
  /\ Fault
  /\ result' = {[e EXCEPT !.missed = @ \cup {"clear"}] : e \in result}

\* Mutant: the results are not cleared.
ClearRepairedNothing ==
  /\ repairer = "rewritten"
  /\ UNCHANGED result
  /\ repairer' = "idle"
  /\ UNCHANGED <<clock, mapping, file, sidecar, frames, load, mapper, remaps, faults>>

\* ... then clears the results.
ClearRepaired ==
  /\ repairer = "rewritten"
  /\ Clear \/ LoseClear
  /\ repairer' = "idle"
  /\ UNCHANGED <<clock, mapping, file, sidecar, frames, load, mapper, remaps>>

\* The rewrite fails half way: the handler answers 500 and clears nothing.
FailRewrite ==
  /\ repairer = "writing"
  /\ LoseClear
  /\ repairer' = "idle"
  /\ UNCHANGED <<clock, mapping, file, sidecar, frames, load, mapper, remaps>>

\* set_column_mapping commits the row, ...
Remap(m) ==
  /\ mapper = "idle"
  /\ remaps < MaxRemaps
  /\ mapping' = m
  /\ remaps' = remaps + 1
  /\ Overtake({"mapped", "looked", "parsed", "written", "loaded"}, "mapping")
  /\ mapper' = "committed"
  /\ UNCHANGED <<clock, file, sidecar, frames, result, repairer, faults>>

\* ... then clears the results.
ClearRemapped ==
  /\ mapper = "committed"
  /\ Clear \/ LoseClear
  /\ mapper' = "idle"
  /\ UNCHANGED <<clock, mapping, file, sidecar, frames, load, repairer, remaps>>

----------------------------------------------------------------------------

LoadStep(l) ==
  \/ LookUp(l) \/ ReadSidecar(l) \/ Parse(l)
  \/ WriteSidecar(l) \/ InstallSidecar(l) \/ SkipSidecar(l)
  \/ Store(l) \/ Leave(l)

Rewriting == BeginRewrite \/ EndRewrite \/ ClearRepaired \/ FailRewrite

Remapping == ClearRemapped \/ \E m \in Mappings : Remap(m)

Next ==
  \/ \E l \in Loads : ReadMapping(l) \/ LoadStep(l)
  \/ Expire
  \/ Rewriting
  \/ Remapping

Spec == Init /\ [][Next]_vars

\* Loads and handlers go on, and the TTL passes.
Fairness ==
  /\ \A l \in Loads : WF_vars(LoadStep(l))
  /\ WF_vars(EndRewrite \/ FailRewrite \/ ClearRepaired)
  /\ WF_vars(ClearRemapped)
  /\ WF_vars(Expire)

FairSpec == Spec /\ Fairness

----------------------------------------------------------------------------
(* What must hold                                                           *)

Fresh(e) == e.mapping = mapping /\ e.content = file.content

\* A result in Redis is that of the row and the file as they are, or is about
\* to be cleared, or its computation had read them before a change that ended
\* first, or the clear was lost (result_cache.py, _mining_deps.py).
StaleOnlyIfOvertaken ==
  \A e \in result :
    Fresh(e) \/ e.missed # {} \/ repairer # "idle" \/ mapper # "idle"

\* A frame an overtaken load has left in the LRU or the sidecar under the
\* present mtime of the file (mining_engine.py load_event_log).
Poisoned ==
  \/ \E p \in Processes : \E f \in frames[p] : f.raced /\ f.mtime = file.mtime
  \/ \E m \in Mappings : \E s \in sidecar[m] : s.raced /\ Current(s, file.mtime)

\* result_cache.py:8-9: "a TTL so stale data ages out automatically".  When the
\* changes end, the results become those of the present mapping and file,
\* unless a frame is poisoned, and stay so.
StaleAgesOut == <>[](\A e \in result : Fresh(e) \/ Poisoned)

\* event_logs.py:483-485: the repair "clears the mining result cache so next
\* discovery uses the repaired data": in the end, every result does.
RepairedDataUsed == <>[](\A e \in result : e.content = file.content)

----------------------------------------------------------------------------
(* The inductive invariant behind StaleOnlyIfOvertaken                      *)

\* Nothing is dated in the future.
DatesInv ==
  /\ file.mtime <= clock
  /\ \A m \in Mappings : \A s \in sidecar[m] : s.mtime <= clock
  /\ \A p \in Processes : \A f \in frames[p] : f.mtime <= clock
  /\ \A l \in Loads : load[l].mtime <= clock /\ load[l].written <= clock

\* Under the present mtime there is the present content.
FramesInv ==
  /\ \A m \in Mappings : \A s \in sidecar[m] :
        ~s.raced /\ Current(s, file.mtime) => s.content = file.content
  /\ \A p \in Processes : \A f \in frames[p] :
        ~f.raced /\ f.mtime = file.mtime => f.content = file.content

\* What a load has read is so, unless it has been overtaken.
LoadInv(l) ==
  /\ load[l].pc # "idle" /\ "mapping" \notin load[l].missed => load[l].mapping = mapping
  /\ load[l].pc = "looked" /\ ~Raced(l) => load[l].mtime = file.mtime
  /\ load[l].pc \in {"parsed", "written", "loaded"} /\ ~Raced(l)
        => load[l].content = file.content

CachesInv == DatesInv /\ FramesInv /\ StaleOnlyIfOvertaken /\ \A l \in Loads : LoadInv(l)

=============================================================================
