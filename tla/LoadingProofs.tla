---------------------------- MODULE LoadingProofs ----------------------------
(***************************************************************************)
(* Proofs about Loading: the static variables of the library are set up    *)
(* for one Lua state at a time and taken down in time (StaticsSound), and  *)
(* the two trees of the enums agree (EnumsRoundTrip).                      *)
(***************************************************************************)
EXTENDS Loading, TLAPS

\* The state that loads the module, or has loaded it, is the one whose allocator is in use;
\* the library is mapped for the states that have tried to load it.
OwnerInv ==
  /\ \A s \in States : lua[s] \in {"loading", "loaded"} => alloc = s
  /\ \A s \in States : s \in mapped <=> lua[s] \in {"loading", "failed", "loaded"}
  /\ alloc = NoState <=> atExit = 0
  /\ mapped = {} => alloc = NoState

\* What has been set up by now: nothing, if there is no allocator; while the module is
\* loaded, the steps before this one; all of it, once it is loaded.
ProgressInv ==
  /\ alloc = NoState => byCode = {} /\ ~handle
  /\ \A s \in States : lua[s] = "loading" =>
       /\ step > 0 => handle
       /\ \A i \in DOMAIN Records : i < step => Records[i] \in byCode
  /\ \A s \in States : lua[s] = "loaded" =>
       handle /\ \A i \in DOMAIN Records : Records[i] \in byCode

\* The inductive invariant.
LoadingInv == LoadingTypeOK /\ OwnerInv /\ ProgressInv /\ EnumsRoundTrip

USE LoadingAssumption

-----------------------------------------------------------------------------
\* require('mooncl') takes the allocator, or finds it taken and fails.
LEMMA OpenInv == ASSUME LoadingInv, NEW s \in States, Open(s) PROVE LoadingInv'
<1>1. /\ ~Busy /\ lua[s] \in {"new", "failed"} /\ mapped' = mapped \cup {s}
      /\ UNCHANGED <<handle, byCode, byStr, lost>>
  BY DEF Open
<1>2. lua \in [States -> {"new", "loading", "failed", "loaded", "closed"}] /\ mapped \subseteq States
  BY DEF LoadingInv, LoadingTypeOK
<1>3. CASE alloc = NoState
  <2>1. /\ lua' = [lua EXCEPT ![s] = "loading"] /\ alloc' = s /\ atExit' = atExit + 1 /\ step' = 0
    BY <1>3 DEF Open
  <2>2. \A t \in States : lua'[t] = IF t = s THEN "loading" ELSE lua[t] BY <1>2, <2>1
  <2>3. LoadingTypeOK' BY <1>1, <1>2, <2>1 DEF LoadingInv, LoadingTypeOK
  <2>4. \A t \in States : lua[t] \notin {"loading", "loaded"}
    BY <1>3 DEF LoadingInv, OwnerInv
  <2>5. OwnerInv'
    <3>1. atExit' # 0 BY <2>1 DEF LoadingInv, LoadingTypeOK
    <3> QED BY <1>1, <2>1, <2>2, <2>4, <3>1 DEF LoadingInv, OwnerInv
  <2>6. ProgressInv' BY <1>1, <2>1, <2>2, <2>4 DEF LoadingInv, ProgressInv
  <2> QED BY <1>1, <2>3, <2>5, <2>6 DEF LoadingInv, EnumsRoundTrip
<1>4. CASE alloc # NoState
  <2>1. lua' = [lua EXCEPT ![s] = "failed"] /\ UNCHANGED <<alloc, atExit, step>>
    BY <1>4 DEF Open
  <2>2. \A t \in States : lua'[t] = IF t = s THEN "failed" ELSE lua[t] BY <1>2, <2>1
  <2>3. LoadingTypeOK' BY <1>1, <1>2, <2>1 DEF LoadingInv, LoadingTypeOK
  <2>4. OwnerInv' BY <1>1, <1>4, <2>1, <2>2 DEF LoadingInv, OwnerInv
  <2>5. ProgressInv' BY <1>1, <2>1, <2>2 DEF LoadingInv, ProgressInv
  <2> QED BY <1>1, <2>3, <2>4, <2>5 DEF LoadingInv, EnumsRoundTrip
<1> QED BY <1>3, <1>4

\* A step of luaopen_mooncl that ends in "failed" leaves whatever is set up for AtExit.
LEMMA FailedInv ==
  ASSUME LoadingInv, NEW s \in States, lua[s] = "loading", lua' = [lua EXCEPT ![s] = "failed"],
         UNCHANGED <<mapped, alloc, byCode, byStr, atExit>>, handle' \in BOOLEAN, lost' \in Nat,
         step' \in {0, step}
  PROVE  LoadingInv'
<1>1. lua \in [States -> {"new", "loading", "failed", "loaded", "closed"}]
  BY DEF LoadingInv, LoadingTypeOK
<1>2. \A t \in States : lua'[t] = IF t = s THEN "failed" ELSE lua[t] BY <1>1
<1>3. LoadingTypeOK' BY <1>1 DEF LoadingInv, LoadingTypeOK
<1>4. alloc = s /\ \A t \in States : t # s => lua[t] \notin {"loading", "loaded"}
  BY DEF LoadingInv, OwnerInv
<1>5. OwnerInv' BY <1>2, <1>4 DEF LoadingInv, OwnerInv
<1>6. ProgressInv' BY <1>2, <1>4 DEF LoadingInv, ProgressInv
<1> QED BY <1>3, <1>5, <1>6 DEF LoadingInv, EnumsRoundTrip

\* The other steps of luaopen_mooncl that leave the state in "loading".
LEMMA LoadingKept ==
  ASSUME LoadingInv, NEW s \in States, lua[s] = "loading",
         UNCHANGED <<lua, mapped, alloc, atExit>>
  PROVE  /\ OwnerInv' /\ alloc' # NoState
         /\ \A t \in States : lua'[t] \in {"loading", "loaded"} => t = s /\ lua'[t] = "loading"
<1>1. alloc = s BY DEF LoadingInv, OwnerInv
<1>2. OwnerInv' BY DEF LoadingInv, OwnerInv
<1> QED BY <1>1, <1>2 DEF LoadingInv, OwnerInv

LEMMA OpenGetprocInv == ASSUME LoadingInv, NEW s \in States, OpenGetproc(s) PROVE LoadingInv'
<1>1. lua[s] = "loading" /\ step = 0 /\ UNCHANGED <<mapped, alloc, byCode, byStr, lost, atExit>>
  BY DEF OpenGetproc
<1>2. CASE handle' = TRUE /\ step' = 1 /\ UNCHANGED lua
  <2>1. /\ OwnerInv' /\ alloc' # NoState
        /\ \A t \in States : lua'[t] \in {"loading", "loaded"} => t = s /\ lua'[t] = "loading"
    BY <1>1, <1>2, LoadingKept
  <2>2. LoadingTypeOK' BY <1>1, <1>2 DEF LoadingInv, LoadingTypeOK
  <2>3. ProgressInv' BY <1>1, <1>2, <2>1 DEF LoadingInv, ProgressInv
  <2> QED BY <1>1, <2>1, <2>2, <2>3 DEF LoadingInv, EnumsRoundTrip
<1>3. CASE handle' \in BOOLEAN /\ lua' = [lua EXCEPT ![s] = "failed"] /\ UNCHANGED step
  BY <1>1, <1>3, FailedInv DEF LoadingInv, LoadingTypeOK
<1> QED BY <1>2, <1>3 DEF OpenGetproc

\* enums_new inserts a record that neither tree knows into both.
LEMMA EnumsNewInv == ASSUME LoadingInv, NEW s \in States, EnumsNew(s) PROVE LoadingInv'
<1>1. PICK r : r = Records[step] OBVIOUS
<1>2. /\ lua[s] = "loading" /\ step \in 1 .. Len(Records)
      /\ UNCHANGED <<mapped, alloc, handle, atExit>>
  BY DEF EnumsNew
<1>3. CASE /\ \A q \in byCode : ~SameCode(r, q)
           /\ \A q \in byStr : ~SameString(r, q)
           /\ byCode' = byCode \cup {r} /\ byStr' = byStr \cup {r}
           /\ step' = step + 1
           /\ UNCHANGED <<lua, lost>>
  <2>1. /\ OwnerInv' /\ alloc' # NoState
        /\ \A t \in States : lua'[t] \in {"loading", "loaded"} => t = s /\ lua'[t] = "loading"
    BY <1>2, <1>3, LoadingKept
  <2>2. LoadingTypeOK' BY <1>1, <1>2, <1>3 DEF LoadingInv, LoadingTypeOK
  <2>3. ProgressInv'
    <3>1. handle /\ \A i \in DOMAIN Records : i < step => Records[i] \in byCode
      BY <1>2 DEF LoadingInv, ProgressInv
    <3>2. \A i \in DOMAIN Records : i < step' => Records[i] \in byCode' BY <1>1, <1>2, <1>3, <3>1
    <3> QED BY <1>2, <2>1, <3>1, <3>2 DEF ProgressInv
  <2>4. EnumsRoundTrip'
    <3>1. byCode = byStr /\ \A p, q \in byCode : SameCode(p, q) \/ SameString(p, q) => p = q
      BY DEF LoadingInv, EnumsRoundTrip
    <3>2. \A p, q : /\ SameCode(p, q) <=> SameCode(q, p)
                    /\ SameString(p, q) <=> SameString(q, p)
      BY DEF SameCode, SameString
    <3>3. \A p, q \in byCode' : SameCode(p, q) \/ SameString(p, q) => p = q
      BY <1>3, <3>1, <3>2
    <3> QED BY <1>3, <3>1, <3>3 DEF EnumsRoundTrip
  <2> QED BY <2>1, <2>2, <2>3, <2>4 DEF LoadingInv
<1>4. CASE /\ lua' = [lua EXCEPT ![s] = "failed"] /\ lost' \in {lost, lost + 1}
           /\ UNCHANGED <<byCode, byStr, step>>
  <2>1. handle' \in BOOLEAN /\ lost' \in Nat /\ step' \in {0, step}
    BY <1>2, <1>4 DEF LoadingInv, LoadingTypeOK
  <2> QED BY <1>2, <1>4, <2>1, FailedInv
<1>5. \/ /\ \A q \in byCode : ~SameCode(r, q)
         /\ \A q \in byStr : ~SameString(r, q)
         /\ byCode' = byCode \cup {r} /\ byStr' = byStr \cup {r}
         /\ step' = step + 1
         /\ UNCHANGED <<lua, lost>>
      \/ /\ lua' = [lua EXCEPT ![s] = "failed"] /\ lost' \in {lost, lost + 1}
         /\ UNCHANGED <<byCode, byStr, step>>
  BY <1>1, Zenon DEF EnumsNew
<1> QED BY <1>3, <1>4, <1>5

\* The module is loaded when all the records are registered.
LEMMA OpenUtilsInv == ASSUME LoadingInv, NEW s \in States, OpenUtils(s) PROVE LoadingInv'
<1>1. /\ lua[s] = "loading" /\ step = Len(Records) + 1 /\ step' = 0
      /\ UNCHANGED <<mapped, alloc, handle, byCode, byStr, lost, atExit>>
  BY DEF OpenUtils
<1>2. PICK result \in {"loaded", "failed"} : lua' = [lua EXCEPT ![s] = result] BY DEF OpenUtils
<1>3. CASE result = "failed" BY <1>1, <1>2, <1>3, FailedInv DEF LoadingInv, LoadingTypeOK
<1>4. CASE result = "loaded"
  <2>1. lua \in [States -> {"new", "loading", "failed", "loaded", "closed"}]
    BY DEF LoadingInv, LoadingTypeOK
  <2>2. \A t \in States : lua'[t] = IF t = s THEN "loaded" ELSE lua[t] BY <1>2, <1>4, <2>1
  <2>3. alloc = s /\ \A t \in States : t # s => lua[t] \notin {"loading", "loaded"}
    BY <1>1 DEF LoadingInv, OwnerInv
  <2>4. LoadingTypeOK' BY <1>1, <1>2, <2>1 DEF LoadingInv, LoadingTypeOK
  <2>5. OwnerInv' BY <1>1, <2>2, <2>3 DEF LoadingInv, OwnerInv
  <2>6. handle /\ \A i \in DOMAIN Records : Records[i] \in byCode
    BY <1>1 DEF LoadingInv, ProgressInv
  <2>7. ProgressInv' BY <1>1, <2>2, <2>3, <2>6 DEF ProgressInv
  <2> QED BY <1>1, <2>4, <2>5, <2>7 DEF LoadingInv, EnumsRoundTrip
<1> QED BY <1>2, <1>3, <1>4

\* lua_close: with the last state that keeps the library mapped, AtExit takes all down.
LEMMA CloseStateInv == ASSUME LoadingInv, NEW s \in States, CloseState(s) PROVE LoadingInv'
<1>1. /\ ~Busy /\ lua[s] \in {"new", "failed", "loaded"} /\ lua' = [lua EXCEPT ![s] = "closed"]
      /\ mapped' = mapped \ {s} /\ UNCHANGED <<lost, step>>
  BY DEF CloseState
<1>2. lua \in [States -> {"new", "loading", "failed", "loaded", "closed"}] /\ mapped \subseteq States
  BY DEF LoadingInv, LoadingTypeOK
<1>3. \A t \in States : lua'[t] = IF t = s THEN "closed" ELSE lua[t] BY <1>1, <1>2
<1>4. \A t \in States : t \in mapped <=> lua[t] \in {"loading", "failed", "loaded"}
  BY DEF LoadingInv, OwnerInv
<1>5. CASE mapped = {s}
  <2>1. AtExit /\ atExit' = 0 /\ alloc' = NoState BY <1>5 DEF CloseState
  <2>2. byCode = byStr BY DEF LoadingInv, EnumsRoundTrip
  <2>3. byCode' = {} /\ byStr' = {} /\ ~handle' /\ handle' \in BOOLEAN
    <3>1. CASE atExit = 0
      <4>1. byCode = {} /\ ~handle BY <3>1 DEF LoadingInv, OwnerInv, ProgressInv
      <4> QED BY <2>1, <2>2, <3>1, <4>1 DEF AtExit, LoadingInv, LoadingTypeOK
    <3>2. CASE atExit # 0 BY <2>1, <2>2, <3>2 DEF AtExit, enums_free_all
    <3> QED BY <3>1, <3>2
  <2>4. mapped' = {} /\ \A t \in States : lua'[t] \notin {"loading", "failed", "loaded"}
    BY <1>1, <1>3, <1>4, <1>5
  <2>5. LoadingTypeOK' BY <1>1, <1>2, <2>1, <2>3 DEF LoadingInv, LoadingTypeOK
  <2>6. OwnerInv' BY <2>1, <2>4 DEF OwnerInv
  <2>7. ProgressInv' BY <2>3, <2>4 DEF ProgressInv
  <2> QED BY <2>3, <2>5, <2>6, <2>7 DEF LoadingInv, EnumsRoundTrip
<1>6. CASE mapped # {s}
  <2>1. UNCHANGED <<byCode, byStr, handle, atExit, alloc>> BY <1>6 DEF CloseState
  <2>2. LoadingTypeOK' BY <1>1, <1>2, <2>1 DEF LoadingInv, LoadingTypeOK
  <2>3. mapped' = {} => mapped = {} BY <1>1, <1>6
  <2>4. OwnerInv' BY <1>1, <1>3, <2>1, <2>3 DEF LoadingInv, OwnerInv
  <2>5. ProgressInv' BY <1>1, <1>3, <2>1 DEF LoadingInv, ProgressInv
  <2> QED BY <2>1, <2>2, <2>4, <2>5 DEF LoadingInv, EnumsRoundTrip
<1> QED BY <1>5, <1>6

-----------------------------------------------------------------------------
\* Every step preserves the invariant.
LEMMA LoadingNextInv == LoadingInv /\ [LoadingNext]_loadingVars => LoadingInv'
<1> SUFFICES ASSUME LoadingInv, [LoadingNext]_loadingVars PROVE LoadingInv' OBVIOUS
<1>1. CASE LoadingNext
  BY <1>1, OpenInv, OpenGetprocInv, EnumsNewInv, OpenUtilsInv, CloseStateInv DEF LoadingNext
<1>2. CASE UNCHANGED loadingVars
  BY <1>2 DEF loadingVars, LoadingInv, LoadingTypeOK, OwnerInv, ProgressInv, EnumsRoundTrip
<1> QED BY <1>1, <1>2

\* Before the first load nothing is set up.
LEMMA LoadingInitInv == LoadingInit => LoadingInv
<1> SUFFICES ASSUME LoadingInit PROVE LoadingInv OBVIOUS
<1>1. /\ lua = [s \in States |-> "new"] /\ mapped = {} /\ step = 0 /\ alloc = NoState
      /\ handle = FALSE /\ byCode = {} /\ byStr = {} /\ lost = 0 /\ atExit = 0
  BY DEF LoadingInit, Fresh
<1>2. \A s \in States : lua[s] = "new" BY <1>1
<1>3. LoadingTypeOK
  <2>1. lua \in [States -> {"new", "loading", "failed", "loaded", "closed"}] BY <1>1
  <2>2. byCode \cup byStr \subseteq {Records[i] : i \in DOMAIN Records} BY <1>1
  <2>3. handle \in BOOLEAN BY <1>1
  <2>4. step \in 0 .. Len(Records) + 1 BY <1>1
  <2> QED BY <1>1, <2>1, <2>2, <2>3, <2>4 DEF LoadingTypeOK
<1>4. OwnerInv BY <1>1, <1>2 DEF OwnerInv
<1>5. ProgressInv BY <1>1, <1>2 DEF ProgressInv
<1> QED BY <1>1, <1>3, <1>4, <1>5 DEF LoadingInv, EnumsRoundTrip

\* The invariant of the static variables.
THEOREM LoadingInvariance == LoadingSpec => []LoadingInv
  BY LoadingInitInv, LoadingNextInv, PTL DEF LoadingSpec

\* The variables keep their types.
THEOREM LoadingTypeCorrect == LoadingSpec => []LoadingTypeOK
<1>1. LoadingInv => LoadingTypeOK BY DEF LoadingInv
<1> QED BY <1>1, LoadingInvariance, PTL

\* The tree of codes and the tree of strings always hold the same records, and find one record
\* for a code or a string, also after a load that failed half way, for every list of records.
THEOREM EnumsAgree == LoadingSpec => []EnumsRoundTrip
<1>1. LoadingInv => EnumsRoundTrip BY DEF LoadingInv
<1> QED BY <1>1, LoadingInvariance, PTL

\* Whatever step of luaopen_mooncl fails, and whichever states of Lua try: the module that is
\* loaded is complete, and AtExit leaves nothing behind and frees the records while the state
\* whose memory they are in is open, or another one has tried to load the module.
THEOREM StaticsAreSound == LoadingSpec => []StaticsSound
<1>1. LoadingInv => StaticsSound
  <2> SUFFICES ASSUME LoadingInv PROVE StaticsSound OBVIOUS
  <2>1. LoadedIsComplete
    BY DEF LoadedIsComplete, LoadingInv, OwnerInv, ProgressInv, EnumsRoundTrip
  <2>2. UnmappedIsClean
    BY DEF UnmappedIsClean, LoadingInv, OwnerInv, ProgressInv, EnumsRoundTrip
  <2>3. AllocatorAlive
    <3>1. SUFFICES ASSUME alloc # NoState, lua[alloc] = "closed"
                   PROVE  \E s \in mapped : lua[s] = "failed"
      BY DEF AllocatorAlive
    <3>2. PICK s \in mapped : s \in States BY <3>1 DEF LoadingInv, OwnerInv, LoadingTypeOK
    <3>3. lua[s] \in {"loading", "failed", "loaded"} BY <3>2 DEF LoadingInv, OwnerInv
    <3> QED BY <3>1, <3>2, <3>3 DEF LoadingInv, OwnerInv
  <2> QED BY <2>1, <2>2, <2>3 DEF StaticsSound
<1> QED BY <1>1, LoadingInvariance, PTL
=============================================================================
