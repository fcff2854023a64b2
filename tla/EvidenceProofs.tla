---------------------------- MODULE EvidenceProofs ----------------------------
(***************************************************************************)
(* What the evaluation of a Run guarantees, for any number of workers, of  *)
(* source artifacts and of deleted Jobs.                                   *)
(***************************************************************************)
EXTENDS Evidence, FiniteSetTheorems, TLAPS

\* Zenon is the default; where a leaf needs arithmetic or records, it cites SMT.
USE ZenonT(60)

Papers ==
    [id : Nat \ {0},
     defect : {"none", "artifacts", "producer", "results", "provenance", "comparisons",
               "verdict"},
     refs : BOOLEAN, ahead : BOOLEAN]

Calls ==
    {"inspect", "verify", "sources", "register", "advance", "list", "ensure", "publish",
     "retain"}

Attempts ==
    [state : Evaluated, pc : Calls, plan : BOOLEAN, doc : Papers \union {None}, next : Nat \ {0},
     event : Workers \union {None}]

Jobs ==
    [plan : BOOLEAN, phase : {"active", "succeeded", "failed"}, published : BOOLEAN,
     number : Nat \ {0}]

Events == [event : Workers, report : Nat \ {0}]

Failures == {"TEST_FAILURE", "INFRASTRUCTURE_FAILURE"}

\* How many documents of a kind there may be after n deletions.
Bound(kind, n) == IF kind = "raw" THEN 1 ELSE n + 1

-----------------------------------------------------------------------------
(* The invariant *)

Typed ==
    /\ state \in Evaluated \union Failures \union {"COMPLETED", "CANCELLING"}
    /\ object \in [Kinds -> Papers \union {None}]
    /\ source \in [Sources -> {"absent", "intact", "damaged"}]
    /\ job \in [Stages -> Jobs \union {None}]
    /\ participates \in BOOLEAN
    /\ deletions \in Nat
    /\ reservation \in Events \union {None}
    /\ publication \in Events \union {None}

\* What is registered was approved, or read intact, and identifiers are bound once.
RegistryInv ==
    /\ Of("source") \subseteq {[id |-> i] : i \in Sources}
    /\ \A i \in Sources : [id |-> i] \in Of("source") => source[i] = "intact"
    /\ \A kind \in Kinds : \A doc \in Of(kind) :
          doc \in Papers /\ doc.defect = "none" /\ doc.id <= Bound(kind, deletions)
    /\ \A kind \in Kinds : \A doc, other \in Of(kind) : doc.id = other.id => doc = other

RawComplete == Of("raw") # {} /\ \A i \in Sources : [id |-> i] \in Of("source")

\* A Run has the evidence of the stages it has left.
StageInv ==
    /\ state \in {"ANALYZING", "REPORTING", "COMPLETED"} => RawComplete
    /\ state \in {"REPORTING", "COMPLETED"} => Of("normalized") # {}
    /\ state = "COMPLETED" => Of("report") # {} /\ (participates => publication # None)
    /\ candidate # None => state = "COMPLETED" /\ candidate \in Of("normalized")

PublishedInv ==
    publication # None =>
        publication = reservation /\ \E doc \in Of("report") : publication.report = doc.id

\* Jobs are numbered by the deletions; without one, a stage's object is its Job's only output.
WorldInv ==
    /\ \A stage \in Stages : job[stage] # None => job[stage].number <= deletions + 1
    /\ \A kind \in Kinds : object[kind] # None =>
          /\ object[kind].id <= Bound(kind, deletions)
          /\ object[kind].defect \in Defects(kind) \union {"none"}
    /\ deletions = 0 =>
          \A stage \in Stages : object[stage] # None =>
              job[stage] # None /\ job[stage].published /\ object[stage].refs = job[stage].plan

\* What an attempt relies on where it stands.
Relies(a) ==
    /\ a.pc \in {"list", "ensure"} => a.state # "COLLECTING"
    /\ a.pc \in {"verify", "sources", "register"} =>
          a.doc \in Papers /\ a.doc.id <= Bound(Wanted(a.state), deletions)
    /\ a.pc = "verify" => a.doc.defect \in Defects(Wanted(a.state)) \union {"none"}
    /\ a.pc = "verify" /\ (a.state = "COLLECTING" \/ deletions = 0) =>
          object[Wanted(a.state)] = a.doc
    /\ a.pc \in {"sources", "register"} => a.doc.defect = "none"
    /\ a.pc = "sources" =>
          /\ a.state = "COLLECTING" /\ a.next \in Sources
          /\ \A i \in Sources : i < a.next => source[i] = "intact"
    /\ a.pc = "register" /\ a.state = "COLLECTING" =>
          /\ \A i \in Sources : source[i] = "intact"
          /\ \A i \in Sources : i < a.next => [id |-> i] \in Of("source")
    /\ a.pc \in {"inspect", "verify"} /\ a.state = "COLLECTING" => a.next = 1
    /\ a.pc \in {"publish", "retain"} => a.state = "REPORTING" /\ a.doc \in Of("report")
    /\ a.pc = "retain" =>
          /\ participates
          /\ reservation # None
          /\ reservation = [event |-> a.event, report |-> a.doc.id]
    /\ a.pc = "advance" =>
          /\ Of(Wanted(a.state)) # {}
          /\ a.state = "COLLECTING" => RawComplete
          /\ a.state = "REPORTING" /\ participates => publication # None

AttemptsInv ==
    /\ at \in [Workers -> Attempts \union {None}]
    /\ \A w \in Workers : at[w] # None => Relies(at[w])

\* Registry, world and Run, without the attempts.
SharedInv == Typed /\ RegistryInv /\ StageInv /\ PublishedInv /\ WorldInv /\ LagIsNotFailure

EvidenceInv == SharedInv /\ AttemptsInv

-----------------------------------------------------------------------------
(* Records and the registry *)

\* The missing record is none of the others. (The nil pointers and absent rows of the code.)
LEMMA NoneIsNoRecord == None \notin Papers /\ None \notin Attempts /\ None \notin Jobs
                        /\ None \notin Events
<1>1. DOMAIN None = {"none"}
  BY DEF None
<1>2. \A p \in Papers : DOMAIN p = {"id", "defect", "refs", "ahead"}
  BY DEF Papers
<1>3. \A a \in Attempts : DOMAIN a = {"state", "pc", "plan", "doc", "next", "event"}
  BY DEF Attempts
<1>4. \A j \in Jobs : DOMAIN j = {"plan", "phase", "published", "number"}
  BY DEF Jobs
<1>5. \A e \in Events : DOMAIN e = {"event", "report"}
  BY DEF Events
<1>6. "none" \notin {"id", "defect", "refs", "ahead"}
      /\ "none" \notin {"state", "pc", "plan", "doc", "next", "event"}
      /\ "none" \notin {"plan", "phase", "published", "number"}
      /\ "none" \notin {"event", "report"} /\ "none" \in {"none"}
  OBVIOUS
<1>7. QED BY <1>1, <1>2, <1>3, <1>4, <1>5, <1>6

\* The fields of an attempt. (The local variables of Reconcile.)
LEMMA AttemptFields ==
    ASSUME NEW a \in Attempts
    PROVE  /\ a.state \in Evaluated /\ a.pc \in Calls /\ a.plan \in BOOLEAN
           /\ a.doc \in Papers \union {None} /\ a.next \in Nat \ {0}
           /\ a.event \in Workers \union {None}
BY DEF Attempts

\* An attempt that goes on keeps what it has read.
LEMMA AttemptAtPc ==
    ASSUME NEW a \in Attempts, NEW p \in Calls, NEW b, b = [a EXCEPT !.pc = p]
    PROVE  /\ b \in Attempts /\ b.pc = p /\ b.state = a.state /\ b.doc = a.doc
           /\ b.next = a.next /\ b.event = a.event
BY DEF Attempts

\* What a registry contains of a kind once an artifact is added. (RegisterArtifact.)
LEMMA OfRegistered ==
    ASSUME NEW artifact, registered' = registered \union {artifact}, NEW kind
    PROVE  Of(kind)' = IF artifact.kind = kind THEN Of(kind) \union {artifact.doc}
                       ELSE Of(kind)
BY DEF Of

\* The registry is read the same while it does not change. (ListArtifacts.)
LEMMA OfUnchanged ==
    ASSUME registered' = registered, NEW kind
    PROVE  Of(kind)' = Of(kind)
BY DEF Of

-----------------------------------------------------------------------------
(* What a step may do to the attempts of others *)

\* Registry, reservation and publication only grow; an object that was read stays, unless
\* its Job was deleted and made anew.
Grows ==
    /\ participates' = participates
    /\ deletions' \in Nat /\ deletions <= deletions'
    /\ \A kind : Of(kind) \subseteq Of(kind)'
    /\ reservation # None => reservation' = reservation
    /\ publication # None => publication' = publication
    /\ \A i \in Sources : source[i] = "intact" => source'[i] = "intact"
    /\ \A kind \in Kinds : object[kind] # None /\ (kind = "raw" \/ deletions' = 0) =>
          object'[kind] = object[kind]

\* What another worker's step adds takes nothing from an attempt. (The stale attempts of
\* WorkerEngine go on next to the current one.)
LEMMA ReliesKept ==
    ASSUME Typed, Grows, NEW a \in Attempts, Relies(a)
    PROVE  Relies(a)'
<1>1. a.state \in Evaluated /\ deletions \in Nat /\ deletions' \in Nat
  BY AttemptFields DEF Typed, Grows
<1>2. Wanted(a.state) \in Kinds /\ (Wanted(a.state) = "raw" <=> a.state = "COLLECTING")
  BY <1>1 DEF Wanted, Evaluated, Kinds
<1>3. ASSUME NEW p \in Papers, p.id <= Bound(Wanted(a.state), deletions)
      PROVE  p.id <= Bound(Wanted(a.state), deletions')
  BY <1>1, <1>3, SMTT(30) DEF Papers, Bound, Grows
<1>4. a.pc \in {"verify", "sources", "register"} =>
         a.doc \in Papers /\ a.doc.id <= Bound(Wanted(a.state), deletions')
  BY <1>3 DEF Relies
<1>5. a.pc = "verify" /\ (a.state = "COLLECTING" \/ deletions' = 0) =>
         object'[Wanted(a.state)] = a.doc
  <2> SUFFICES ASSUME a.pc = "verify", a.state = "COLLECTING" \/ deletions' = 0
               PROVE  object'[Wanted(a.state)] = a.doc
    OBVIOUS
  <2>1. deletions' = 0 => deletions = 0
    BY <1>1, SMTT(30) DEF Grows
  <2>2. object[Wanted(a.state)] = a.doc /\ a.doc # None
    BY <2>1, NoneIsNoRecord DEF Relies
  <2>3. QED BY <1>2, <2>2 DEF Grows
<1>6. Of(Wanted(a.state)) # {} => Of(Wanted(a.state))' # {}
  BY DEF Grows
<1>7. RawComplete => RawComplete'
  BY DEF Grows, RawComplete
<1>8. a.doc \in Of("report") => a.doc \in Of("report")'
  BY DEF Grows
<1>9. publication # None => publication' # None
  BY DEF Grows
<1>10. \A i \in Sources : [id |-> i] \in Of("source") => [id |-> i] \in Of("source")'
  BY DEF Grows
<1>11. QED
  BY <1>4, <1>5, <1>6, <1>7, <1>8, <1>9, <1>10 DEF Relies, Grows

\* A step that sets one attempt keeps the invariant of all if that one can rely on its own.
LEMMA AttemptSet ==
    ASSUME Typed, AttemptsInv, Grows, NEW w \in Workers, NEW b \in Attempts \union {None},
           SetAttempt(w, b), b # None => Relies(b)'
    PROVE  AttemptsInv'
<1>1. at' \in [Workers -> Attempts \union {None}]
  BY DEF AttemptsInv, SetAttempt
<1>2. ASSUME NEW v \in Workers, at'[v] # None PROVE Relies(at[v])' 
  <2>1. PICK c : c = at'[v]
    OBVIOUS
  <2>2. CASE v = w
    <3>1. c = b
      BY <2>1, <2>2 DEF AttemptsInv, SetAttempt
    <3>2. Relies(c)'
      BY <3>1, <1>2, <2>1
    <3>3. QED BY <3>2, <2>1 DEF Relies
  <2>3. CASE v # w
    <3>1. c = at[v]
      BY <2>1, <2>3 DEF AttemptsInv, SetAttempt
    <3>2. c \in Attempts /\ Relies(c)
      BY <3>1, <1>2, <2>1 DEF AttemptsInv, Relies
    <3>3. Relies(c)'
      BY <3>2, ReliesKept
    <3>4. QED BY <3>3, <2>1 DEF Relies
  <2>4. QED BY <2>2, <2>3
<1>3. QED BY <1>1, <1>2 DEF AttemptsInv

\* A step that touches no attempt keeps the invariant of all.
LEMMA AttemptsKept ==
    ASSUME Typed, AttemptsInv, Grows, at' = at
    PROVE  AttemptsInv'
<1>1. ASSUME NEW v \in Workers, at'[v] # None PROVE Relies(at[v])'
  <2>1. PICK c : c = at[v]
    OBVIOUS
  <2>2. c \in Attempts /\ Relies(c)
    BY <1>1, <2>1 DEF AttemptsInv, Relies
  <2>3. Relies(c)'
    BY <2>2, ReliesKept
  <2>4. QED BY <2>3, <2>1 DEF Relies
<1>2. QED BY <1>1 DEF AttemptsInv

\* What the attempts do without effect leaves registry, world and Run alone.
LEMMA SharedKept ==
    ASSUME SharedInv, UNCHANGED <<state, registered, reservation, publication, storeVars>>
    PROVE  SharedInv' /\ Grows
<1>1. \A kind : Of(kind)' = Of(kind)
  BY DEF Of
<1>2. UNCHANGED <<state, reservation, publication, object, source, job, baseline, candidate,
                  participates, deletions>>
  BY DEF storeVars
<1>3. Typed'
  BY <1>2 DEF SharedInv, Typed
<1>4. RegistryInv'
  BY <1>1, <1>2 DEF SharedInv, RegistryInv
<1>5. RawComplete' <=> RawComplete
  BY <1>1 DEF RawComplete
<1>6. StageInv'
  BY <1>1, <1>2, <1>5 DEF SharedInv, StageInv
<1>7. PublishedInv'
  BY <1>1, <1>2 DEF SharedInv, PublishedInv
<1>8. WorldInv'
  BY <1>2 DEF SharedInv, WorldInv
<1>9. LagIsNotFailure'
  BY <1>2 DEF SharedInv, LagIsNotFailure, Undisturbed
<1>10. Grows
  BY <1>1, <1>2, SMTT(30) DEF Grows, SharedInv, Typed
<1>11. QED BY <1>3, <1>4, <1>6, <1>7, <1>8, <1>9, <1>10 DEF SharedInv

\* An attempt that ends without effect.
LEMMA Stopped ==
    ASSUME EvidenceInv, NEW w \in Workers, SetAttempt(w, None),
           UNCHANGED <<state, registered, reservation, publication, storeVars>>
    PROVE  EvidenceInv'
<1>1. SharedInv' /\ Grows
  BY SharedKept DEF EvidenceInv
<1>2. AttemptsInv'
  BY <1>1, AttemptSet DEF EvidenceInv, SharedInv
<1>3. QED BY <1>1, <1>2 DEF EvidenceInv

\* An attempt that goes on without effect, to where it may rely on the state as it is.
LEMMA WentOn ==
    ASSUME EvidenceInv, NEW w \in Workers, NEW b \in Attempts, SetAttempt(w, b), Relies(b),
           UNCHANGED <<state, registered, reservation, publication, storeVars>>
    PROVE  EvidenceInv'
<1>1. SharedInv' /\ Grows
  BY SharedKept DEF EvidenceInv
<1>2. Relies(b)'
  BY <1>1, ReliesKept DEF EvidenceInv, SharedInv
<1>3. AttemptsInv'
  BY <1>1, <1>2, AttemptSet DEF EvidenceInv, SharedInv
<1>4. QED BY <1>1, <1>3 DEF EvidenceInv

\* A Run that moves on keeps the rest. (AdvanceOwned, RequestCancellation.)
LEMMA Moved ==
    ASSUME SharedInv, UNCHANGED <<registered, reservation, publication, storeVars>>,
           state' \in Evaluated \union Failures \union {"COMPLETED", "CANCELLING"},
           StageInv', state' \in Failures => ~Undisturbed
    PROVE  SharedInv' /\ Grows
<1>1. \A kind : Of(kind)' = Of(kind)
  BY DEF Of
<1>2. UNCHANGED <<reservation, publication, object, source, job, baseline, candidate,
                  participates, deletions>>
  BY DEF storeVars
<1>3. Typed'
  BY <1>2 DEF SharedInv, Typed
<1>4. RegistryInv'
  BY <1>1, <1>2 DEF SharedInv, RegistryInv
<1>5. PublishedInv'
  BY <1>1, <1>2 DEF SharedInv, PublishedInv
<1>6. WorldInv'
  BY <1>2 DEF SharedInv, WorldInv
<1>7. LagIsNotFailure'
  BY <1>2 DEF Failures, LagIsNotFailure, Undisturbed
<1>8. Grows
  BY <1>1, <1>2, SMTT(30) DEF Grows, SharedInv, Typed
<1>9. QED BY <1>3, <1>4, <1>5, <1>6, <1>7, <1>8 DEF SharedInv

\* The attempt that fails a Run for a reason ends.
LEMMA Failed ==
    ASSUME EvidenceInv, NEW w \in Workers, at[w] # None, NEW to \in Failures, ~Undisturbed,
           AdvanceOwned(w, to), SetAttempt(w, None),
           UNCHANGED <<registered, reservation, publication, storeVars>>
    PROVE  EvidenceInv'
<1>1. CASE state' = state
  BY <1>1, Stopped
<1>2. CASE state' # state
  <2>1. state' = to /\ state \in Evaluated
    BY <1>2, AttemptFields DEF AdvanceOwned, EvidenceInv, AttemptsInv
  <2>2. candidate' = None
    BY <2>1 DEF storeVars, EvidenceInv, SharedInv, StageInv, Evaluated
  <2>3. StageInv'
    BY <2>1, <2>2 DEF StageInv, Failures
  <2>4. SharedInv' /\ Grows
    BY <2>1, <2>3, Moved DEF EvidenceInv
  <2>5. AttemptsInv'
    BY <2>4, AttemptSet DEF EvidenceInv, SharedInv
  <2>6. QED BY <2>4, <2>5 DEF EvidenceInv
<1>3. QED BY <1>1, <1>2

-----------------------------------------------------------------------------
(* One lemma per action *)

\* A claimed Run is attempted from its first call.
LEMMA StartKeeps ==
    ASSUME EvidenceInv, NEW w \in Workers, Start(w)
    PROVE  EvidenceInv'
<1>1. PICK b : b = NewAttempt
  OBVIOUS
<1>2. /\ b \in Attempts
      /\ b.pc \in {"inspect", "list"}
      /\ b.pc = "list" => b.state # "COLLECTING"
      /\ b.next = 1
  BY <1>1, SMTT(30) DEF NewAttempt, FirstCall, Attempts, Calls, Start
<1>3. Relies(b)
  BY <1>2, SMTT(30) DEF Relies
<1>4. SetAttempt(w, b) /\ UNCHANGED <<state, registered, reservation, publication, storeVars>>
  BY <1>1 DEF Start
<1>5. QED BY <1>2, <1>3, <1>4, WentOn

\* The object that was inspected is the one that is verified. (The collectors' Stat.)
LEMMA InspectKeeps ==
    ASSUME EvidenceInv, NEW w \in Workers, Inspect(w)
    PROVE  EvidenceInv'
<1>1. PICK a : a = at[w]
  OBVIOUS
<1>2. a \in Attempts /\ a.pc = "inspect" /\ Relies(a)
  BY <1>1 DEF Inspect, At, Idle, EvidenceInv, AttemptsInv, Relies
<1>3. PICK kind : kind = Wanted(a.state)
  OBVIOUS
<1>4. kind \in Kinds
  BY <1>2, <1>3, AttemptFields DEF Wanted, Evaluated, Kinds
<1>5. CASE object[kind] = None
  BY <1>1, <1>3, <1>5, Stopped DEF Inspect, Missing, Retry, Stop
<1>6. CASE object[kind] # None
  <2>1. PICK d : d = object[kind]
    OBVIOUS
  <2>2. d \in Papers /\ d.id <= Bound(kind, deletions)
        /\ d.defect \in Defects(kind) \union {"none"}
    BY <1>4, <1>6, <2>1 DEF EvidenceInv, SharedInv, Typed, WorldInv
  <2>3. PICK b : b = [a EXCEPT !.pc = "verify", !.doc = d]
    OBVIOUS
  <2>4. b \in Attempts /\ b.pc = "verify" /\ b.doc = d /\ b.state = a.state
        /\ b.next = a.next
    <3>1. "verify" \in Calls
      BY DEF Calls
    <3>2. d \in Papers \union {None} /\ a \in Attempts
      BY <1>2, <2>2
    <3>3. QED BY <2>3, <3>1, <3>2 DEF Attempts
  <2>6. SetAttempt(w, b)
        /\ UNCHANGED <<state, registered, reservation, publication, storeVars>>
    BY <1>1, <1>3, <1>6, <2>1, <2>3 DEF Inspect
  <2>7. Relies(b)
    BY <1>2, <1>3, <2>1, <2>2, <2>4 DEF Relies
  <2>8. QED BY <2>4, <2>6, <2>7, WentOn
<1>7. QED BY <1>5, <1>6

\* What is approved has no defect.
LEMMA ApprovedIsSound ==
    ASSUME NEW a \in Attempts, Relies(a), a.pc = "verify", Approves(Wanted(a.state), a.doc)
    PROVE  a.doc.defect = "none"
<1>1. a.state \in Evaluated
  BY AttemptFields
<1>2. CASE a.state = "COLLECTING"
  BY <1>2 DEF Relies, Approves, Wanted, Defects, RawManifest, ParseRawResult,
              ApproveRawManifest
<1>3. CASE a.state = "ANALYZING"
  BY <1>3 DEF Relies, Approves, Wanted, Defects, CollectNormalizedArtifact,
              ParseNormalizedResult, matchesRawProvenance
<1>4. CASE a.state = "REPORTING"
  BY <1>4 DEF Relies, Approves, Wanted, Defects, CollectReportArtifact, ParseAnalysisResult,
              ApproveReportManifest, ApproveReportVerdicts
<1>5. QED BY <1>1, <1>2, <1>3, <1>4 DEF Evaluated

\* What is refused has a defect, or a Job was deleted, or the baseline was decided upon.
LEMMA RefusedForAReason ==
    ASSUME EvidenceInv, NEW a \in Attempts, Relies(a), a.pc = "verify",
           ~Approves(Wanted(a.state), a.doc)
    PROVE  ~Undisturbed
<1> SUFFICES ASSUME Undisturbed PROVE FALSE
  OBVIOUS
<1> DEFINE kind == Wanted(a.state)
<1>1. a.state \in Evaluated /\ deletions = 0
  BY AttemptFields DEF Undisturbed
<1>2. kind \in Kinds
  BY <1>1 DEF Wanted, Evaluated, Kinds
<1>3. object[kind] = a.doc /\ a.doc \in Papers
  BY <1>1 DEF Relies
<1>4. object[kind] # None
  BY <1>3, NoneIsNoRecord
<1>5. a.doc.defect = "none"
  BY <1>2, <1>3, <1>4 DEF Undisturbed
<1>6. kind = "report" => a.doc.refs = Approved(baseline)
  BY <1>1, <1>3, <1>4 DEF Undisturbed, EvidenceInv, SharedInv, WorldInv, Stages
<1>7. SameBytes(kind, a.doc)
  BY <1>3 DEF SameBytes
<1> HIDE DEF kind
<1>8. Approves(kind, a.doc)
  BY <1>2, <1>5, <1>6, <1>7
     DEF Kinds, Approves, RawManifest, ParseRawResult, ApproveRawManifest,
         CollectNormalizedArtifact, ParseNormalizedResult, matchesRawProvenance,
         CollectReportArtifact, ParseAnalysisResult, ApproveReportManifest,
         ApproveReportVerdicts, ResolveReportPlan
<1>9. QED BY <1>8 DEF kind

\* A document is registered if it is approved; otherwise the Run is failed for a reason.
LEMMA VerifyKeeps ==
    ASSUME EvidenceInv, NEW w \in Workers, Verify(w)
    PROVE  EvidenceInv'
<1>1. PICK a : a = at[w]
  OBVIOUS
<1>2. a \in Attempts /\ a.pc = "verify" /\ Relies(a) /\ at[w] # None
  BY <1>1 DEF Verify, At, Idle, EvidenceInv, AttemptsInv, Relies
<1>3. CASE Approves(Wanted(a.state), a.doc)
  <2>1. PICK p \in Calls : p = AfterApproval(a.state)
    BY DEF AfterApproval, Calls
  <2>2. PICK b : b = [a EXCEPT !.pc = p]
    OBVIOUS
  <2>3. b \in Attempts /\ b.pc = p /\ b.state = a.state /\ b.doc = a.doc
        /\ b.next = a.next
    BY <1>2, <2>2, AttemptAtPc, SMTT(30)
  <2>4. SetAttempt(w, b)
        /\ UNCHANGED <<state, registered, reservation, publication, storeVars>>
    BY <1>1, <1>3, <2>1, <2>2 DEF Verify, Go
  <2>5. a.doc.defect = "none"
    BY <1>2, <1>3, ApprovedIsSound
  <2>6. /\ p = "sources" => a.state = "COLLECTING" /\ a.next = 1
        /\ p # "sources" => p = "register" /\ a.state # "COLLECTING"
    BY <1>2, <2>1 DEF AfterApproval, Relies
  <2>7. 1 \in Sources /\ \A i \in Sources : ~(i < 1)
    BY EvidenceAssumption, SMTT(30) DEF Sources
  <2>8. Relies(b)
    BY <1>2, <2>3, <2>5, <2>6, <2>7 DEF Relies
  <2>9. QED BY <2>3, <2>4, <2>8, WentOn
<1>4. CASE ~Approves(Wanted(a.state), a.doc)
  <2>1. PICK to : to = Failure(a.state)
    OBVIOUS
  <2>2. to \in Failures
    BY <2>1 DEF Failure, Failures
  <2>3. ~Undisturbed
    BY <1>2, <1>4, RefusedForAReason
  <2>4. AdvanceOwned(w, to) /\ SetAttempt(w, None)
        /\ UNCHANGED <<registered, reservation, publication, storeVars>>
    BY <1>1, <1>4, <2>1 DEF Verify, Finish, Stop
  <2>5. QED BY <1>2, <2>2, <2>3, <2>4, Failed
<1>5. QED BY <1>3, <1>4

\* The sources are read one by one: a missing one ends the attempt, a damaged one fails the
\* Run, and after the last all of them are known to be intact. (CollectRawArtifacts.)
LEMMA CollectSourceKeeps ==
    ASSUME EvidenceInv, NEW w \in Workers, CollectSource(w)
    PROVE  EvidenceInv'
<1>1. PICK a : a = at[w]
  OBVIOUS
<1>2. a \in Attempts /\ a.pc = "sources" /\ Relies(a) /\ at[w] # None
  BY <1>1 DEF CollectSource, At, Idle, EvidenceInv, AttemptsInv, Relies
<1>3. PICK i \in Sources : i = a.next
  BY <1>2 DEF Relies
<1>4. source[i] \in {"absent", "intact", "damaged"}
  BY DEF EvidenceInv, SharedInv, Typed
<1>5. CASE source[i] = "absent"
  BY <1>1, <1>3, <1>5, Stopped DEF CollectSource, Missing, Retry, Stop
<1>6. CASE source[i] = "damaged"
  <2>1. PICK to : to = Failure(a.state)
    OBVIOUS
  <2>2. to \in Failures
    BY <2>1 DEF Failure, Failures
  <2>3. ~Undisturbed
    BY <1>6 DEF Undisturbed
  <2>4. AdvanceOwned(w, to) /\ SetAttempt(w, None)
        /\ UNCHANGED <<registered, reservation, publication, storeVars>>
    BY <1>1, <1>3, <1>6, <2>1 DEF CollectSource, Finish, Stop
  <2>5. QED BY <1>2, <2>2, <2>3, <2>4, Failed
<1>7. CASE source[i] = "intact"
  <2>1. UNCHANGED <<state, registered, reservation, publication, storeVars>>
    BY <1>1, <1>3, <1>7 DEF CollectSource
  <2>2. i \in Nat /\ i + 1 \in Nat \ {0} /\ 1 \in Nat \ {0} /\ i <= NSources
        /\ NSources \in Nat
    BY EvidenceAssumption, SMTT(30) DEF Sources
  <2>3. CASE i = NSources
    <3>1. PICK b : b = [a EXCEPT !.pc = "register", !.next = 1]
      OBVIOUS
    <3>2. "register" \in Calls
      BY DEF Calls
    <3>3. b \in Attempts /\ b.pc = "register" /\ b.state = a.state /\ b.doc = a.doc
          /\ b.next = 1
      BY <1>2, <2>2, <3>1, <3>2 DEF Attempts
    <3>4. SetAttempt(w, b)
      BY <1>1, <1>3, <1>7, <2>3, <3>1 DEF CollectSource
    <3>5. \A k \in Sources : (k = i \/ k < i) /\ ~(k < 1)
      BY <2>2, <2>3, SMTT(30) DEF Sources
    <3>6. Relies(b)
      BY <1>2, <1>3, <1>7, <3>3, <3>5 DEF Relies
    <3>7. QED BY <2>1, <3>3, <3>4, <3>6, WentOn
  <2>4. CASE i # NSources
    <3>1. PICK n : n = i + 1
      OBVIOUS
    <3>2. PICK b : b = [a EXCEPT !.next = n]
      OBVIOUS
    <3>3. b \in Attempts /\ b.pc = a.pc /\ b.state = a.state /\ b.doc = a.doc
          /\ b.next = n
      BY <1>2, <2>2, <3>1, <3>2 DEF Attempts
    <3>4. SetAttempt(w, b)
      BY <1>1, <1>3, <1>7, <2>4, <3>1, <3>2 DEF CollectSource
    <3>5. n \in Sources /\ \A k \in Sources : k < n => k = i \/ k < i
      BY <2>2, <2>4, <3>1, SMTT(30) DEF Sources
    <3>6. Relies(b)
      BY <1>2, <1>3, <1>7, <3>3, <3>5 DEF Relies
    <3>7. QED BY <2>1, <3>3, <3>4, <3>6, WentOn
  <2>5. QED BY <2>3, <2>4
<1>8. QED BY <1>4, <1>5, <1>6, <1>7

\* What a registration owes is the order of the registry and the attempt's own next step.
LEMMA Registered ==
    ASSUME EvidenceInv, NEW w \in Workers, NEW b \in Attempts, SetAttempt(w, b), Relies(b)',
           NEW art,
           \A kind : Of(kind)' = IF art.kind = kind THEN Of(kind) \union {art.doc} ELSE Of(kind),
           RegistryInv', UNCHANGED <<state, reservation, publication>>,
           UNCHANGED <<object, source, job, baseline, candidate, participates, deletions>>
    PROVE  EvidenceInv'
<1>1. \A kind : Of(kind) \subseteq Of(kind)'
  OBVIOUS
<1>2. Grows
  BY <1>1, SMTT(30) DEF Grows, EvidenceInv, SharedInv, Typed
<1>3. Typed'
  BY DEF EvidenceInv, SharedInv, Typed
<1>4. RawComplete => RawComplete'
  BY <1>1 DEF RawComplete
<1>5. StageInv'
  BY <1>1, <1>4 DEF EvidenceInv, SharedInv, StageInv
<1>6. PublishedInv'
  BY <1>1 DEF EvidenceInv, SharedInv, PublishedInv
<1>7. WorldInv'
  BY DEF EvidenceInv, SharedInv, WorldInv
<1>8. LagIsNotFailure'
  BY DEF EvidenceInv, SharedInv, LagIsNotFailure, Undisturbed
<1>9. AttemptsInv'
  BY <1>2, AttemptSet DEF EvidenceInv, SharedInv
<1>10. QED BY <1>3, <1>5, <1>6, <1>7, <1>8, <1>9 DEF EvidenceInv, SharedInv

\* A registration adds one artifact that is in order, or its identifier is taken and the
\* attempt ends. (RegisterArtifact.)
LEMMA RegisterKeeps ==
    ASSUME EvidenceInv, NEW w \in Workers, Register(w)
    PROVE  EvidenceInv'
<1>1. PICK a : a = at[w]
  OBVIOUS
<1>2. a \in Attempts /\ a.pc = "register" /\ Relies(a)
  BY <1>1 DEF Register, At, Idle, EvidenceInv, AttemptsInv, Relies
<1>3. PICK art : art = NextArtifact(a)
  OBVIOUS
<1>4. UNCHANGED <<state, reservation, publication, storeVars>>
  BY DEF Register
<1>5. a.state \in Evaluated /\ a.next \in Nat \ {0} /\ NSources \in Nat
  BY <1>2, AttemptFields, EvidenceAssumption
<1>6. PICK n : n = a.next + 1 /\ n \in Nat \ {0}
  BY <1>5, SMTT(30)
<1>7. CASE ArtifactConflict(art)
  BY <1>1, <1>3, <1>4, <1>7, Stopped DEF Register, Stop
<1>8. CASE ~ArtifactConflict(art)
  <2>1. registered' = registered \union {art}
    BY <1>1, <1>3, <1>8 DEF Register
  <2>2. UNCHANGED <<object, source, job, baseline, candidate, participates, deletions>>
    BY <1>4 DEF storeVars
  <2>3. \A kind : Of(kind)' = IF art.kind = kind THEN Of(kind) \union {art.doc} ELSE Of(kind)
    BY <2>1, OfRegistered
  <2>4. CASE a.state = "COLLECTING" /\ a.next <= NSources
    <3>1. art.kind = "source" /\ art.doc = [id |-> a.next] /\ a.next \in Sources
      BY <1>3, <1>5, <2>4, SMTT(30) DEF NextArtifact, Sources
    <3>2. RegistryInv'
      <4>1. \A i \in Sources : source'[i] = "intact"
        BY <1>2, <2>2, <2>4 DEF Relies
      <4>2. QED BY <2>2, <2>3, <3>1, <4>1 DEF RegistryInv, EvidenceInv, SharedInv, Kinds
    <3>3. PICK b : b = [a EXCEPT !.pc = "register", !.next = n]
      OBVIOUS
    <3>4. b \in Attempts /\ b.pc = "register" /\ b.state = a.state /\ b.doc = a.doc
          /\ b.next = n
      <4>1. "register" \in Calls
        BY DEF Calls
      <4>2. QED BY <1>2, <1>6, <3>3, <4>1 DEF Attempts
    <3>5. SetAttempt(w, b)
      BY <1>1, <1>3, <1>8, <1>6, <3>1, <3>3 DEF Register, AfterRegistering
    <3>6. \A i \in Sources : i < b.next => [id |-> i] \in Of("source")'
      <4> SUFFICES ASSUME NEW i \in Sources, i < b.next PROVE [id |-> i] \in Of("source")'
        OBVIOUS
      <4>1. CASE i = a.next
        BY <2>3, <3>1, <4>1
      <4>2. CASE i < a.next
        BY <1>2, <2>3, <2>4, <3>1, <4>2 DEF Relies
      <4>3. QED BY <1>5, <1>6, <3>4, <4>1, <4>2, SMTT(30) DEF Sources
    <3>7. Relies(b)'
      BY <1>2, <2>2, <2>4, <3>4, <3>6 DEF Relies
    <3>8. QED BY <3>2, <3>4, <3>5, <3>7, <1>4, <2>2, <2>3, Registered
  <2>5. CASE ~(a.state = "COLLECTING" /\ a.next <= NSources)
    <3>1. art.kind = Wanted(a.state) /\ art.doc = a.doc
      BY <1>3, <2>5 DEF NextArtifact
    <3>2. art.kind \in Kinds /\ art.kind # "source"
          /\ (art.kind = "report" <=> a.state = "REPORTING")
      BY <1>5, <3>1 DEF Wanted, Evaluated, Kinds
    <3>3. a.doc \in Papers /\ a.doc.defect = "none" /\ a.doc.id <= Bound(art.kind, deletions)
      BY <1>2, <3>1 DEF Relies
    <3>4. \A doc \in Of(art.kind) : doc.id = a.doc.id => doc = a.doc
      BY <1>8, <3>1 DEF ArtifactConflict
    <3>5. RegistryInv'
      BY <2>2, <2>3, <3>1, <3>2, <3>3, <3>4, SMTT(30) DEF RegistryInv, EvidenceInv, SharedInv
    <3>6. PICK p : p = AfterRegistering(art)
      OBVIOUS
    <3>7. p \in {"publish", "advance"} /\ (p = "publish" <=> a.state = "REPORTING")
      BY <3>2, <3>6 DEF AfterRegistering
    <3>8. PICK b : b = [a EXCEPT !.pc = p, !.next = n]
      OBVIOUS
    <3>9. b \in Attempts /\ b.pc = p /\ b.state = a.state /\ b.doc = a.doc
      <4>1. p \in Calls
        BY <3>7 DEF Calls
      <4>2. QED BY <1>2, <1>6, <3>8, <4>1 DEF Attempts
    <3>10. SetAttempt(w, b)
      BY <1>1, <1>3, <1>8, <1>6, <3>6, <3>8 DEF Register
    <3>11. a.doc \in Of(Wanted(a.state))'
      BY <2>3, <3>1
    <3>12. a.state = "COLLECTING" => RawComplete'
      <4> SUFFICES ASSUME a.state = "COLLECTING" PROVE RawComplete'
        OBVIOUS
      <4>1. Of("raw")' # {}
        BY <3>11 DEF Wanted
      <4>2. \A i \in Sources : [id |-> i] \in Of("source")
        <5>1. \A i \in Sources : i < a.next
          BY <1>5, <2>5, SMTT(30) DEF Sources
        <5>2. QED BY <1>2, <5>1 DEF Relies
      <4>3. QED BY <2>3, <4>1, <4>2 DEF RawComplete
    <3>13. a.state = "REPORTING" => a.doc \in Of("report")'
      BY <3>11 DEF Wanted
    <3>14. Relies(b)'
      BY <3>7, <3>9, <3>11, <3>12, <3>13 DEF Relies
    <3>15. QED BY <3>5, <3>9, <3>10, <3>14, <1>4, <2>2, <2>3, Registered
  <2>6. QED BY <2>4, <2>5
<1>9. QED BY <1>7, <1>8

\* A Run leaves a stage with the evidence of that stage. (AdvanceOwned by the reconcilers.)
LEMMA AdvanceKeeps ==
    ASSUME EvidenceInv, NEW w \in Workers, Advance(w)
    PROVE  EvidenceInv'
<1>1. PICK a : a = at[w]
  OBVIOUS
<1>2. a \in Attempts /\ a.pc = "advance" /\ Relies(a)
  BY <1>1 DEF Advance, At, Idle, EvidenceInv, AttemptsInv, Relies
<1>3. SetAttempt(w, None) /\ UNCHANGED <<registered, reservation, publication, storeVars>>
      /\ AdvanceOwned(w, Following(a.state))
  BY <1>1 DEF Advance, Finish, Stop
<1>4. CASE state' = state
  BY <1>3, <1>4, Stopped
<1>5. CASE state' # state
  <2>1. state = a.state /\ state' = Following(a.state) /\ state \in Evaluated
    BY <1>1, <1>2, <1>3, <1>5, AttemptFields DEF AdvanceOwned
  <2>2. UNCHANGED <<publication, candidate, participates>> /\ candidate = None
    BY <1>3, <2>1 DEF storeVars, EvidenceInv, SharedInv, StageInv, Evaluated
  <2>3. \A kind : Of(kind)' = Of(kind)
    BY <1>3, OfUnchanged
  <2>4. RawComplete' <=> RawComplete
    BY <2>3 DEF RawComplete
  <2>5. state = "COLLECTING" => StageInv'
    BY <1>2, <2>1, <2>2, <2>4 DEF Relies, Following, StageInv
  <2>6. state = "ANALYZING" => StageInv'
    BY <1>2, <2>1, <2>2, <2>3, <2>4
       DEF Relies, Following, Wanted, StageInv, EvidenceInv, SharedInv
  <2>7. state = "REPORTING" => StageInv'
    BY <1>2, <2>1, <2>2, <2>3, <2>4
       DEF Relies, Following, Wanted, StageInv, EvidenceInv, SharedInv
  <2>8. StageInv'
    BY <2>1, <2>5, <2>6, <2>7 DEF Evaluated
  <2>9. state' \in Evaluated \union Failures \union {"COMPLETED", "CANCELLING"}
        /\ state' \notin Failures
    BY <2>1 DEF Following, Evaluated, Failures
  <2>10. SharedInv' /\ Grows
    BY <1>3, <2>8, <2>9, Moved DEF EvidenceInv
  <2>11. AttemptsInv'
    BY <1>3, <2>10, AttemptSet DEF EvidenceInv, SharedInv
  <2>12. QED BY <2>10, <2>11 DEF EvidenceInv
<1>6. QED BY <1>4, <1>5

\* An output that is listed is registered; without one the Job is ensured.
LEMMA ListKeeps ==
    ASSUME EvidenceInv, NEW w \in Workers, List(w)
    PROVE  EvidenceInv'
<1>1. PICK a : a = at[w]
  OBVIOUS
<1>2. a \in Attempts /\ a.pc = "list" /\ Relies(a)
  BY <1>1 DEF List, At, Idle, EvidenceInv, AttemptsInv, Relies
<1>3. a.state \in {"ANALYZING", "REPORTING"}
  BY <1>2, AttemptFields DEF Relies, Evaluated
<1>4. UNCHANGED <<state, registered, reservation, publication, storeVars>>
  BY DEF List
<1>5. CASE SetAttempt(w, None)
  BY <1>4, <1>5, Stopped
<1>6. CASE SetAttempt(w, [at[w] EXCEPT !.pc = "ensure", !.plan = ResolveJob(a.state)])
  <2>1. PICK plan : plan = ResolveJob(a.state) /\ plan \in BOOLEAN
    BY DEF ResolveJob, ResolveAnalysisJob, ResolveReportJob, ResolveReportPlan, Approved
  <2>2. PICK b : b = [a EXCEPT !.pc = "ensure", !.plan = plan]
    OBVIOUS
  <2>3. "ensure" \in Calls
    BY DEF Calls
  <2>4. b \in Attempts /\ b.pc = "ensure" /\ b.state = a.state
    BY <1>2, <2>1, <2>2, <2>3 DEF Attempts
  <2>5. SetAttempt(w, b)
    BY <1>1, <1>6, <2>1, <2>2
  <2>6. Relies(b)
    BY <1>3, <2>4 DEF Relies
  <2>7. QED BY <1>4, <2>4, <2>5, <2>6, WentOn
<1>7. ASSUME NEW d \in Of(Wanted(a.state)),
             SetAttempt(w, [at[w] EXCEPT !.pc = AfterListing(a.state), !.doc = d])
      PROVE  EvidenceInv'
  <2>1. PICK p : p = AfterListing(a.state)
    OBVIOUS
  <2>2. p \in {"publish", "advance"} /\ (p = "publish" <=> a.state = "REPORTING")
    BY <2>1 DEF AfterListing
  <2>3. p \in Calls
    BY <2>2 DEF Calls
  <2>4. d \in Papers
    BY <1>3, <1>7 DEF Wanted, Kinds, EvidenceInv, SharedInv, RegistryInv
  <2>5. PICK b : b = [a EXCEPT !.pc = p, !.doc = d]
    OBVIOUS
  <2>6. b \in Attempts /\ b.pc = p /\ b.state = a.state /\ b.doc = d
    BY <1>2, <2>3, <2>4, <2>5 DEF Attempts
  <2>7. SetAttempt(w, b)
    BY <1>1, <1>7, <2>1, <2>5
  <2>8. a.state = "REPORTING" => d \in Of("report")
    BY <1>7 DEF Wanted
  <2>9. Relies(b)
    BY <1>3, <1>7, <2>2, <2>6, <2>8 DEF Relies
  <2>10. QED BY <1>4, <2>6, <2>7, <2>9, WentOn
<1>8. QED BY <1>1, <1>5, <1>6, <1>7 DEF List, Stop

\* Nothing is disturbed by the creation of a Job.
LEMMA CreationIsQuiet ==
    ASSUME Typed, NEW stage \in Stages, job[stage] = None, NEW j,
           job' = [job EXCEPT ![stage] = j], UNCHANGED <<object, source, baseline, deletions>>,
           Undisturbed'
    PROVE  Undisturbed
<1>1. \A s \in Stages : job[s] # None => job'[s] = job[s]
  BY DEF Typed
<1>2. "report" \in Stages
  BY DEF Stages
<1>3. QED BY <1>1, <1>2 DEF Undisturbed

\* A Job is created once between deletions, and a failed one fails the Run. (ensure.)
LEMMA EnsureJobKeeps ==
    ASSUME EvidenceInv, NEW w \in Workers, EnsureJob(w)
    PROVE  EvidenceInv'
<1>1. PICK a : a = at[w]
  OBVIOUS
<1>2. a \in Attempts /\ a.pc = "ensure" /\ Relies(a) /\ at[w] # None
  BY <1>1 DEF EnsureJob, At, Idle, EvidenceInv, AttemptsInv, Relies
<1>3. a.state \in {"ANALYZING", "REPORTING"}
  BY <1>2, AttemptFields DEF Relies, Evaluated
<1>4. PICK stage \in Stages : stage = Wanted(a.state)
  BY <1>3 DEF Wanted, Stages
<1>5. UNCHANGED <<registered, reservation, publication, object, source, baseline, candidate,
                  participates, deletions>>
  BY DEF EnsureJob
<1>6. CASE CreatedFor(a.plan, stage)
  <2>1. PICK j : j = NewStageJob(a.plan, stage)
    OBVIOUS
  <2>2. job[stage] = None /\ job' = [job EXCEPT ![stage] = j] /\ SetAttempt(w, None)
        /\ state' = state
    BY <1>1, <1>4, <1>6, <2>1 DEF EnsureJob, Stop, CreatedFor
  <2>3. j \in Jobs /\ j.number <= deletions + 1
    <3>1. a.plan \in BOOLEAN /\ deletions \in Nat
      BY <1>2, AttemptFields DEF EvidenceInv, SharedInv, Typed
    <3>2. QED BY <2>1, <2>2, <3>1, SMTT(30) DEF NewStageJob, Number, Jobs
  <2>4. Typed'
    BY <1>5, <2>2, <2>3 DEF EvidenceInv, SharedInv, Typed
  <2>5. \A kind : Of(kind)' = Of(kind)
    BY <1>5, OfUnchanged
  <2>6. RawComplete' <=> RawComplete
    BY <2>5 DEF RawComplete
  <2>7. RegistryInv'
    BY <1>5, <2>5 DEF EvidenceInv, SharedInv, RegistryInv
  <2>8. StageInv'
    BY <1>5, <2>2, <2>5, <2>6 DEF EvidenceInv, SharedInv, StageInv
  <2>9. PublishedInv'
    BY <1>5, <2>5 DEF EvidenceInv, SharedInv, PublishedInv
  <2>10. \A s \in Stages : job'[s] = IF s = stage THEN j ELSE job[s]
    BY <2>2 DEF EvidenceInv, SharedInv, Typed
  <2>11. deletions = 0 => object[stage] = None
    BY <2>2 DEF EvidenceInv, SharedInv, WorldInv
  <2>12. WorldInv'
    BY <1>5, <2>3, <2>10, <2>11 DEF EvidenceInv, SharedInv, WorldInv
  <2>13. Undisturbed' => Undisturbed
    BY <1>5, <2>2, CreationIsQuiet DEF EvidenceInv, SharedInv
  <2>14. LagIsNotFailure'
    BY <2>2, <2>13 DEF EvidenceInv, SharedInv, LagIsNotFailure
  <2>15. Grows
    BY <1>5, <2>5, SMTT(30) DEF Grows, EvidenceInv, SharedInv, Typed
  <2>16. AttemptsInv'
    BY <2>2, <2>15, AttemptSet DEF EvidenceInv, SharedInv
  <2>17. QED
    BY <2>4, <2>7, <2>8, <2>9, <2>12, <2>14, <2>16 DEF EvidenceInv, SharedInv
<1>7. CASE ~CreatedFor(a.plan, stage)
  <2>1. job' = job
    BY <1>1, <1>4, <1>7 DEF EnsureJob
  <2>2. UNCHANGED <<registered, reservation, publication, storeVars>>
    BY <1>5, <2>1 DEF storeVars
  <2>3. job[stage] \in Jobs
    BY <1>7 DEF CreatedFor, EvidenceInv, SharedInv, Typed
  <2>4. job[stage].phase \in {"active", "succeeded", "failed"}
    BY <2>3 DEF Jobs
  <2>5. CASE ~matches(a.plan, stage) \/ job[stage].phase = "active"
    <3>1. SetAttempt(w, None) /\ state' = state
      BY <1>1, <1>4, <1>7, <2>5 DEF EnsureJob, Stop
    <3>2. QED BY <2>2, <3>1, Stopped
  <2>6. CASE matches(a.plan, stage) /\ job[stage].phase = "failed"
    <3>1. SetAttempt(w, None) /\ AdvanceOwned(w, "INFRASTRUCTURE_FAILURE")
      BY <1>1, <1>4, <1>7, <2>6 DEF EnsureJob, Stop
    <3>2. ~Undisturbed
      BY <1>7, <2>6 DEF Undisturbed, CreatedFor
    <3>3. "INFRASTRUCTURE_FAILURE" \in Failures
      BY DEF Failures
    <3>4. QED BY <1>2, <2>2, <3>1, <3>2, <3>3, Failed
  <2>7. CASE matches(a.plan, stage) /\ job[stage].phase = "succeeded"
    <3>1. PICK b : b = [a EXCEPT !.pc = "inspect"]
      OBVIOUS
    <3>2. "inspect" \in Calls
      BY DEF Calls
    <3>3. b \in Attempts /\ b.pc = "inspect" /\ b.state = a.state
      BY <1>2, <3>1, <3>2, AttemptAtPc, SMTT(30)
    <3>4. SetAttempt(w, b) /\ state' = state
      BY <1>1, <1>4, <1>7, <2>7, <3>1 DEF EnsureJob, Go
    <3>5. Relies(b)
      BY <1>3, <3>3 DEF Relies
    <3>6. QED BY <2>2, <3>3, <3>4, <3>5, WentOn
  <2>8. QED BY <2>4, <2>5, <2>6, <2>7
<1>8. QED BY <1>6, <1>7

\* What a publication owes: it is the reserved event's, and for a registered report.
LEMMA EventsMoved ==
    ASSUME EvidenceInv, NEW w \in Workers, NEW b \in Attempts \union {None}, SetAttempt(w, b),
           b # None => Relies(b)',
           UNCHANGED <<state, registered, storeVars>>,
           reservation' \in Events \union {None}, publication' \in Events \union {None},
           reservation # None => reservation' = reservation,
           publication # None => publication' = publication,
           PublishedInv'
    PROVE  EvidenceInv'
<1>1. \A kind : Of(kind)' = Of(kind)
  BY OfUnchanged
<1>2. UNCHANGED <<object, source, job, baseline, candidate, participates, deletions>>
  BY DEF storeVars
<1>3. Typed'
  BY <1>2 DEF EvidenceInv, SharedInv, Typed
<1>4. RawComplete' <=> RawComplete
  BY <1>1 DEF RawComplete
<1>5. RegistryInv'
  BY <1>1, <1>2 DEF EvidenceInv, SharedInv, RegistryInv
<1>6. StageInv'
  BY <1>1, <1>2, <1>4 DEF EvidenceInv, SharedInv, StageInv
<1>7. WorldInv'
  BY <1>2 DEF EvidenceInv, SharedInv, WorldInv
<1>8. LagIsNotFailure'
  BY <1>2 DEF EvidenceInv, SharedInv, LagIsNotFailure, Undisturbed
<1>9. Grows
  BY <1>1, <1>2, SMTT(30) DEF Grows, EvidenceInv, SharedInv, Typed
<1>10. AttemptsInv'
  BY <1>9, AttemptSet DEF EvidenceInv, SharedInv
<1>11. QED BY <1>3, <1>5, <1>6, <1>7, <1>8, <1>10 DEF EvidenceInv, SharedInv

\* A report that is published, or need not be, completes the Run.
LEMMA PublishedAdvances ==
    ASSUME EvidenceInv, NEW w \in Workers, NEW a \in Attempts, a = at[w],
           a.state = "REPORTING", a.doc \in Of("report"), Go(w, "advance"),
           UNCHANGED <<state, registered, storeVars>>,
           reservation' \in Events \union {None}, publication' \in Events \union {None},
           reservation # None => reservation' = reservation,
           publication # None => publication' = publication,
           PublishedInv', participates => publication' # None
    PROVE  EvidenceInv'
<1>1. PICK b : b = [a EXCEPT !.pc = "advance"]
  OBVIOUS
<1>2. "advance" \in Calls
  BY DEF Calls
<1>3. b \in Attempts /\ b.pc = "advance" /\ b.state = a.state
  BY <1>1, <1>2, AttemptAtPc, SMTT(30)
<1>4. SetAttempt(w, b)
  BY <1>1 DEF Go
<1>5. Of("report")' = Of("report") /\ participates' = participates
  BY OfUnchanged DEF storeVars
<1>6. Wanted(b.state) = "report"
  BY <1>3 DEF Wanted
<1>7. Relies(b)'
  BY <1>3, <1>5, <1>6 DEF Relies
<1>8. QED BY <1>3, <1>4, <1>7, EventsMoved

\* The reserved event belongs to one report. (PublishReport, ReserveAnalysisPublicationEvent.)
LEMMA ResolveEventKeeps ==
    ASSUME EvidenceInv, NEW w \in Workers, ResolveEvent(w)
    PROVE  EvidenceInv'
<1>1. PICK a : a = at[w]
  OBVIOUS
<1>2. a \in Attempts /\ a.pc = "publish" /\ Relies(a)
  BY <1>1 DEF ResolveEvent, At, Idle, EvidenceInv, AttemptsInv, Relies
<1>3. a.state = "REPORTING" /\ a.doc \in Of("report")
  BY <1>2 DEF Relies
<1>4. a.doc \in Papers /\ a.doc.id \in Nat \ {0}
  BY <1>3 DEF EvidenceInv, SharedInv, RegistryInv, Kinds, Papers
<1>5. UNCHANGED <<state, registered, publication, storeVars>>
  BY DEF ResolveEvent
<1>6. reservation \in Events \union {None} /\ publication \in Events \union {None}
  BY DEF EvidenceInv, SharedInv, Typed
<1>7. ASSUME reservation' = reservation PROVE PublishedInv'
  BY <1>5, <1>7, OfUnchanged DEF PublishedInv, EvidenceInv, SharedInv
<1>8. CASE ~participates /\ Go(w, "advance") /\ reservation' = reservation
  BY <1>1, <1>2, <1>3, <1>5, <1>6, <1>7, <1>8, PublishedAdvances
<1>9. CASE /\ participates /\ publication # None /\ reservation' = reservation
           /\ IF ReplaysPublication(w) THEN Go(w, "advance") ELSE Stop(w)
  <2>1. CASE ReplaysPublication(w)
    BY <1>1, <1>2, <1>3, <1>5, <1>6, <1>7, <1>9, <2>1, PublishedAdvances
  <2>2. CASE ~ReplaysPublication(w)
    BY <1>5, <1>9, <2>2, Stopped DEF Stop
  <2>3. QED BY <2>1, <2>2
<1>10. CASE /\ participates /\ publication = None
            /\ reservation' = ReserveAnalysisPublicationEvent(w)
            /\ IF reservation'.report = Mine(w)
               THEN SetAttempt(w, [at[w] EXCEPT !.pc = "retain", !.event = reservation'.event])
               ELSE Stop(w)
  <2>1. PICK e : e = reservation'
    OBVIOUS
  <2>2. e \in Events
    BY <1>1, <1>4, <1>6, <1>10, <2>1 DEF ReserveAnalysisPublicationEvent, Mine, Events
  <2>3. e # None
    BY <2>2, NoneIsNoRecord
  <2>4. reservation # None => reservation' = reservation
    BY <1>10 DEF ReserveAnalysisPublicationEvent
  <2>5. PublishedInv'
    BY <1>5, <1>10 DEF PublishedInv
  <2>6. CASE e.report = a.doc.id
    <3>1. e.event \in Workers
      BY <2>2 DEF Events
    <3>2. PICK b : b = [a EXCEPT !.pc = "retain", !.event = e.event]
      OBVIOUS
    <3>3. b \in Attempts /\ b.pc = "retain" /\ b.state = a.state /\ b.doc = a.doc
          /\ b.event = e.event
      <4>1. "retain" \in Calls
        BY DEF Calls
      <4>2. QED BY <1>2, <3>1, <3>2, <4>1 DEF Attempts
    <3>4. SetAttempt(w, b)
      BY <1>1, <1>10, <2>1, <2>6, <3>2 DEF Mine
    <3>5. e = [event |-> e.event, report |-> e.report]
      BY <2>2 DEF Events
    <3>6. participates' = participates /\ Of("report")' = Of("report")
      BY <1>5, OfUnchanged DEF storeVars
    <3>7. Relies(b)'
      BY <1>3, <1>10, <2>1, <2>3, <2>6, <3>3, <3>5, <3>6 DEF Relies
    <3>8. QED BY <1>5, <1>6, <2>1, <2>2, <2>4, <2>5, <3>3, <3>4, <3>7, EventsMoved
  <2>7. CASE e.report # a.doc.id
    <3>1. SetAttempt(w, None)
      BY <1>1, <1>10, <2>1, <2>7 DEF Mine, Stop
    <3>2. QED BY <1>5, <1>6, <2>1, <2>2, <2>4, <2>5, <3>1, EventsMoved
  <2>8. QED BY <2>6, <2>7
<1>11. QED BY <1>8, <1>9, <1>10 DEF ResolveEvent

\* A publication is retained once. (RetainAnalysisPublication.)
LEMMA RetainKeeps ==
    ASSUME EvidenceInv, NEW w \in Workers, Retain(w)
    PROVE  EvidenceInv'
<1>1. PICK a : a = at[w]
  OBVIOUS
<1>2. a \in Attempts /\ a.pc = "retain" /\ Relies(a)
  BY <1>1 DEF Retain, At, Idle, EvidenceInv, AttemptsInv, Relies
<1>3. a.state = "REPORTING" /\ a.doc \in Of("report") /\ participates /\ reservation # None
      /\ reservation = [event |-> a.event, report |-> a.doc.id]
  BY <1>2 DEF Relies
<1>4. UNCHANGED <<state, registered, reservation, storeVars>>
  BY DEF Retain
<1>5. reservation \in Events \union {None} /\ publication \in Events \union {None}
  BY DEF EvidenceInv, SharedInv, Typed
<1>6. Of("report")' = Of("report")
  BY <1>4, OfUnchanged
<1>7. CASE publication = None /\ Go(w, "advance")
           /\ publication' = [event |-> at[w].event, report |-> Mine(w)]
  <2>1. publication' = reservation
    BY <1>1, <1>3, <1>7 DEF Mine
  <2>2. publication'.report = a.doc.id
    BY <1>3, <2>1
  <2>3. PublishedInv'
    BY <1>3, <1>4, <1>6, <2>1, <2>2 DEF PublishedInv
  <2>4. QED BY <1>1, <1>2, <1>3, <1>4, <1>5, <1>7, <2>1, <2>3, PublishedAdvances
<1>8. CASE Stop(w) /\ publication' = publication
  BY <1>4, <1>8, Stopped DEF Stop
<1>9. CASE publication # None /\ Go(w, "advance") /\ publication' = publication
  <2>1. PublishedInv'
    BY <1>4, <1>6, <1>9 DEF PublishedInv, EvidenceInv, SharedInv
  <2>2. QED BY <1>1, <1>2, <1>3, <1>4, <1>5, <1>9, <2>1, PublishedAdvances
<1>10. QED BY <1>7, <1>8, <1>9 DEF Retain, Refused

\* What the world may do while the Run is evaluated: the attempts find what they relied on.
LEMMA WorldMoved ==
    ASSUME EvidenceInv, UNCHANGED <<runVars, candidate>>, state \in Evaluated,
           Typed', WorldInv', deletions <= deletions',
           \A i \in Sources : source[i] = "intact" => source'[i] = "intact",
           \A kind \in Kinds : object[kind] # None /\ (kind = "raw" \/ deletions' = 0) =>
              object'[kind] = object[kind]
    PROVE  EvidenceInv'
<1>1. UNCHANGED <<state, at, registered, reservation, publication, participates>>
  BY DEF runVars
<1>2. \A kind : Of(kind)' = Of(kind)
  BY <1>1, OfUnchanged
<1>3. Grows
  BY <1>1, <1>2 DEF Grows, Typed
<1>4. deletions \in Nat /\ deletions' \in Nat
  BY DEF EvidenceInv, SharedInv, Typed
<1>5. \A kind \in Kinds : \A doc \in Papers :
         doc.id <= Bound(kind, deletions) => doc.id <= Bound(kind, deletions')
  BY <1>4, SMTT(30) DEF Bound, Papers
<1>6. RegistryInv'
  BY <1>2, <1>5 DEF EvidenceInv, SharedInv, RegistryInv
<1>7. RawComplete' <=> RawComplete
  BY <1>2 DEF RawComplete
<1>8. StageInv'
  BY <1>1, <1>2, <1>7 DEF EvidenceInv, SharedInv, StageInv
<1>9. PublishedInv'
  BY <1>1, <1>2 DEF EvidenceInv, SharedInv, PublishedInv
<1>10. LagIsNotFailure'
  BY <1>1 DEF LagIsNotFailure, Evaluated
<1>11. AttemptsInv'
  BY <1>1, <1>3, AttemptsKept DEF EvidenceInv, SharedInv
<1>12. QED BY <1>6, <1>8, <1>9, <1>10, <1>11 DEF EvidenceInv, SharedInv

\* What a publisher writes is a document of its kind.
LEMMA DocumentsTyped ==
    ASSUME NEW kind \in Kinds, NEW n \in Nat \ {0}, NEW refs \in BOOLEAN,
           NEW doc \in Documents(kind, n, refs)
    PROVE  /\ doc \in Papers /\ doc.id <= n /\ doc.refs = refs
           /\ doc.defect \in Defects(kind) \union {"none"}
<1>1. doc.id \in 1..n /\ doc.refs = refs /\ doc.defect \in Defects(kind) \union {"none"}
      /\ doc.ahead \in BOOLEAN
      /\ doc = [id |-> doc.id, defect |-> doc.defect, refs |-> doc.refs, ahead |-> doc.ahead]
  BY DEF Documents
<1>2. doc.defect \in {"none", "artifacts", "producer", "results", "provenance", "comparisons",
                      "verdict"}
  BY <1>1 DEF Defects, Kinds
<1>3. doc.id \in Nat \ {0} /\ doc.id <= n
  BY <1>1, SMTT(30)
<1>4. doc \in Papers
  BY <1>1, <1>2, <1>3 DEF Papers
<1>5. QED BY <1>1, <1>3, <1>4

\* The raw manifest is written once.
LEMMA PublishRawKeeps ==
    ASSUME EvidenceInv, PublishRaw
    PROVE  EvidenceInv'
<1>1. PICK doc \in Documents("raw", 1, FALSE) : object' = [object EXCEPT !["raw"] = doc]
  BY DEF PublishRaw
<1>2. /\ doc \in Papers /\ doc.id <= 1 /\ doc.defect \in Defects("raw") \union {"none"}
  <2>1. "raw" \in Kinds /\ 1 \in Nat \ {0} /\ FALSE \in BOOLEAN
    BY SMTT(30) DEF Kinds
  <2>2. QED BY <1>1, <2>1, DocumentsTyped
<1>3. /\ UNCHANGED <<runVars, candidate, source, job, deletions>>
      /\ state \in Evaluated /\ object["raw"] = None
  BY DEF PublishRaw, Watched
<1>4. UNCHANGED <<state, reservation, publication, participates>>
  BY <1>3 DEF runVars
<1>5. \A kind \in Kinds : object'[kind] = IF kind = "raw" THEN doc ELSE object[kind]
  BY <1>1 DEF EvidenceInv, SharedInv, Typed
<1>6. object' \in [Kinds -> Papers \union {None}]
  BY <1>1, <1>2 DEF EvidenceInv, SharedInv, Typed
<1>7. Typed'
  BY <1>3, <1>4, <1>6 DEF EvidenceInv, SharedInv, Typed
<1>8. \A stage \in Stages : stage \in Kinds /\ stage # "raw"
  BY DEF Stages, Kinds
<1>9. WorldInv'
  BY <1>2, <1>3, <1>5, <1>8 DEF EvidenceInv, SharedInv, WorldInv, Bound
<1>10. deletions <= deletions'
  BY <1>3, SMTT(30) DEF EvidenceInv, SharedInv, Typed
<1>11. QED BY <1>3, <1>5, <1>7, <1>9, <1>10, WorldMoved

\* A source is written once: what was read intact stays so.
LEMMA PublishSourceKeeps ==
    ASSUME EvidenceInv, NEW i \in Sources, NEW as \in {"intact", "damaged"},
           PublishSource(i, as)
    PROVE  EvidenceInv'
<1>1. /\ UNCHANGED <<runVars, candidate, object, job, deletions>> /\ state \in Evaluated
      /\ source' = [source EXCEPT ![i] = as] /\ source[i] = "absent"
  BY DEF PublishSource, Watched
<1>2. UNCHANGED <<state, reservation, publication, participates>>
  BY <1>1 DEF runVars
<1>3. source' \in [Sources -> {"absent", "intact", "damaged"}]
      /\ \A k \in Sources : source[k] = "intact" => source'[k] = "intact"
  BY <1>1 DEF EvidenceInv, SharedInv, Typed
<1>4. Typed'
  BY <1>1, <1>2, <1>3 DEF EvidenceInv, SharedInv, Typed
<1>5. WorldInv'
  BY <1>1 DEF EvidenceInv, SharedInv, WorldInv
<1>6. deletions <= deletions'
  BY <1>1, SMTT(30) DEF EvidenceInv, SharedInv, Typed
<1>7. QED BY <1>1, <1>3, <1>4, <1>5, <1>6, WorldMoved

\* A Job writes once; without deletions its document is the only one of the stage.
LEMMA PublishOutputKeeps ==
    ASSUME EvidenceInv, NEW stage \in Stages, PublishOutput(stage)
    PROVE  EvidenceInv'
<1>1. PICK j : j = job[stage]
  OBVIOUS
<1>2. j \in Jobs /\ ~j.published /\ j.number <= deletions + 1
  BY <1>1 DEF PublishOutput, EvidenceInv, SharedInv, Typed, WorldInv
<1>3. j.number \in Nat \ {0} /\ j.plan \in BOOLEAN
  BY <1>2 DEF Jobs
<1>4. PICK doc \in Documents(stage, j.number, j.plan) : object' = [object EXCEPT ![stage] = doc]
  BY <1>1 DEF PublishOutput
<1>5. stage \in Kinds /\ stage # "raw"
  BY DEF Stages, Kinds
<1>6. /\ doc \in Papers /\ doc.id <= j.number /\ doc.refs = j.plan
      /\ doc.defect \in Defects(stage) \union {"none"}
  BY <1>3, <1>5, DocumentsTyped
<1>7. PICK k : k = [j EXCEPT !.published = TRUE]
  OBVIOUS
<1>8. k \in Jobs /\ k.published /\ k.number = j.number /\ k.plan = j.plan
  BY <1>2, <1>7 DEF Jobs
<1>9. job' = [job EXCEPT ![stage] = k]
  BY <1>1, <1>7 DEF PublishOutput
<1>10. UNCHANGED <<runVars, candidate, source, deletions>> /\ state \in Evaluated
  BY DEF PublishOutput, Watched
<1>11. UNCHANGED <<state, reservation, publication, participates>>
  BY <1>10 DEF runVars
<1>12. \A kind \in Kinds : object'[kind] = IF kind = stage THEN doc ELSE object[kind]
  BY <1>4 DEF EvidenceInv, SharedInv, Typed
<1>13. \A s \in Stages : job'[s] = IF s = stage THEN k ELSE job[s]
  BY <1>9 DEF EvidenceInv, SharedInv, Typed
<1>14. Typed'
  BY <1>4, <1>6, <1>8, <1>9, <1>10, <1>11 DEF EvidenceInv, SharedInv, Typed
<1>15. k # None /\ deletions \in Nat
  BY <1>8, NoneIsNoRecord DEF EvidenceInv, SharedInv, Typed
<1>16. doc.id <= Bound(stage, deletions)
  <2>1. doc.id \in Nat
    BY <1>6 DEF Papers
  <2>2. QED BY <1>2, <1>3, <1>5, <1>6, <1>15, <2>1, SMTT(30) DEF Bound
<1>17. \A s \in Stages : s \in Kinds
  BY DEF Stages, Kinds
<1>18. WorldInv'
  BY <1>2, <1>6, <1>8, <1>10, <1>12, <1>13, <1>15, <1>16, <1>17
     DEF EvidenceInv, SharedInv, WorldInv
<1>19. deletions = 0 => object[stage] = None
  BY <1>1, <1>2 DEF EvidenceInv, SharedInv, WorldInv
<1>20. deletions <= deletions'
  BY <1>10, <1>15, SMTT(30)
<1>21. \A kind \in Kinds : object[kind] # None /\ (kind = "raw" \/ deletions' = 0) =>
          object'[kind] = object[kind]
  BY <1>5, <1>10, <1>12, <1>19
<1>22. QED BY <1>10, <1>14, <1>18, <1>20, <1>21, WorldMoved

\* A Job that ends keeps its number, its plan and its output.
LEMMA EndJobKeeps ==
    ASSUME EvidenceInv, NEW stage \in Stages, NEW phase \in {"succeeded", "failed"},
           EndJob(stage, phase)
    PROVE  EvidenceInv'
<1>1. PICK j : j = job[stage]
  OBVIOUS
<1>2. j \in Jobs
  BY <1>1 DEF EndJob, EvidenceInv, SharedInv, Typed
<1>3. PICK k : k = [j EXCEPT !.phase = phase]
  OBVIOUS
<1>4. k \in Jobs /\ k.published = j.published /\ k.number = j.number /\ k.plan = j.plan
  BY <1>2, <1>3 DEF Jobs
<1>5. job' = [job EXCEPT ![stage] = k]
  BY <1>1, <1>3 DEF EndJob
<1>6. UNCHANGED <<runVars, candidate, object, source, deletions>> /\ state \in Evaluated
  BY DEF EndJob, Watched
<1>7. UNCHANGED <<state, reservation, publication, participates>>
  BY <1>6 DEF runVars
<1>8. \A s \in Stages : job'[s] = IF s = stage THEN k ELSE job[s]
  BY <1>5 DEF EvidenceInv, SharedInv, Typed
<1>9. Typed'
  BY <1>4, <1>5, <1>6, <1>7 DEF EvidenceInv, SharedInv, Typed
<1>10. k # None /\ j # None
  BY <1>2, <1>4, NoneIsNoRecord
<1>11. WorldInv'
  BY <1>1, <1>4, <1>6, <1>8, <1>10 DEF EvidenceInv, SharedInv, WorldInv
<1>12. deletions <= deletions'
  BY <1>6, SMTT(30) DEF EvidenceInv, SharedInv, Typed
<1>13. QED BY <1>6, <1>9, <1>11, <1>12, WorldMoved

\* After a deletion the next Job has a new number.
LEMMA DeleteJobKeeps ==
    ASSUME EvidenceInv, NEW stage \in Stages, DeleteJob(stage)
    PROVE  EvidenceInv'
<1>1. /\ UNCHANGED <<runVars, candidate, object, source>> /\ state \in Evaluated
      /\ job' = [job EXCEPT ![stage] = None] /\ deletions' = deletions + 1
  BY DEF DeleteJob, Watched
<1>2. UNCHANGED <<state, reservation, publication, participates>>
  BY <1>1 DEF runVars
<1>3. deletions \in Nat /\ deletions' \in Nat /\ deletions' # 0 /\ deletions <= deletions'
  BY <1>1, SMTT(30) DEF EvidenceInv, SharedInv, Typed
<1>4. Typed'
  BY <1>1, <1>2, <1>3 DEF EvidenceInv, SharedInv, Typed
<1>5. \A s \in Stages : job'[s] # None => job'[s] = job[s] /\ job[s] \in Jobs
  BY <1>1 DEF EvidenceInv, SharedInv, Typed
<1>6. \A s \in Stages : job'[s] # None => job'[s].number <= deletions' + 1
  BY <1>1, <1>3, <1>5, SMTT(30) DEF EvidenceInv, SharedInv, WorldInv, Jobs
<1>7. \A kind \in Kinds : object[kind] # None => object[kind] \in Papers
  BY DEF EvidenceInv, SharedInv, Typed
<1>8. \A kind \in Kinds : object'[kind] # None => object'[kind].id <= Bound(kind, deletions')
  <2> SUFFICES ASSUME NEW kind \in Kinds, object[kind] # None
               PROVE  object[kind].id <= Bound(kind, deletions')
    BY <1>1
  <2>1. object[kind].id \in Nat /\ object[kind].id <= Bound(kind, deletions)
    BY <1>7 DEF EvidenceInv, SharedInv, WorldInv, Papers
  <2>2. QED BY <1>3, <2>1, SMTT(30) DEF Bound
<1>9. WorldInv'
  BY <1>1, <1>3, <1>6, <1>8 DEF EvidenceInv, SharedInv, WorldInv
<1>10. QED BY <1>1, <1>3, <1>4, <1>9, WorldMoved

\* A baseline is made of a completed Run. (CreateBaseline.)
LEMMA CreateBaselineKeeps ==
    ASSUME EvidenceInv, NEW doc, CreateBaseline(doc)
    PROVE  EvidenceInv'
<1>1. /\ UNCHANGED <<state, at, registered, reservation, publication, participates>>
      /\ UNCHANGED <<object, source, job, baseline, deletions>>
      /\ state = "COMPLETED" /\ doc \in Of("normalized") /\ candidate' = doc
  BY DEF CreateBaseline, runVars
<1>2. \A kind : Of(kind)' = Of(kind)
  BY <1>1, OfUnchanged
<1>3. Typed'
  BY <1>1 DEF EvidenceInv, SharedInv, Typed
<1>4. RegistryInv'
  BY <1>1, <1>2 DEF EvidenceInv, SharedInv, RegistryInv
<1>5. RawComplete' <=> RawComplete
  BY <1>2 DEF RawComplete
<1>6. StageInv'
  BY <1>1, <1>2, <1>5 DEF EvidenceInv, SharedInv, StageInv
<1>7. PublishedInv'
  BY <1>1, <1>2 DEF EvidenceInv, SharedInv, PublishedInv
<1>8. WorldInv'
  BY <1>1 DEF EvidenceInv, SharedInv, WorldInv
<1>9. LagIsNotFailure'
  BY <1>1 DEF LagIsNotFailure
<1>10. Grows
  BY <1>1, <1>2, SMTT(30) DEF Grows, EvidenceInv, SharedInv, Typed
<1>11. AttemptsInv'
  BY <1>1, <1>10, AttemptsKept DEF EvidenceInv, SharedInv
<1>12. QED BY <1>3, <1>4, <1>6, <1>7, <1>8, <1>9, <1>11 DEF EvidenceInv, SharedInv

\* A decision on the selected baseline is made while the Run is reported.
LEMMA TransitionBaselineKeeps ==
    ASSUME EvidenceInv, NEW to, TransitionBaseline(to)
    PROVE  EvidenceInv'
<1>1. UNCHANGED <<runVars, candidate, object, source, job, deletions>> /\ state \in Evaluated
  BY DEF TransitionBaseline, Evaluated
<1>2. UNCHANGED <<state, reservation, publication, participates>>
  BY <1>1 DEF runVars
<1>3. Typed'
  BY <1>1, <1>2 DEF EvidenceInv, SharedInv, Typed
<1>4. WorldInv'
  BY <1>1 DEF EvidenceInv, SharedInv, WorldInv
<1>5. deletions <= deletions'
  BY <1>1, SMTT(30) DEF EvidenceInv, SharedInv, Typed
<1>6. QED BY <1>1, <1>3, <1>4, <1>5, WorldMoved

\* A Run that is cancelled is neither completed nor failed.
LEMMA CancelKeeps ==
    ASSUME EvidenceInv, Cancel
    PROVE  EvidenceInv'
<1>1. /\ UNCHANGED <<registered, reservation, publication, storeVars>> /\ at' = at
      /\ state' = "CANCELLING" /\ state \in Evaluated
  BY DEF Cancel
<1>2. candidate' = None
  BY <1>1 DEF storeVars, EvidenceInv, SharedInv, StageInv, Evaluated
<1>3. StageInv' /\ state' \notin Failures
  BY <1>1, <1>2 DEF StageInv, Failures
<1>4. SharedInv' /\ Grows
  BY <1>1, <1>3, Moved DEF EvidenceInv
<1>5. AttemptsInv'
  BY <1>1, <1>4, AttemptsKept DEF EvidenceInv, SharedInv
<1>6. QED BY <1>4, <1>5 DEF EvidenceInv

-----------------------------------------------------------------------------
(* The theorems *)

\* The invariant holds when the Run enters COLLECTING.
LEMMA EvidenceStart == EvidenceInit => EvidenceInv
<1> SUFFICES ASSUME EvidenceInit PROVE EvidenceInv
  OBVIOUS
<1>1. \A kind : Of(kind) = {}
  BY DEF EvidenceInit, Of
<1>2. Typed
  BY DEF EvidenceInit, Typed, Evaluated
<1>3. RegistryInv
  BY <1>1 DEF RegistryInv
<1>4. StageInv
  BY DEF EvidenceInit, StageInv
<1>5. PublishedInv
  BY DEF EvidenceInit, PublishedInv
<1>6. WorldInv
  <2>1. /\ \A stage \in Stages : job[stage] = None /\ stage \in Kinds
        /\ \A kind \in Kinds : object[kind] = None
    BY DEF EvidenceInit, Stages, Kinds
  <2>2. QED BY <2>1 DEF WorldInv
<1>7. LagIsNotFailure
  BY DEF EvidenceInit, LagIsNotFailure
<1>8. AttemptsInv
  BY DEF EvidenceInit, AttemptsInv
<1>9. QED BY <1>2, <1>3, <1>4, <1>5, <1>6, <1>7, <1>8 DEF EvidenceInv, SharedInv

\* Every step of the workers, the cluster, the administrators and the owner keeps it.
LEMMA EvidenceStep == EvidenceInv /\ [EvidenceNext]_evidenceVars => EvidenceInv'
<1> SUFFICES ASSUME EvidenceInv, [EvidenceNext]_evidenceVars PROVE EvidenceInv'
  OBVIOUS
<1>1. ASSUME NEW w \in Workers, Claim(w) \/ TakeOver(w) PROVE EvidenceInv'
  BY <1>1, StartKeeps DEF Claim, TakeOver
<1>2. ASSUME NEW w \in Workers, GiveUp(w) PROVE EvidenceInv'
  BY <1>2, Stopped DEF GiveUp, Stop
<1>3. ASSUME NEW w \in Workers, Work(w) PROVE EvidenceInv'
  BY <1>3, InspectKeeps, VerifyKeeps, CollectSourceKeeps, RegisterKeeps, AdvanceKeeps,
     ListKeeps, EnsureJobKeeps, ResolveEventKeeps, RetainKeeps DEF Work
<1>4. CASE PublishRaw
  BY <1>4, PublishRawKeeps
<1>5. ASSUME NEW stage \in Stages, PublishOutput(stage) PROVE EvidenceInv'
  BY <1>5, PublishOutputKeeps
<1>6. ASSUME NEW stage \in Stages, DeleteJob(stage) PROVE EvidenceInv'
  BY <1>6, DeleteJobKeeps
<1>7. ASSUME NEW stage \in Stages, NEW phase \in {"succeeded", "failed"}, EndJob(stage, phase)
      PROVE  EvidenceInv'
  BY <1>7, EndJobKeeps
<1>8. ASSUME NEW doc, CreateBaseline(doc) PROVE EvidenceInv'
  BY <1>8, CreateBaselineKeeps
<1>9. ASSUME NEW to, TransitionBaseline(to) PROVE EvidenceInv'
  BY <1>9, TransitionBaselineKeeps
<1>10. CASE Cancel
  BY <1>10, CancelKeeps
<1>11. CASE UNCHANGED evidenceVars
  <2>1. UNCHANGED <<state, registered, reservation, publication, storeVars>> /\ at' = at
    BY <1>11 DEF evidenceVars
  <2>2. SharedInv' /\ Grows
    BY <2>1, SharedKept DEF EvidenceInv
  <2>3. AttemptsInv'
    BY <2>1, <2>2, AttemptsKept DEF EvidenceInv, SharedInv
  <2>4. QED BY <2>2, <2>3 DEF EvidenceInv
<1>12. ASSUME NEW i \in Sources, NEW as \in {"intact", "damaged"}, PublishSource(i, as)
       PROVE  EvidenceInv'
  BY <1>12, PublishSourceKeeps
<1>13. QED
  BY <1>1, <1>2, <1>3, <1>4, <1>5, <1>6, <1>7, <1>8, <1>9, <1>10, <1>11, <1>12
     DEF EvidenceNext

\* Whoever works on the Run, and whoever deletes its Jobs, the registry, the objects, the Jobs
\* and the attempts fit together. (internal/reconcile.)
THEOREM EvidenceInvariant == EvidenceSpec => []EvidenceInv
<1>1. QED BY EvidenceStart, EvidenceStep, PTL DEF EvidenceSpec

\* A Run that is completed has its evidence, approved and published. (Reconcile of the three
\* stages, PublishReport, CreateBaseline.)
THEOREM CompletedRunsArePublished == EvidenceSpec => []CompletedMeansPublished
<1>1. EvidenceInv => CompletedMeansPublished
  <2> SUFFICES ASSUME EvidenceInv, state = "COMPLETED" \/ candidate # None
               PROVE  /\ \A i \in Sources :
                            [id |-> i] \in Of("source") /\ source[i] = "intact"
                      /\ \A kind \in Kinds :
                            Of(kind) # {} /\ \A doc \in Of(kind) : doc.defect = "none"
                      /\ participates =>
                            /\ publication # None /\ publication = reservation
                            /\ \E doc \in Of("report") : publication.report = doc.id
                      /\ candidate # None => candidate \in Of("normalized")
    BY DEF CompletedMeansPublished
  <2>1. state = "COMPLETED" /\ RawComplete
    BY DEF EvidenceInv, SharedInv, StageInv
  <2>2. \A kind \in Kinds : Of(kind) # {}
    BY <2>1 DEF EvidenceInv, SharedInv, StageInv, RawComplete, Kinds
  <2>3. \A kind \in Kinds : \A doc \in Of(kind) : doc.defect = "none"
    BY DEF EvidenceInv, SharedInv, RegistryInv
  <2>4. participates => /\ publication # None /\ publication = reservation
                        /\ \E doc \in Of("report") : publication.report = doc.id
    BY <2>1 DEF EvidenceInv, SharedInv, StageInv, PublishedInv
  <2>5. candidate # None => candidate \in Of("normalized")
    BY DEF EvidenceInv, SharedInv, StageInv
  <2>6. \A i \in Sources : [id |-> i] \in Of("source") /\ source[i] = "intact"
    BY <2>1 DEF RawComplete, EvidenceInv, SharedInv, RegistryInv
  <2>7. QED BY <2>2, <2>3, <2>4, <2>5, <2>6
<1>2. QED BY <1>1, EvidenceInvariant, PTL

\* Overlapping attempts register no more than the Jobs have written. (ensure,
\* RegisterArtifact.)
THEOREM OutputsAreRegisteredOnce == EvidenceSpec => []OneOfAKind
<1>1. EvidenceInv => OneOfAKind
  <2> SUFFICES ASSUME EvidenceInv PROVE OneOfAKind
    OBVIOUS
  <2>1. deletions \in Nat
    BY DEF EvidenceInv, SharedInv, Typed
  <2>2. ASSUME NEW kind \in Kinds PROVE Cardinality(Of(kind)) <= Bound(kind, deletions)
    <3> DEFINE n == Bound(kind, deletions)
               f == [doc \in Of(kind) |-> doc.id]
    <3>1. n \in Nat
      BY <2>1, SMTT(30) DEF Bound
    <3>2. \A doc \in Of(kind) : doc.id \in Nat \ {0} /\ doc.id <= n
      BY DEF EvidenceInv, SharedInv, RegistryInv, Papers
    <3> HIDE DEF n
    <3>3. f \in [Of(kind) -> 1..n]
      BY <3>1, <3>2, SMTT(30)
    <3>4. \A doc, other \in Of(kind) : f[doc] = f[other] => doc = other
      BY DEF EvidenceInv, SharedInv, RegistryInv
    <3> HIDE DEF f
    <3>5. f \in Injection(Of(kind), 1..n)
      BY <3>3, <3>4 DEF Injection, IsInjective
    <3>6. IsFiniteSet(1..n) /\ Cardinality(1..n) = n
      BY <3>1, FS_Interval, SMTT(30)
    <3>7. Cardinality(Of(kind)) <= n
      BY <3>5, <3>6, FS_Injection, SMTT(30)
    <3>8. QED BY <3>7 DEF n
  <2>3. QED BY <2>2 DEF OneOfAKind, Bound, Kinds, Stages
<1>2. QED BY <1>1, EvidenceInvariant, PTL

\* No interleaving of attempts, and no delay of the storage, fails a Run with which nothing is
\* wrong. (The errors the reconcilers tell apart.)
THEOREM LagNeverFailsARun == EvidenceSpec => []LagIsNotFailure
<1>1. EvidenceInv => LagIsNotFailure
  BY DEF EvidenceInv, SharedInv
<1>2. QED BY <1>1, EvidenceInvariant, PTL

-----------------------------------------------------------------------------
(* What the evaluation does to a Run and never takes back *)

\* The pinned lifecycle; the evaluation has no part in the revision cap.
Table == INSTANCE Lifecycle WITH MaxRevision <- 10

\* Each write of the Run's state takes one transition of the pinned table, although the
\* reconcilers choose it from the state they claimed and others move the Run meanwhile.
\* (The AdvanceOwnedRun calls of the three reconcilers, and cancellation.)
MovesAlongTheTable == [][Table!CanTransition(state, state')]_state

\* What was registered, reserved, published or made a baseline is never replaced or taken
\* back, by no attempt however late. (RegisterArtifact, ReserveAnalysisPublicationEvent,
\* RetainAnalysisPublication, CreateBaseline.)
NothingIsTakenBack ==
    [][/\ registered \subseteq registered'
       /\ reservation # None => reservation' = reservation
       /\ publication # None => publication' = publication
       /\ candidate # None => candidate' = candidate]_evidenceVars

\* The transitions of the three stages are in the table. (transitions.json.)
LEMMA StageTransitions ==
    \A s \in Evaluated :
        /\ Table!CanTransition(s, Following(s)) /\ Table!CanTransition(s, Failure(s))
        /\ Table!CanTransition(s, "INFRASTRUCTURE_FAILURE")
        /\ Table!CanTransition(s, "CANCELLING")
BY SMTT(30) DEF Table!CanTransition, Evaluated, Following, Failure

\* A fenced write of an attempt moves the Run from the state it was claimed in.
\* (advanceOwnedClaim.)
LEMMA FencedMove ==
    ASSUME EvidenceInv, NEW w \in Workers, ~Idle(w), NEW to, AdvanceOwned(w, to),
           to \in {Following(at[w].state), Failure(at[w].state), "INFRASTRUCTURE_FAILURE"}
    PROVE  state' = state \/ Table!CanTransition(state, state')
<1>1. at[w].state \in Evaluated
  BY AttemptFields DEF EvidenceInv, AttemptsInv, Idle
<1>2. Table!CanTransition(at[w].state, to)
  BY <1>1, StageTransitions
<1>3. CASE holder = w /\ state = at[w].state
  <2>1. state' = to /\ state = at[w].state BY <1>3 DEF AdvanceOwned
  <2>2. QED BY <1>2, <2>1
<1>4. CASE ~(holder = w /\ state = at[w].state)
  BY <1>4 DEF AdvanceOwned
<1>5. QED BY <1>3, <1>4

\* What an attempt does to the Run when it finds or makes the Job of its stage.
\* (stageJobDispatcher.ensure and its callers.)
LEMMA EnsureJobWrites ==
    ASSUME EvidenceInv, NEW w \in Workers, EnsureJob(w)
    PROVE  state' = state \/ AdvanceOwned(w, "INFRASTRUCTURE_FAILURE")
<1>1. PICK a : a = at[w]
  OBVIOUS
<1>2. a \in Attempts /\ a.state \in {"ANALYZING", "REPORTING"}
  <2>1. a \in Attempts /\ a.pc = "ensure" /\ Relies(a)
    BY <1>1 DEF EnsureJob, At, Idle, EvidenceInv, AttemptsInv
  <2>2. QED BY <2>1, AttemptFields DEF Relies, Evaluated
<1>3. PICK stage \in Stages : stage = Wanted(a.state)
  BY <1>2 DEF Wanted, Stages
<1>4. CASE CreatedFor(a.plan, stage)
  BY <1>1, <1>3, <1>4 DEF EnsureJob
<1>5. CASE ~CreatedFor(a.plan, stage)
  <2>1. job[stage] \in Jobs
    BY <1>5 DEF CreatedFor, EvidenceInv, SharedInv, Typed
  <2>2. job[stage].phase \in {"active", "succeeded", "failed"}
    BY <2>1 DEF Jobs
  <2>3. CASE ~matches(a.plan, stage) \/ job[stage].phase = "active"
    BY <1>1, <1>3, <1>5, <2>3 DEF EnsureJob
  <2>4. CASE matches(a.plan, stage) /\ job[stage].phase = "failed"
    BY <1>1, <1>3, <1>5, <2>4 DEF EnsureJob
  <2>5. CASE matches(a.plan, stage) /\ job[stage].phase = "succeeded"
    BY <1>1, <1>3, <1>5, <2>5 DEF EnsureJob
  <2>6. QED BY <2>2, <2>3, <2>4, <2>5
<1>6. QED BY <1>4, <1>5

\* The steps of an attempt move the Run along the table, or not at all. (Reconcile of the
\* three stages.)
LEMMA WorkMoves ==
    ASSUME EvidenceInv, NEW w \in Workers, Work(w)
    PROVE  state' = state \/ Table!CanTransition(state, state')
<1>1. CASE Inspect(w)
  BY <1>1 DEF Inspect, Missing, Retry
<1>2. CASE Verify(w)
  BY <1>2, FencedMove DEF Verify, Finish, At
<1>3. CASE Register(w) \/ List(w)
  BY <1>3 DEF Register, List
<1>4. CASE Advance(w)
  BY <1>4, FencedMove DEF Advance, Finish, At
<1>5. CASE EnsureJob(w)
  <2>1. ~Idle(w) BY <1>5 DEF EnsureJob, At
  <2>2. state' = state \/ AdvanceOwned(w, "INFRASTRUCTURE_FAILURE")
    BY <1>5, EnsureJobWrites
  <2>3. QED BY <2>1, <2>2, FencedMove
<1>6. CASE ResolveEvent(w) \/ Retain(w)
  BY <1>6 DEF ResolveEvent, Retain
<1>7. CASE CollectSource(w)
  <2>1. PICK a : a = at[w]
    OBVIOUS
  <2>2. a \in Attempts /\ a.pc = "sources" /\ Relies(a)
    BY <1>7, <2>1 DEF CollectSource, At, Idle, EvidenceInv, AttemptsInv, Relies
  <2>3. PICK i \in Sources : i = a.next
    BY <2>2 DEF Relies
  <2>4. source[i] \in {"absent", "intact", "damaged"}
    BY DEF EvidenceInv, SharedInv, Typed
  <2>5. CASE source[i] = "damaged"
    BY <1>7, <2>1, <2>3, <2>5, FencedMove DEF CollectSource, Finish, At
  <2>6. CASE source[i] # "damaged"
    BY <1>7, <2>1, <2>3, <2>4, <2>6 DEF CollectSource, Missing, Retry
  <2>7. QED BY <2>5, <2>6
<1>8. QED BY <1>1, <1>2, <1>3, <1>4, <1>5, <1>6, <1>7 DEF Work

\* However attempts overlap, the Run follows the pinned table.
THEOREM EvaluationFollowsTheLifecycle == EvidenceSpec => MovesAlongTheTable
<1>1. ASSUME EvidenceInv, [EvidenceNext]_evidenceVars
      PROVE  [Table!CanTransition(state, state')]_state
  <2>1. ASSUME NEW w \in Workers, Claim(w) \/ TakeOver(w) \/ GiveUp(w) PROVE state' = state
    BY <2>1 DEF Claim, TakeOver, Start, GiveUp
  <2>2. ASSUME NEW w \in Workers, Work(w) PROVE state' = state \/ Table!CanTransition(state, state')
    BY <1>1, <2>2, WorkMoves
  <2>3. CASE PublishRaw \/ \E i \in Sources, as \in {"intact", "damaged"} : PublishSource(i, as)
    BY <2>3 DEF PublishRaw, PublishSource, runVars
  <2>4. ASSUME NEW stage \in Stages,
               \/ PublishOutput(stage) \/ DeleteJob(stage)
               \/ \E phase \in {"succeeded", "failed"} : EndJob(stage, phase)
        PROVE  state' = state
    BY <2>4 DEF PublishOutput, DeleteJob, EndJob, runVars
  <2>5. ASSUME NEW doc, CreateBaseline(doc) PROVE state' = state
    BY <2>5 DEF CreateBaseline, runVars
  <2>6. ASSUME NEW to, TransitionBaseline(to) PROVE state' = state
    BY <2>6 DEF TransitionBaseline, runVars
  <2>7. CASE Cancel
    BY <2>7, StageTransitions DEF Cancel
  <2>8. CASE UNCHANGED evidenceVars
    BY <2>8 DEF evidenceVars
  <2>9. QED BY <1>1, <2>1, <2>2, <2>3, <2>4, <2>5, <2>6, <2>7, <2>8 DEF EvidenceNext
<1>2. QED BY <1>1, EvidenceInvariant, PTL DEF EvidenceSpec, MovesAlongTheTable

\* Stale attempts add to the evidence, and take nothing of it back.
THEOREM EvidenceIsNeverTakenBack == EvidenceSpec => NothingIsTakenBack
<1> DEFINE Kept == /\ registered \subseteq registered'
                   /\ reservation # None => reservation' = reservation
                   /\ publication # None => publication' = publication
                   /\ candidate # None => candidate' = candidate
<1>1. ASSUME EvidenceNext PROVE Kept
  <2>1. ASSUME NEW w \in Workers, Claim(w) \/ TakeOver(w) \/ GiveUp(w) PROVE Kept
    BY <2>1 DEF Claim, TakeOver, Start, GiveUp, storeVars
  <2>2. ASSUME NEW w \in Workers, Inspect(w) \/ Verify(w) \/ CollectSource(w) \/ Advance(w) \/ List(w)
        PROVE  Kept
    BY <2>2 DEF Inspect, Missing, Retry, Verify, CollectSource, Advance, List, Finish, storeVars
  <2>3. ASSUME NEW w \in Workers, Register(w) PROVE Kept
    BY <2>3 DEF Register, storeVars
  <2>4. ASSUME NEW w \in Workers, EnsureJob(w) PROVE Kept
    BY <2>4 DEF EnsureJob
  <2>5. ASSUME NEW w \in Workers, ResolveEvent(w) PROVE Kept
    BY <2>5 DEF ResolveEvent, ReserveAnalysisPublicationEvent, storeVars
  <2>6. ASSUME NEW w \in Workers, Retain(w) PROVE Kept
    BY <2>6 DEF Retain, storeVars
  <2>7. CASE PublishRaw \/ \E i \in Sources, as \in {"intact", "damaged"} : PublishSource(i, as)
    BY <2>7 DEF PublishRaw, PublishSource, runVars
  <2>8. ASSUME NEW stage \in Stages,
               \/ PublishOutput(stage) \/ DeleteJob(stage)
               \/ \E phase \in {"succeeded", "failed"} : EndJob(stage, phase)
        PROVE  Kept
    BY <2>8 DEF PublishOutput, DeleteJob, EndJob, runVars
  <2>9. ASSUME NEW doc, CreateBaseline(doc) PROVE Kept
    BY <2>9 DEF CreateBaseline, runVars
  <2>10. ASSUME NEW to, TransitionBaseline(to) PROVE Kept
    BY <2>10 DEF TransitionBaseline, runVars
  <2>11. CASE Cancel
    BY <2>11 DEF Cancel, storeVars
  <2> HIDE DEF Kept
  <2>12. QED
    BY <1>1, <2>1, <2>2, <2>3, <2>4, <2>5, <2>6, <2>7, <2>8, <2>9, <2>10, <2>11
       DEF EvidenceNext, Work
<1>2. QED BY <1>1, PTL DEF EvidenceSpec, NothingIsTakenBack

=============================================================================
