------------------------------ MODULE MockupModels ------------------------------
(***************************************************************************)
(* Which model draws a mockup, and where the mockup goes: the table of     *)
(* models and the transactions that choose the default one, the pipeline   *)
(* each worker process keeps loaded, the upload of what it drew and the    *)
(* row that is saved for it.                                               *)
(***************************************************************************)
EXTENDS Naturals, FiniteSets

CONSTANTS
    Models,      \* rows of ai_models, and the identifiers they name
    BuiltIn,     \* the model that is used when no row is the default
    Changes,     \* transactions that register a model or set the default
    Processes,   \* worker processes
    Mockups,     \* mockups asked for
    Images,      \* what may come out, by its hash
    Parts,       \* parts of a large upload
    Uploads,     \* the ids a multipart upload may be given
    Attempts,    \* requests to the provider of last resort
    MaxFailures, \* bound on loads and requests of an upload that fail, and crashes
    Nothing

ASSUME MockupAssumption ==
    /\ BuiltIn \notin Models
    /\ Nothing \notin Models \union {BuiltIn} \union Mockups \union Images \union Uploads
    /\ IsFiniteSet(Models) /\ IsFiniteSet(Uploads) /\ IsFiniteSet(Parts) /\ Parts # {}
    /\ Attempts \in Nat \ {0} /\ MaxFailures \in Nat

Identifiers == Models \union {BuiltIn}

VARIABLES
    registry,   \* each model: "absent", "plain" or "default"
    change,     \* each transaction: what it does, and the rows it can see
    lastSet,    \* history: the model the last change that found one has set
    proc,       \* each process: where it is, its mockup, its image, the model asked for,
                \* its upload and the parts it has sent
    modelId,    \* what its generator says it has loaded
    pipeline,   \* what it has loaded
    objects,    \* the images in the bucket
    pending,    \* uploads that are neither complete nor aborted
    queued,     \* mockups in the queue
    mockupRows, \* images with a row in generated_mockups
    broken,     \* history: processes whose last load has failed
    leaks,      \* history: uploads whose creation's answer or abort was lost, and
                \* those of processes that died
    failures    \* failures so far, bounded by MaxFailures

registryVars == <<registry, change, lastSet>>
generatorVars == <<modelId, pipeline, broken>>
storeVars == <<objects, pending, leaks>>
mockupVars == <<registryVars, generatorVars, proc, storeVars, queued, mockupRows, failures>>

Existing == {m \in Models : registry[m] # "absent"}
Defaults == {m \in Models : registry[m] = "default"}
Closed == [at |-> "closed", model |-> Nothing, sees |-> {}]
Resting == [at |-> "idle", mockup |-> Nothing, image |-> Nothing, asked |-> Nothing, tries |-> 0,
            upload |-> Nothing, sent |-> {}]

MockupInit ==
    /\ registry = [m \in Models |-> "absent"]
    /\ change = [c \in Changes |-> Closed]
    /\ lastSet = Nothing
    /\ proc = [p \in Processes |-> Resting]
    /\ modelId = [p \in Processes |-> BuiltIn]
    /\ pipeline = [p \in Processes |-> Nothing]
    /\ objects = {} /\ pending = {} /\ queued = {}
    /\ mockupRows = {} /\ broken = {}
    /\ failures = 0 /\ leaks = 0

-----------------------------------------------------------------------------
(***************************************************************************)
(* The default model.  The UPDATE of a transaction sees the rows that were *)
(* committed when it began, waits for their locks and holds them until its *)
(* commit, so it is two steps here: what it sees, and its commit.  Ids are *)
(* not used again, so a model that is registered is a new one.             *)
(***************************************************************************)

registryOnly == <<generatorVars, proc, storeVars, queued, mockupRows, failures>>

BeginChange(c, model, kind) ==
    /\ change[c].at = "closed"
    /\ change' = [change EXCEPT ![c] = [at |-> kind, model |-> model, sees |-> Existing]]
    /\ UNCHANGED <<registry, lastSet, registryOnly>>

\* register_model with is_default, and without.
BeginRegister(c, model) ==
    /\ model \notin Existing /\ \A d \in Changes : change[d].model # model
    /\ BeginChange(c, model, "register")
RegisterPlain(model) ==
    /\ model \notin Existing /\ \A c \in Changes : change[c].model # model
    /\ registry' = [registry EXCEPT ![model] = "plain"]
    /\ UNCHANGED <<change, lastSet, registryOnly>>

\* set_default of a model that is found; any other is answered with 404.
BeginSetDefault(c, model) == model \in Existing /\ BeginChange(c, model, "set")

\* The row a change makes the default, if it is there.
Touched(this) ==
    IF this.at = "register" \/ this.model \in Existing THEN this.model ELSE Nothing

\* The rows it sees are cleared and its model is the default; a model that was
\* removed meanwhile is not there to be updated, one that is new is inserted.
CommitChange(c) ==
    LET this == change[c]
    IN  /\ this.at # "closed"
        /\ registry' = [m \in Models |->
             IF m = Touched(this) THEN "default"
             ELSE IF m \in this.sees \intersect Existing THEN "plain"
             ELSE registry[m]]
        /\ lastSet' = Touched(this)
        /\ change' = [change EXCEPT ![c] = Closed]
        /\ UNCHANGED registryOnly

RemoveModel(model) ==
    /\ model \in Existing
    /\ registry' = [registry EXCEPT ![model] = "absent"]
    /\ lastSet' = IF lastSet = model THEN Nothing ELSE lastSet
    /\ UNCHANGED <<change, registryOnly>>

-----------------------------------------------------------------------------
(***************************************************************************)
(* Drawing.                                                                *)
(***************************************************************************)

Move(p, from, to) == proc[p].at = from /\ proc' = [proc EXCEPT ![p].at = to]

\* The task fails with a MockupError; the process goes on to another.
GiveUp(p) == proc' = [proc EXCEPT ![p] = Resting]

Fail == failures < MaxFailures /\ failures' = failures + 1

\* generate_mockup sends a task for each mockup, and is then refused the answer
\* it asks for, as Celery lets no task wait for others: it fails, they do not.
GenerateMockup(batch) ==
    /\ batch \intersect {proc[p].mockup : p \in Processes} = {}
    /\ queued' = queued \union batch
    /\ UNCHANGED <<registryVars, generatorVars, proc, storeVars, mockupRows, failures>>

Take(p, k) ==
    /\ proc[p].at = "idle" /\ k \in queued
    /\ queued' = queued \ {k}
    /\ proc' = [proc EXCEPT ![p] = [Resting EXCEPT !.at = "load", !.mockup = k]]
    /\ UNCHANGED <<registryVars, generatorVars, storeVars, mockupRows, failures>>

\* A model that is named, whatever its row, or a default one.
Askable == Models \union (IF Defaults = {} THEN {BuiltIn} ELSE Defaults)

Ask(p, model, next) ==
    /\ proc[p].at = "load" /\ model \in Askable
    /\ proc' = [proc EXCEPT ![p].at = next, ![p].asked = model]

\* Slip: any pipeline that is loaded will do.
LoadOnce(p, model) ==
    /\ Ask(p, model, "draw")
    /\ IF pipeline[p] # Nothing THEN UNCHANGED generatorVars
       ELSE /\ modelId' = [modelId EXCEPT ![p] = model]
            /\ pipeline' = [pipeline EXCEPT ![p] = model]
            /\ broken' = broken \ {p}
    /\ UNCHANGED <<registryVars, storeVars, queued, mockupRows, failures>>

\* load: a pipeline is loaded unless there is one and it is said to be the one
\* asked for.
Load(p, model) ==
    /\ Ask(p, model, "draw")
    /\ IF pipeline[p] # Nothing /\ modelId[p] = model THEN UNCHANGED generatorVars
       ELSE /\ modelId' = [modelId EXCEPT ![p] = model]
            /\ pipeline' = [pipeline EXCEPT ![p] = model]
            /\ broken' = broken \ {p}
    /\ UNCHANGED <<registryVars, storeVars, queued, mockupRows, failures>>

\* from_pretrained raises when the identifier is already set, and the pipeline
\* not yet.
LoadFails(p, model) ==
    /\ proc[p].at = "load" /\ model \in Askable
    /\ pipeline[p] = Nothing \/ modelId[p] # model
    /\ GiveUp(p)
    /\ modelId' = [modelId EXCEPT ![p] = model]
    /\ broken' = broken \union {p}
    /\ Fail
    /\ UNCHANGED <<registryVars, pipeline, storeVars, queued, mockupRows>>

\* The pipeline draws the image, or a provider does when it fails; the image is
\* processed, validated, hashed and looked up in the bucket.
Draw(p, image) ==
    /\ proc[p].at = "draw"
    /\ proc' = [proc EXCEPT ![p].at = IF image \in objects THEN "save" ELSE "upload",
                            ![p].image = image]
    /\ UNCHANGED <<registryVars, generatorVars, storeVars, queued, mockupRows, failures>>

\* Slip: one request more than the bound.
FallbackOnce(p) ==
    /\ proc[p].at = "draw"
    /\ IF proc[p].tries + 1 <= Attempts
       THEN proc' = [proc EXCEPT ![p].tries = @ + 1] ELSE GiveUp(p)
    /\ UNCHANGED <<registryVars, generatorVars, storeVars, queued, mockupRows, failures>>

\* A request to the provider fails.
FallbackFails(p) ==
    /\ proc[p].at = "draw"
    /\ IF proc[p].tries + 1 < Attempts
       THEN proc' = [proc EXCEPT ![p].tries = @ + 1] ELSE GiveUp(p)
    /\ UNCHANGED <<registryVars, generatorVars, storeVars, queued, mockupRows, failures>>

\* Any step on the way raises.
TaskRaises(p) ==
    /\ proc[p].at \in {"draw", "upload", "save"} /\ GiveUp(p)
    /\ UNCHANGED <<registryVars, generatorVars, storeVars, queued, mockupRows, failures>>

-----------------------------------------------------------------------------
(***************************************************************************)
(* Uploading.                                                              *)
(***************************************************************************)

uploadOnly == <<registryVars, generatorVars, queued, mockupRows>>

PutObject(p) ==
    /\ Move(p, "upload", "save")
    /\ objects' = objects \union {proc[p].image}
    /\ UNCHANGED <<uploadOnly, pending, leaks, failures>>

\* An id S3 has not given to an upload that is still there, or worked on.
InUse == pending \union {proc[p].upload : p \in Processes}

CreateMultipart(p, u) ==
    /\ proc[p].at = "upload" /\ u \notin InUse
    /\ proc' = [proc EXCEPT ![p].at = "parts", ![p].upload = u]
    /\ pending' = pending \union {u}
    /\ UNCHANGED <<uploadOnly, objects, leaks, failures>>

\* The upload is created and its answer is lost, before there is an id to abort:
\* the task fails, or the S3 client asks for another upload.
CreateLost(p, u) ==
    /\ proc[p].at = "upload" /\ u \notin InUse /\ Fail
    /\ GiveUp(p) \/ UNCHANGED proc
    /\ pending' = pending \union {u} /\ leaks' = leaks + 1
    /\ UNCHANGED <<uploadOnly, objects>>

\* The parts are sent at the same time, and arrive in any order.
UploadPart(p, i) ==
    /\ proc[p].at = "parts" /\ i \notin proc[p].sent
    /\ proc' = [proc EXCEPT ![p].sent = @ \union {i}]
    /\ UNCHANGED <<uploadOnly, objects, pending, leaks, failures>>

\* The first part that fails ends the upload, whatever the others do.
PartFails(p) ==
    /\ proc[p].sent # Parts /\ Move(p, "parts", "abort")
    /\ UNCHANGED <<uploadOnly, objects, pending, leaks, failures>>

\* Slip: the upload is completed with the parts there are.
CompleteEarly(p) ==
    /\ proc[p].at = "parts" /\ proc[p].sent # {}
    /\ pending' = pending \ {proc[p].upload}
    /\ proc' = [proc EXCEPT ![p].at = "save", ![p].upload = Nothing, ![p].sent = {}]
    /\ UNCHANGED <<uploadOnly, objects, leaks, failures>>

Complete(p) ==
    /\ proc[p].at = "parts" /\ proc[p].sent = Parts
    /\ objects' = objects \union {proc[p].image}
    /\ pending' = pending \ {proc[p].upload}
    /\ proc' = [proc EXCEPT ![p].at = "save", ![p].upload = Nothing, ![p].sent = {}]
    /\ UNCHANGED <<uploadOnly, leaks, failures>>

\* Slip: only parts that fail are followed by an abort.
CompleteUnhandled(p) ==
    /\ proc[p].at = "parts" /\ proc[p].sent = Parts /\ GiveUp(p)
    /\ UNCHANGED <<uploadOnly, objects, pending, leaks, failures>>

\* The request to complete raises: it was refused, or only its answer is lost.
CompleteFails(p) ==
    /\ proc[p].sent = Parts /\ Move(p, "parts", "abort")
    /\ \/ UNCHANGED <<objects, pending>>
       \/ /\ objects' = objects \union {proc[p].image}
          /\ pending' = pending \ {proc[p].upload}
    /\ UNCHANGED <<uploadOnly, leaks, failures>>

\* Any of them is followed by an abort, and the task fails ...
Abort(p) ==
    /\ proc[p].at = "abort" /\ GiveUp(p)
    /\ pending' = pending \ {proc[p].upload}
    /\ UNCHANGED <<uploadOnly, objects, leaks, failures>>

\* ... unless the abort fails as well, or the process dies, whose task then goes
\* back to the queue.
AbortFails(p) ==
    /\ proc[p].at = "abort" /\ proc[p].upload \in pending
    /\ GiveUp(p) /\ Fail
    /\ leaks' = leaks + 1
    /\ UNCHANGED <<uploadOnly, objects, pending>>

ProcessDies(p) ==
    /\ proc[p].at # "idle" /\ GiveUp(p) /\ Fail
    /\ queued' = queued \union {proc[p].mockup}
    /\ leaks' = IF proc[p].upload \in pending THEN leaks + 1 ELSE leaks
    /\ modelId' = [modelId EXCEPT ![p] = BuiltIn]
    /\ pipeline' = [pipeline EXCEPT ![p] = Nothing]
    /\ broken' = broken \ {p}
    /\ UNCHANGED <<registryVars, objects, pending, mockupRows>>

\* save_generated_mockup
SaveMockup(p) ==
    /\ proc[p].at = "save" /\ GiveUp(p)
    /\ mockupRows' = mockupRows \union {proc[p].image}
    /\ UNCHANGED <<registryVars, generatorVars, storeVars, queued, failures>>

MockupNext ==
    \/ \E m \in Models :
         \/ \E c \in Changes : BeginRegister(c, m) \/ BeginSetDefault(c, m)
         \/ RegisterPlain(m) \/ RemoveModel(m)
    \/ \E c \in Changes : CommitChange(c)
    \/ \E batch \in SUBSET Mockups \ {{}} : GenerateMockup(batch)
    \/ \E p \in Processes :
         \/ \E k \in Mockups : Take(p, k)
         \/ \E m \in Identifiers : Load(p, m) \/ LoadFails(p, m)
         \/ (\E x \in Images : Draw(p, x)) \/ FallbackFails(p) \/ TaskRaises(p)
         \/ PutObject(p) \/ \E u \in Uploads : CreateMultipart(p, u) \/ CreateLost(p, u)
         \/ (\E i \in Parts : UploadPart(p, i)) \/ PartFails(p) \/ Complete(p) \/ CompleteFails(p)
         \/ Abort(p) \/ AbortFails(p) \/ ProcessDies(p) \/ SaveMockup(p)

MockupSpec == MockupInit /\ [][MockupNext]_mockupVars

-----------------------------------------------------------------------------
(***************************************************************************)
(* What a mockup is worth.                                                 *)
(***************************************************************************)

MockupTypeOK ==
    /\ registry \in [Models -> {"absent", "plain", "default"}]
    /\ change \in [Changes -> [at : {"closed", "register", "set"},
                               model : Models \union {Nothing}, sees : SUBSET Models]]
    /\ lastSet \in Models \union {Nothing}
    /\ proc \in [Processes -> [at : {"idle", "load", "draw", "upload", "parts", "abort", "save"},
                               mockup : Mockups \union {Nothing}, image : Images \union {Nothing},
                               asked : Identifiers \union {Nothing}, tries : 0 .. Attempts - 1,
                               upload : Uploads \union {Nothing}, sent : SUBSET Parts]]
    /\ modelId \in [Processes -> Identifiers]
    /\ pipeline \in [Processes -> Identifiers \union {Nothing}]
    /\ objects \subseteq Images /\ pending \subseteq Uploads /\ queued \subseteq Mockups
    /\ mockupRows \subseteq Images /\ broken \subseteq Processes
    /\ failures \in 0 .. MaxFailures /\ leaks \in 0 .. MaxFailures

\* The model that was made the default last is a default one as long as it is
\* there, whichever transactions overlapped.
LastDefaultStands == lastSet \in Existing => registry[lastSet] = "default"

\* A row points to an object that is complete in the bucket, though parts fail
\* and arrive in any order, and the process may die and the task come again.
RowsStored == mockupRows \subseteq objects

\* An upload that is neither complete nor aborted, and that nobody is working on, is
\* one whose creation's answer or whose abort was lost, or whose process died: there
\* are no more of them than there were such failures, whatever else fails and
\* however often a mockup is tried again.
PartsAccounted == Cardinality(pending \ {proc[p].upload : p \in Processes}) <= leaks

\* The pipeline that draws is the one the task asked for, whichever the tasks
\* before it asked for, unless its last load has failed.
RightModel ==
    \A p \in Processes \ broken :
        proc[p].asked # Nothing => pipeline[p] = proc[p].asked

\* However transactions overlap, the default that was chosen last stands, and a
\* process whose last load did not fail draws with the model its task asked for.
ModelsRight == LastDefaultStands /\ RightModel

\* A row leads to a whole object, and an upload that was begun and left is one whose
\* creation's answer or whose abort was lost, or whose process died.
UploadsAccounted == RowsStored /\ PartsAccounted
=============================================================================
