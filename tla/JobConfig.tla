------------------------------ MODULE JobConfig -------------------------------
(***************************************************************************)
(* The job an example submits (recipes/utils.py: build_job, make_config    *)
(* and make_distillation_config), from a model catalog, layers of          *)
(* overrides and the command line's settings; and the inference job that   *)
(* later serves its checkpoint (inference_job_args).  A job is a function  *)
(* from the types of its sub-jobs to their settings; a setting that is not *)
(* in the domain is not in the JSON object.                                *)
(***************************************************************************)
EXTENDS Integers, Sequences, FiniteSets

CONSTANTS Null,      \* JSON null
          Models,    \* those named anywhere
          Listed,    \* of them, those the catalog has a folder of
          Moe,       \* of them, those with an MoE geometry, in model.json or in their own config
          Contexts, Hardware,
          Files,     \* catalog file |-> its one sub-job's settings
          Layers,    \* bound: overrides that are tried
          MaxLayers, \* bound: of them on one command line (elsewhere one)
          Windows    \* bound: values of the command line's max_seq_len

Keys == [model : Models, context : Contexts, hardware : Hardware, lora : BOOLEAN]
KnownKeys == {file.key : file \in DOMAIN Files}
File(key, kind) == [key |-> key, kind |-> kind]
TypeOf(kind) == IF kind = "training" THEN "training" ELSE "sampling"
Needed == [training |-> {"training"}, inference |-> {"sampling"}, rl |-> {"training", "sampling"}]

JobConfigAssumption ==
    /\ Moe \subseteq Models /\ Listed \subseteq Models
    /\ \A file \in DOMAIN Files : file.key \in Keys /\ file.key.model \in Listed
    /\ MaxLayers \in Nat /\ Windows \subseteq Nat \ {0}

VARIABLES ask,    \* what was asked for
          body,   \* the job, so far
          left,   \* the layers that are still to be applied
          at,     \* where the build is; "refused" is a ValueError or a FileNotFoundError
          given,  \* history: the files' own settings
          again,  \* the record of the job is built from, with job_config=
          serve   \* the arguments of the follow-up inference command

vars == <<ask, body, left, at, given, again, serve>>

LayerSeqs(n) == UNION {[1..m -> Layers] : m \in 0..n}
Unset == 0
Nothing == [t \in {} |-> 0]
NoServe == [said |-> "nothing", context |-> Null, wanted |-> Null]

(* by: build_job from the catalog, make_config with two explicit files     *)
(* (replay is its router_replay=), make_distillation_config, or job_config *)
(* naming a catalog file.                                                  *)
Asks ==
    [by : {"catalog"}, kind : {"training", "inference", "rl"}, key : KnownKeys, layers : LayerSeqs(MaxLayers),
     window : Windows \cup {Unset}, replay : {FALSE}, other : {Null}, teacher : {Unset}]
    \cup [by : {"files"}, kind : {"rl"}, key : KnownKeys, layers : LayerSeqs(1),
          window : {Unset}, replay : BOOLEAN, other : KnownKeys, teacher : {Unset}]
    \cup [by : {"distillation"}, kind : {"rl"}, key : KnownKeys, layers : LayerSeqs(1),
          window : Windows \cup {Unset}, replay : {FALSE}, other : KnownKeys, teacher : Windows \cup {Unset}]
    \cup [by : {"job_config"}, kind : {"training", "inference", "rl"}, key : KnownKeys, layers : {<<>>},
          window : Windows \cup {Unset}, replay : {FALSE}, other : {"training", "inference"}, teacher : {Unset}]

-----------------------------------------------------------------------------
(* merge_job_config: objects merge key by key, null removes a key.          *)
Merge(base, over) ==
    [k \in {k \in (DOMAIN base) \cup (DOMAIN over) : k \in DOMAIN over => over[k] # Null} |->
        IF k \in DOMAIN over THEN over[k] ELSE base[k]]
Of(settings, k, default) == IF k \in DOMAIN settings THEN settings[k] ELSE default
\* Mutant: the replay settings of the later layer take the place of the earlier ones whole.
MergeSubJobWhole(base, over) == Merge(base, over)

MergeSubJob(base, over) ==
    IF Of(over, "replay", Null) = Null THEN Merge(base, over)
    ELSE Merge(base, [over EXCEPT !.replay = Merge(Of(base, "replay", Nothing), over.replay)])

(* _settings_override, for the types of the job. *)
SettingsLayer(types, window) ==
    IF window = Unset THEN Nothing ELSE [t \in types |-> [window |-> window]]

Refuse == at' = "refused" /\ UNCHANGED <<ask, body, left, given, again, serve>>
Load(job) ==
    /\ body' = job /\ given' = job /\ at' = "merge"
    /\ left' = ask.layers \o <<SettingsLayer(Needed[ask.kind], ask.window)>>
    /\ UNCHANGED <<ask, again, serve>>

(* The files of the catalog, or the two explicit ones; both RL files name   *)
(* the same hardware (_combine_rl_job).                                     *)
InferenceKey == IF ask.by = "files" THEN ask.other ELSE ask.key
FilesNeeded ==
    (IF "training" \in Needed[ask.kind] THEN {File(ask.key, "training")} ELSE {})
    \cup (IF "sampling" \in Needed[ask.kind] THEN {File(InferenceKey, "inference")} ELSE {})
Compose ==
    /\ at = "source" /\ ask.by # "job_config"
    /\ IF FilesNeeded \subseteq DOMAIN Files
            /\ (ask.by # "files" \/ ask.other.hardware = ask.key.hardware)
       THEN Load([t \in Needed[ask.kind] |->
                     Files[CHOOSE f \in FilesNeeded : TypeOf(f.kind) = t]])
       ELSE Refuse

(* build_job with job_config=: a file of one side is completed from its     *)
(* sibling for rl; the composition must be the kind's, and one model's.     *)
Named == File(ask.key, ask.other)
Beside == File(ask.key, IF ask.other = "training" THEN "inference" ELSE "training")
FilesRead == {Named} \cup (IF ask.kind = "rl" THEN {Beside} ELSE {})
UseJobConfig ==
    /\ at = "source" /\ ask.by = "job_config"
    /\ LET read == FilesRead \cap DOMAIN Files
       IN  IF Named \in read /\ {TypeOf(f.kind) : f \in read} = Needed[ask.kind]
           THEN Load([t \in Needed[ask.kind] |-> Files[CHOOSE f \in read : TypeOf(f.kind) = t]])
           ELSE Refuse

(* One layer; an entry that matches no sub-job of the job is refused        *)
(* (_merge_sub_jobs).                                                       *)
ApplyLayer ==
    /\ at = "merge" /\ left # <<>>
    /\ IF DOMAIN Head(left) \subseteq DOMAIN body
       THEN /\ body' = [t \in DOMAIN body |->
                           IF t \in DOMAIN Head(left) THEN MergeSubJob(body[t], Head(left)[t]) ELSE body[t]]
            /\ left' = Tail(left) /\ UNCHANGED <<ask, at, given, again, serve>>
       ELSE Refuse

(* _rl_model_name and _check_rl_windows, of the merged job.                 *)
RlAgrees ==
    /\ Of(body.training, "model", Null) \notin {Null}
    /\ body.training.model = Of(body.sampling, "model", Null)
    /\ ~(/\ "window" \in DOMAIN body.training /\ "window" \in DOMAIN body.sampling
         /\ body.sampling.window > body.training.window)
CheckRl ==
    /\ at = "merge" /\ left = <<>>
    /\ IF ask.kind = "rl" /\ ~RlAgrees THEN Refuse
       ELSE /\ at' = (CASE ask.by = "job_config" -> "built"
                        [] ask.by # "job_config" /\ ask.kind = "rl" -> "replay"
                        [] OTHER -> "fit")
            /\ UNCHANGED <<ask, body, left, given, again, serve>>

(* _apply_router_replay_defaults and the branch of make_config around it.   *)
ReplayOf(t) == Of(body[t], "replay", Nothing)
Enabled == {ReplayOf(t).enabled : t \in {t \in DOMAIN body : "enabled" \in DOMAIN ReplayOf(t)}}
Divides(settings, k) == "gpus" \in DOMAIN settings /\ k \in DOMAIN settings => settings.gpus % settings[k] = 0
PlanReplay ==
    IF ask.by = "catalog" THEN body.training.model \in Moe \cap Listed ELSE ask.replay
ReplayRefused ==
    \/ TRUE \in Enabled /\ FALSE \in Enabled
    \/ /\ FALSE \notin Enabled
       /\ \/ body.training.model \notin Moe
          \/ ~Divides(body.training, "sp") \/ ~Divides(body.sampling, "tp")
          \/ "mode" \in DOMAIN ReplayOf("sampling")
Defaults == [training |-> [enabled |-> TRUE, mode |-> "strict", cap |-> "default"],
             sampling |-> [enabled |-> TRUE, cap |-> "default"]]
FillReplay ==
    /\ at = "replay"
    /\ IF (PlanReplay /\ ReplayRefused)
          \/ (~PlanReplay /\ TRUE \in Enabled /\ body.training.model \in Listed \ Moe)
       THEN Refuse
       ELSE /\ body' = (IF PlanReplay /\ FALSE \notin Enabled
                        THEN [t \in DOMAIN body |->
                                 Merge(body[t], [replay |-> Merge(Defaults[t], ReplayOf(t))])]
                        ELSE body)
            /\ at' = "fit" /\ UNCHANGED <<ask, left, given, again, serve>>

(* parallelism_errors and _deepspeed_batch_errors, where the program looks  *)
(* at them; make_distillation_config looks at the first only.               *)
Ranks(settings) == settings.gpus \div Of(settings, "sp", 1)
BatchFits(settings) ==
    "gpus" \in DOMAIN settings =>
        Of(settings, "batch", Ranks(settings)) =
            Of(settings, "micro", 1) * Of(settings, "accumulation", 1) * Ranks(settings)
Fits ==
    "training" \in DOMAIN body =>
        /\ Divides(body.training, "sp") /\ Divides(body.training, "ep")
        /\ ask.by = "catalog" => BatchFits(body.training)
(* The teacher's own job: its full-weights inference file, resized.         *)
TeacherFile == File([ask.other EXCEPT !.lora = FALSE, !.hardware = ask.key.hardware], "inference")
TeacherWindow == IF ask.teacher = Unset THEN Of(Files[TeacherFile], "window", Null) ELSE ask.teacher
TeacherFits ==
    /\ TeacherFile \in DOMAIN Files
    /\ {"window"} \subseteq DOMAIN body.training /\ {"window"} \subseteq DOMAIN body.sampling
    /\ body.training.window = body.sampling.window
    /\ TeacherWindow # Null /\ TeacherWindow > body.training.window
CheckFit ==
    /\ at = "fit"
    /\ IF (ask.by # "files" /\ ~Fits) \/ (ask.by = "distillation" /\ ~TeacherFits) THEN Refuse
       ELSE at' = "built" /\ UNCHANGED <<ask, body, left, given, again, serve>>

(* inference_job_args: of the contexts whose file holds the adapter, the    *)
(* smallest window that covers the training's, else the largest; a context  *)
(* that was asked for goes first.                                           *)
Trained == body.training
ServingFile(model, context, lora) ==
    File([model |-> model, context |-> context, hardware |-> ask.key.hardware, lora |-> lora], "inference")
Fitting ==
    {c \in Contexts :
        LET file == ServingFile(Of(Trained, "model", Null), c, "adapter" \in DOMAIN Trained)
        IN  /\ file \in DOMAIN Files
            /\ Of(Files[file], "adapter", Null) = Of(Trained, "adapter", Null)}
ServingWindow(c) == Of(Files[ServingFile(Trained.model, c, "adapter" \in DOMAIN Trained)], "window", 0)
Covers(c) == ServingWindow(c) >= Of(Trained, "window", 0)
Better(c, d) ==
    IF Covers(c) # Covers(d) THEN Covers(c)
    ELSE IF Covers(c) THEN ServingWindow(c) < ServingWindow(d) ELSE ServingWindow(c) > ServingWindow(d)
Chosen(wanted) ==
    IF wanted \in Fitting THEN wanted
    ELSE CHOOSE c \in Fitting : \A d \in Fitting : ~Better(d, c)
Serve ==
    /\ at = "built" /\ "training" \in DOMAIN body /\ serve.said = "nothing"
    /\ \E wanted \in Contexts \cup {Null} :
        serve' = IF Fitting = {} THEN [said |-> "placeholder", context |-> Null, wanted |-> wanted]
                 ELSE [said |-> "command", context |-> Chosen(wanted), wanted |-> wanted]
    /\ UNCHANGED <<ask, body, left, at, given, again>>

Init ==
    /\ ask \in Asks /\ body = Nothing /\ left = <<>> /\ at = "source"
    /\ given = Nothing /\ again = FALSE /\ serve = NoServe

(* The job that was logged and saved is built from again, with the same     *)
(* settings on the command line.                                            *)
BuildAgain ==
    /\ at = "built" /\ ~again /\ again' = TRUE
    /\ ask' = [ask EXCEPT !.by = "job_config"] /\ given' = body /\ serve' = NoServe
    /\ left' = <<SettingsLayer(Needed[ask.kind], ask.window)>> /\ at' = "merge"
    /\ UNCHANGED body

Next ==
    \/ Compose \/ UseJobConfig \/ ApplyLayer \/ CheckRl \/ FillReplay \/ CheckFit
    \/ Serve \/ BuildAgain
Spec == Init /\ [][Next]_vars

-----------------------------------------------------------------------------
Built == at = "built" /\ ~again
Said == ask.layers \o <<SettingsLayer(Needed[ask.kind], ask.window)>>
Mention(t, k) == {i \in 1..Len(Said) : t \in DOMAIN Said[i] /\ k \in DOMAIN Said[i][t]}
Latest(S) == CHOOSE i \in S : \A j \in S : j <= i
LastWord(t, k) ==
    IF Mention(t, k) = {} THEN Of(given[t], k, Null) ELSE Said[Latest(Mention(t, k))][t][k]
(* Of a key of router_replay; a layer that removes the object removes it.   *)
ReplayMention(t, k) ==
    {i \in Mention(t, "replay") : Said[i][t].replay # Null => k \in DOMAIN Said[i][t].replay}
LastReplayWord(t, k) ==
    IF ReplayMention(t, k) = {} THEN Of(Of(given[t], "replay", Nothing), k, Null)
    ELSE LET said == Said[Latest(ReplayMention(t, k))][t].replay
         IN  IF said = Null THEN Null ELSE said[k]

(* A built job has of each setting what the last layer that says something  *)
(* of it says, a removal included, and beside these only the defaults of    *)
(* router replay, under keys that no layer set.                             *)
LayersHaveTheLastWord ==
    Built =>
        \A t \in DOMAIN body :
            /\ \A k \in {"model", "window", "gpus", "sp", "ep", "tp", "batch", "micro", "accumulation", "adapter"} :
                Of(body[t], k, Null) = LastWord(t, k)
            /\ \A k \in {"enabled", "mode", "cap"} :
                \/ Of(ReplayOf(t), k, Null) = LastReplayWord(t, k)
                \/ LastReplayWord(t, k) = Null /\ ask.kind = "rl" /\ ask.by # "job_config"
                   /\ ReplayOf(t)[k] = Defaults[t][k]

(* Router replay of a model of the catalog runs on both sides of an RL job  *)
(* or on none, and never on a dense model.                                  *)
On(t) == Of(ReplayOf(t), "enabled", FALSE)
ReplayIsWhole ==
    Built /\ ask.by = "catalog" /\ ask.kind = "rl" /\ body.training.model \in Listed =>
        /\ On("training") = On("sampling")
        /\ On("training") => body.training.model \in Moe

(* What is rolled out can be trained on, and what a student makes fits its  *)
(* teacher.                                                                 *)
WindowsNest ==
    Built /\ ask.kind = "rl" =>
        /\ "window" \in DOMAIN body.training /\ "window" \in DOMAIN body.sampling =>
            body.sampling.window <= body.training.window
        /\ ask.by = "distillation" =>
            body.sampling.window = body.training.window /\ body.training.window < TeacherWindow

(* The record of a job builds the same job.                                 *)
RecordsBuildTheSame == again => at # "refused" /\ (at = "built" => body = given)

(* The follow-up command serves the trained model with the trained adapter, *)
(* in a window that covers the training's if one of the files does.         *)
ServedAsTrained ==
    serve.said = "command" =>
        LET file == ServingFile(body.training.model, serve.context, "adapter" \in DOMAIN body.training)
            Holds(c) == ServingFile(body.training.model, c, "adapter" \in DOMAIN body.training)
        IN  /\ file \in DOMAIN Files /\ Files[file].model = body.training.model
            /\ Of(Files[file], "adapter", Null) = Of(body.training, "adapter", Null)
            /\ serve.context # serve.wanted =>
                \A c \in Fitting : Covers(c) => Covers(serve.context) /\ ServingWindow(serve.context) <= ServingWindow(c)

JobsAreAsAsked ==
    LayersHaveTheLastWord /\ ReplayIsWhole /\ WindowsNest /\ RecordsBuildTheSame /\ ServedAsTrained
================================================================================
