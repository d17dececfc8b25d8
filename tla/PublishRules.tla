------------------------------ MODULE PublishRules ------------------------------
(***************************************************************************)
(* The marketplace rules of the publisher, which are read again whenever   *)
(* the file changes: a cache by the time of the change, the registry made  *)
(* of it, and the thread that is told of the changes; and the publishes    *)
(* whose design is checked against the registry, by the request and again  *)
(* by the publish in the background.  Rules are named by the number of the *)
(* save they come from; 0 is the empty file that a save goes through,      *)
(* which has rules for no marketplace.                                     *)
(***************************************************************************)
EXTENDS Naturals

CONSTANTS
    MaxSaves,   \* bound on the saves of the file
    Publishes   \* POST /publish requests

ASSUME RulesAssumption == MaxSaves \in Nat \ {0}

VARIABLES
    file,       \* what is in the file, of which kind it is, its mtime
    saves,      \* the saves so far
    cache,      \* _raw_rules_cache and _raw_rules_mtime
    registry,   \* the rules in use
    observer,   \* the watching thread
    events,     \* the changes it has not been told of
    publish,    \* each publish: where it is, the rules of its two checks
    twice       \* history: the file changed twice at what is one time to the clock

rulesVars == <<file, saves, cache, registry, observer, events, publish, twice>>

\* What can be used, is YAML but no rules, or is no YAML mapping at all.
Kinds == {"good", "unusable", "unparsable"}

Idling == [at |-> "idle", mtime |-> 0, rules |-> 0, kind |-> "good"]
Unasked == [at |-> "new", asked |-> 0, made |-> 0]

\* load_rules at startup, of a file that can be used.
RulesInit ==
    /\ file = [rules |-> 1, kind |-> "good", mtime |-> 1] /\ saves = 1
    /\ cache = [rules |-> 1, mtime |-> 1] /\ registry = 1
    /\ observer = Idling /\ events = 0 /\ twice = FALSE
    /\ publish = [p \in Publishes |-> Unasked]

-----------------------------------------------------------------------------
(***************************************************************************)
(* The file and the thread that watches it.                                *)
(***************************************************************************)

Changed(rules, kind) ==
    /\ \E later \in {0, 1} :
         /\ file' = [rules |-> rules, kind |-> kind, mtime |-> file.mtime + later]
         /\ twice' = (twice \/ later = 0)
    /\ events' = events + 1
    /\ UNCHANGED <<cache, registry, observer, publish>>

\* Somebody saves the file, which empties it first.
Truncate ==
    /\ saves < MaxSaves /\ file.rules # 0
    /\ Changed(0, "good") /\ UNCHANGED saves

Save(kind) ==
    /\ file.rules = 0
    /\ saves' = saves + 1
    /\ Changed(saves + 1, kind)

\* on_modified: _load_yaml looks at the time first ...
Stat ==
    /\ observer.at = "idle" /\ events > 0
    /\ events' = events - 1
    /\ observer' = [Idling EXCEPT !.at = "read", !.mtime = file.mtime]
    /\ UNCHANGED <<file, saves, cache, registry, publish, twice>>

Ended == observer' = [Idling EXCEPT !.at = "ended"]

Loaded(rules, kind) == observer' = [observer EXCEPT !.at = "build", !.rules = rules, !.kind = kind]

\* Slip: the time is looked at after the file was read.
LoadStampedLater ==
    /\ observer.at = "read"
    /\ IF cache.mtime = observer.mtime
       THEN Loaded(cache.rules, "good") /\ UNCHANGED cache
       ELSE /\ Loaded(file.rules, "good")
            /\ cache' \in [rules : {file.rules}, mtime : {file.mtime, file.mtime + 1}]
    /\ UNCHANGED <<file, saves, registry, events, publish, twice>>

\* ... and takes the rules that are cached for that time, or those of the file.
\* What is no mapping raises, and that is the end of the thread.
Load ==
    /\ observer.at = "read"
    /\ IF cache.mtime = observer.mtime
       THEN Loaded(cache.rules, "good") /\ UNCHANGED cache
       ELSE IF file.kind = "unparsable"
       THEN Ended /\ UNCHANGED cache
       ELSE /\ Loaded(file.rules, file.kind)
            /\ cache' = [rules |-> file.rules, mtime |-> observer.mtime]
    /\ UNCHANGED <<file, saves, registry, events, publish, twice>>

\* RulesRegistry makes rules of it, or raises, and _reload_rules takes them.
Build ==
    /\ observer.at = "build"
    /\ IF observer.kind = "good" THEN registry' = observer.rules /\ observer' = Idling
       ELSE Ended /\ UNCHANGED registry
    /\ UNCHANGED <<file, saves, cache, events, publish, twice>>

-----------------------------------------------------------------------------
(***************************************************************************)
(* The publishes.                                                          *)
(***************************************************************************)

\* validate_mockup of the rules refuses a design or lets it pass, but an empty file
\* has no rules that could refuse one.
Refusable == registry # 0

Checked(p, new) ==
    /\ publish' = [publish EXCEPT ![p] = new]
    /\ UNCHANGED <<file, saves, cache, registry, observer, events, twice>>

\* POST /publish checks the design before there is a task.
AskPublish(p) ==
    /\ publish[p].at = "new"
    /\ \/ Checked(p, [publish[p] EXCEPT !.at = "asked", !.asked = registry])
       \/ Refusable /\ Checked(p, [publish[p] EXCEPT !.at = "refused"])

\* The publish in the background checks it again; a ValueError there is caught by
\* nobody, and leaves the task in progress.
CheckAgain(p) ==
    /\ publish[p].at = "asked"
    /\ \/ Checked(p, [publish[p] EXCEPT !.at = "published", !.made = registry])
       \/ Refusable /\ Checked(p, [publish[p] EXCEPT !.at = "stuck"])

RulesNext ==
    \/ Truncate \/ (\E kind \in Kinds : Save(kind)) \/ Stat \/ Load \/ Build
    \/ \E p \in Publishes : AskPublish(p) \/ CheckAgain(p)

RulesSpec == RulesInit /\ [][RulesNext]_rulesVars

-----------------------------------------------------------------------------
RulesTypeOK ==
    /\ file \in [rules : 0 .. MaxSaves, kind : Kinds, mtime : 1 .. 2 * MaxSaves]
    /\ saves \in 1 .. MaxSaves
    /\ cache \in [rules : 0 .. MaxSaves, mtime : 1 .. 2 * MaxSaves]
    /\ registry \in 0 .. MaxSaves
    /\ observer \in [at : {"idle", "read", "build", "ended"}, mtime : 0 .. 2 * MaxSaves,
                     rules : 0 .. MaxSaves, kind : Kinds]
    /\ events \in 0 .. 2 * MaxSaves /\ twice \in BOOLEAN
    /\ publish \in [Publishes -> [at : {"new", "asked", "refused", "published", "stuck"},
                                  asked : 0 .. MaxSaves, made : 0 .. MaxSaves]]

\* As long as no rules were saved that end the watching thread, and no two changes
\* had one time, the rules in use are those of the file once it was told of every
\* change, although it reads the file at another moment than its time.  A design is
\* never made public under older rules than its request was let through with, but
\* for those that a save has emptied.
RulesCurrent ==
    /\ observer.at = "idle" /\ events = 0 /\ ~twice => registry = file.rules
    /\ \A p \in Publishes :
         publish[p].at = "published" => publish[p].made \in {0} \union publish[p].asked .. saves
=============================================================================
