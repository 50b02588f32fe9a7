----------------------------- MODULE AlertRules -----------------------------
(***************************************************************************)
(* The live alert rules (PrometheusRule objects) and those who write them: *)
(* operators, through orders for the k8s plugin, and the content sync of   *)
(* the genestack_monitoring plugin, which applies the rules of a           *)
(* repository.  An export proposes the live rules to the repository again. *)
(*                                                                         *)
(* Every change reads an object, edits the copy and sends all of it back,  *)
(* resourceVersion included, so that Kubernetes refuses a copy that is out *)
(* of date.  Every such call is a step of its own.                         *)
(*                                                                         *)
(* A rule is its content: as the repository has it, or as an operator      *)
(* edited it.  All rules are in one group and in one file.                 *)
(***************************************************************************)
EXTENDS Naturals, Sequences

CONSTANTS
  Rules,        \* alert rules; the object of a rule has the rule's name
  RuleDispatches, \* orders of operators that may run at a time
  ContentSync,  \* the dispatch of the content sync
  Catalog,      \* the rules of the repository in the order of their names
  MaxVersion    \* bound on the changes of objects

ASSUME RulesAssumption ==
  /\ ContentSync \notin RuleDispatches
  /\ Catalog \in Seq(Rules) /\ Rules # {}
  /\ MaxVersion \in Nat

VARIABLES
  object,       \* the PrometheusRule objects
  clock,        \* the last resourceVersion
  writer,       \* what each dispatch does
  unsynced,     \* the places in the catalogue of the rules still to be applied
  file,         \* the repository's content of each rule
  fileRead,     \* what the content sync has read of it
  proposal      \* the exported content on its branch

ruleVars == << object, clock, writer, unsynced, file, fileRead, proposal >>

RuleWriters == RuleDispatches \cup {ContentSync}
Content == {"none", "repo", "edited"}
Files == [Rules -> Content]

(* sources: the rules with an entry in the annotation that names their     *)
(* file.  An object without rules is not there.                            *)
RuleObject == [version : 0 .. MaxVersion, rules : Files, sources : SUBSET Rules]
NoRules == [r \in Rules |-> "none"]
NoObject == [version |-> 0, rules |-> NoRules, sources |-> {}]

RuleWriter ==
  [at : {"idle", "patching", "creating", "dropping"}, rule : Rules, object : Rules,
   content : Content, sourced : BOOLEAN, seen : RuleObject]
Unoccupied ==
  [at |-> "idle", rule |-> CHOOSE r \in Rules : TRUE, object |-> CHOOSE r \in Rules : TRUE,
   content |-> "none", sourced |-> FALSE, seen |-> NoObject]

RulesTypeOK ==
  /\ object \in [Rules -> RuleObject]
  /\ clock \in 0 .. MaxVersion
  /\ writer \in [RuleWriters -> RuleWriter]
  /\ unsynced \subseteq DOMAIN Catalog
  /\ file \in Files /\ fileRead \in Files
  /\ proposal \in Files

RulesInit ==
  /\ object = [o \in Rules |-> NoObject]
  /\ clock = 0
  /\ writer = [w \in RuleWriters |-> Unoccupied]
  /\ unsynced = {}
  /\ file = [r \in Rules |-> IF \E i \in DOMAIN Catalog : Catalog[i] = r THEN "repo" ELSE "none"]
  /\ fileRead = NoRules
  /\ proposal = NoRules

-----------------------------------------------------------------------------
(* Reading.                                                                *)

(* find_crd_containing_rule *)
Holding(r) == {o \in Rules : object[o].rules[r] # "none"}

Turn(w, at, r, o, content, sourced) ==
  writer' = [writer EXCEPT ![w] = [at |-> at, rule |-> r, object |-> o, content |-> content,
                                   sourced |-> sourced, seen |-> object[o]]]

(* create_or_update_rule: the object that has the rule, else the object of *)
(* that name, else a new one.  Reading an object by its name answers       *)
(* "none" when the call fails.                                             *)
ReadToApply(w, r, o, content, sourced) ==
  \/ \E h \in Holding(r) : Turn(w, "patching", r, h, content, sourced)
  \/ /\ Holding(r) = {}
     /\ object[o] # NoObject
     /\ Turn(w, "patching", r, o, content, sourced)
  \/ /\ Holding(r) = {}
     /\ Turn(w, "creating", r, o, content, sourced)

(* An operator's edit, or a rule of their own in an object of their choice. *)
StartEdit(w) ==
  /\ writer[w].at = "idle"
  /\ \E r, o \in Rules : ReadToApply(w, r, o, "edited", FALSE)
  /\ UNCHANGED << object, clock, unsynced, file, fileRead, proposal >>

(* delete_rule: with its last rule the object goes. *)
StartDelete(w) ==
  /\ writer[w].at = "idle"
  /\ \E r, o \in Rules :
       /\ object[o].rules[r] # "none"
       /\ Turn(w, IF \A s \in Rules \ {r} : object[o].rules[s] = "none"
                  THEN "dropping" ELSE "patching", r, o, "none", FALSE)
  /\ UNCHANGED << object, clock, unsynced, file, fileRead, proposal >>

-----------------------------------------------------------------------------
(* Writing.                                                                *)

Ends(w) == writer' = [writer EXCEPT ![w].at = "idle", ![w].seen = NoObject]

(* The rule and its source; a source entry stays with an edited rule, and  *)
(* a merge patch does not take the last entry away.                        *)
Sources(x) ==
  IF x.sourced THEN x.seen.sources \cup {x.rule}
  ELSE IF x.content = "none" /\ x.seen.sources # {x.rule}
       THEN x.seen.sources \ {x.rule}
       ELSE x.seen.sources

Applied(x, sources) ==
  [version |-> clock + 1, rules |-> [x.seen.rules EXCEPT ![x.rule] = x.content],
   sources |-> sources]

(* The content sync applies the rules in the order of the catalogue.       *)
AfterThis == {i \in unsynced : \E j \in unsynced : j < i}

(* The patch carries the resourceVersion it has read.                      *)
StillThere(x) == object[x.object] # NoObject
UpToDate(x) == object[x.object] # NoObject /\ object[x.object].version = x.seen.version

(* _update_rule_in_crd and the last part of delete_rule. *)
PatchObject(w) ==
  LET x == writer[w] IN
  /\ x.at = "patching"
  /\ UpToDate(x)
  /\ clock < MaxVersion
  /\ object' = [object EXCEPT ![x.object] = Applied(x, Sources(x))]
  /\ clock' = clock + 1
  /\ Ends(w)
  /\ unsynced' = IF w = ContentSync THEN AfterThis ELSE unsynced
  /\ UNCHANGED << file, fileRead, proposal >>

(* _create_rule_crd *)
CreateObject(w) ==
  LET x == writer[w] IN
  /\ x.at = "creating"
  /\ object[x.object] = NoObject
  /\ clock < MaxVersion
  /\ object' = [object EXCEPT ![x.object] =
                  Applied([x EXCEPT !.seen = NoObject], IF x.sourced THEN {x.rule} ELSE {})]
  /\ clock' = clock + 1
  /\ Ends(w)
  /\ unsynced' = IF w = ContentSync THEN AfterThis ELSE unsynced
  /\ UNCHANGED << file, fileRead, proposal >>

(* The object is deleted by its name, whatever it holds by now.            *)
DropObject(w) ==
  LET x == writer[w] IN
  /\ x.at = "dropping"
  /\ object[x.object] # NoObject
  /\ object' = [object EXCEPT ![x.object] = NoObject]
  /\ Ends(w)
  /\ UNCHANGED << clock, unsynced, file, fileRead, proposal >>

(* The copy is out of date, the object is there already or no more, or     *)
(* Kubernetes cannot be reached.  A content sync stops where it is.        *)
WriteFails(w) ==
  /\ writer[w].at # "idle"
  /\ Ends(w)
  /\ unsynced' = IF w = ContentSync THEN {} ELSE unsynced
  /\ UNCHANGED << object, clock, file, fileRead, proposal >>

-----------------------------------------------------------------------------
(* The repository.                                                         *)

(* sync_genestack_monitoring_content_prepare reads all files, then applies *)
(* rule after rule.                                                        *)
StartContentSync ==
  /\ writer[ContentSync].at = "idle" /\ unsynced = {}
  /\ fileRead' = file
  /\ unsynced' = {i \in DOMAIN Catalog : file[Catalog[i]] # "none"}
  /\ UNCHANGED << object, clock, writer, file, proposal >>

SyncRule ==
  /\ writer[ContentSync].at = "idle"
  /\ \E i \in unsynced \ AfterThis :
       ReadToApply(ContentSync, Catalog[i], Catalog[i], fileRead[Catalog[i]], TRUE)
  /\ UNCHANGED << object, clock, unsynced, file, fileRead, proposal >>

(* export_genestack_alert_updates_prepare renders the file from all live   *)
(* rules that name it; commit_and_pr puts it on a branch.                  *)
LiveInFile(r) == {o \in Holding(r) : r \in object[o].sources}
ExportRules ==
  /\ \E r \in Rules : LiveInFile(r) # {}
  /\ proposal' \in {p \in Files : \A r \in Rules :
       IF LiveInFile(r) = {} THEN p[r] = "none"
       ELSE \E o \in LiveInFile(r) : p[r] = object[o].rules[r]}
  /\ UNCHANGED << object, clock, writer, unsynced, file, fileRead >>

MergeProposal ==
  /\ proposal # NoRules
  /\ file' = proposal
  /\ proposal' = NoRules
  /\ UNCHANGED << object, clock, writer, unsynced, fileRead >>

RulesNext ==
  \/ \E w \in RuleDispatches : StartEdit(w) \/ StartDelete(w)
  \/ \E w \in RuleWriters : PatchObject(w) \/ CreateObject(w) \/ DropObject(w) \/ WriteFails(w)
  \/ StartContentSync \/ SyncRule
  \/ ExportRules \/ MergeProposal

RulesSpec == RulesInit /\ [][RulesNext]_ruleVars

-----------------------------------------------------------------------------
(* However operators and the content sync overlap, a write changes no rule *)
(* but its own; only an object deleted with its last rule takes a rule     *)
(* along that was added in between (delete_rule has no precondition).      *)
OwnRuleOnly ==
  \A o, r \in Rules :
    object'[o].rules[r] # object[o].rules[r] =>
      \E w \in RuleWriters : /\ writer[w].object = o
                             /\ writer[w].at # "idle" /\ writer'[w].at = "idle"
                             /\ writer[w].at # "dropping" => writer[w].rule = r

(* A live rule as the repository has it still names its file, so that its  *)
(* edits can be exported.                                                  *)
SourceKnown ==
  \A o, r \in Rules : object[o].rules[r] = "repo" => r \in object[o].sources

(* Both, and the types: versions stay below the clock's bound, and what a  *)
(* dispatch holds is a rule with a copy of an object.                      *)
RulesKept == [][OwnRuleOnly]_ruleVars /\ [](RulesTypeOK /\ SourceKnown)
=============================================================================
