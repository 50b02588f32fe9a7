---------------------------- MODULE RuleDocuments ----------------------------
(***************************************************************************)
(* The files of alert rules and the functions on them                      *)
(* (api/services/alert_rule_repo.py, api/plugins/prometheus/helper.py):    *)
(* reading the rules of a file, inserting, updating and deleting one, and  *)
(* writing a whole file from the rules that are live.                      *)
(*                                                                         *)
(* A file is a list of groups, or an object with groups in up to four      *)
(* places.  A rule's body is its text; paths, comments and other keys of   *)
(* the file are left out.                                                  *)
(***************************************************************************)
EXTENDS Naturals, Sequences, FiniteSets, SequencesExt

CONSTANTS
  RuleGroups,    \* names of groups
  RuleNames,     \* names of alerts
  Bodies,        \* what a rule may say
  MaxFileRules   \* bound: rules in the file

Nothing == "nothing"

ASSUME DocumentsAssumption == Nothing \notin Bodies /\ MaxFileRules \in Nat

VARIABLES
  document,      \* the file: for each place, its groups in their order
  expected       \* reference: the rules that should be in it, as a map

documentVars == << document, expected >>

(* source_format; a file may hold several wrappers, of which this is one.  *)
ListPlace == "group_list"
SinglePlace == "rules"
Places == {ListPlace, "groups", SinglePlace, "spec.groups", "additionalPrometheusRulesMap"}

Empty == [p \in Places |-> << >>]
Group(name, rules) == [name |-> name, rules |-> rules]
RuleEntries == [name : RuleNames, body : Bodies]
GroupEntries == [name : RuleGroups, rules : Seq(RuleEntries)]

(* A name may be there twice, in two groups or in two places. *)
Slots == Places \X RuleGroups \X RuleNames

(* iter_rule_groups, parse_rules_from_content: the rules of a file, each   *)
(* with its group and place.                                               *)
RecordsIn(doc, place) ==
  UNION {{[ place |-> place, group |-> doc[place][i].name,
            name |-> rule.name, body |-> rule.body ] : rule \in ToSet(doc[place][i].rules)} :
         i \in DOMAIN doc[place]}

Records(doc) == UNION {RecordsIn(doc, p) : p \in Places}

DocumentsTypeOK ==
  /\ document \in [Places -> Seq(GroupEntries)]
  /\ expected \in [Slots -> Bodies \cup {Nothing}]

DocumentsInit ==
  /\ document = Empty
  /\ expected = [s \in Slots |-> Nothing]

-----------------------------------------------------------------------------
(* The first index at which a group, or a rule, has the name; 0 if none.   *)
Named(seq, name) == SelectInSeq(seq, LAMBDA x : x.name = name)

(* Replace the rule of that name where it stands, or add it at the end.    *)
PutRule(rules, r, body) ==
  LET i == Named(rules, r)
      rule == [name |-> r, body |-> body]
  IN  IF i = 0 THEN Append(rules, rule) ELSE [rules EXCEPT ![i] = rule]

(* _ensure_group_entry, and the rule in it. *)
PutInGroup(groups, g, r, body) ==
  LET i == Named(groups, g)
  IN  IF i = 0 THEN Append(groups, Group(g, PutRule(<< >>, r, body)))
               ELSE [groups EXCEPT ![i].rules = PutRule(@, r, body)]

(* upsert_rule_in_document: a list is begun anew if the file is an object, *)
(* and the other way round.                                                *)
SameShape(place) ==
  IF place = ListPlace THEN \A p \in Places \ {ListPlace} : document[p] = << >>
                       ELSE document[ListPlace] = << >>

UpsertRule(place, g, r, body) ==
  LET kept == IF SameShape(place) THEN document ELSE Empty
  IN  /\ place = SinglePlace =>
           \A i \in DOMAIN kept[place] : kept[place][i].name = g
      /\ Cardinality(Records(document)) < MaxFileRules \/ ~ SameShape(place)
      /\ document' = [kept EXCEPT ![place] = PutInGroup(@, g, r, body)]
      /\ expected' =
           [s \in Slots |-> IF s = << place, g, r >> THEN body
                            ELSE IF SameShape(place) THEN expected[s] ELSE Nothing]

(* delete_rule_from_document: the first rule of that name in the first     *)
(* group of that name.  A group whose last rule goes is removed, but the   *)
(* one of a single-group file stays.  DropGroup forgets to look at what is *)
(* left of the group.                                                      *)
DropGroup(groups, i, j, place) == RemoveAt(groups, i)

DropRule(groups, i, j, place) ==
  LET rest == RemoveAt(groups[i].rules, j)
  IN  IF rest = << >> /\ place # SinglePlace
      THEN RemoveAt(groups, i)
      ELSE [groups EXCEPT ![i].rules = rest]

DeleteRule(place, g, r) ==
  LET groups == document[place]
      i == Named(groups, g)
  IN  /\ i # 0
      /\ LET j == Named(groups[i].rules, r)
         IN  /\ j # 0
             /\ document' = [document EXCEPT ![place] = DropRule(groups, i, j, place)]
      /\ expected' = [expected EXCEPT ![<< place, g, r >>] = Nothing]

-----------------------------------------------------------------------------
(* render_alert_rule_document: the groups of the place, in the order in    *)
(* which their first rules come, and in each its rules.                    *)
Listed(place, g) ==
  {[name |-> x.name, body |-> x.body] : x \in {y \in RecordsIn(document, place) : y.group = g}}

Rendered(place) ==
  LET names == {x.group : x \in RecordsIn(document, place)}
      choices == UNION {{Group(g, rules) : rules \in SetToSeqs(Listed(place, g))} : g \in names}
  IN  {groups \in [1 .. Cardinality(names) -> choices] :
         \A g \in names : \E i \in DOMAIN groups :
           \A k \in DOMAIN groups : groups[k].name = g <=> k = i}

(* The file is written anew from the live rules that name it, in the order *)
(* in which their objects are listed.  Mixed places are refused.           *)
ExportFile ==
  /\ \E p \in Places :
       /\ \A q \in Places \ {p} : RecordsIn(document, q) = {}
       /\ RecordsIn(document, p) # {}
       /\ \E groups \in Rendered(p) : document' = [Empty EXCEPT ![p] = groups]
  /\ UNCHANGED expected

DocumentsNext ==
  \/ \E place \in Places, g \in RuleGroups, r \in RuleNames :
       \/ \E body \in Bodies : UpsertRule(place, g, r, body)
       \/ DeleteRule(place, g, r)
  \/ ExportFile

DocumentsSpec == DocumentsInit /\ [][DocumentsNext]_documentVars

-----------------------------------------------------------------------------
(* Through any sequence of insertions, updates, deletions and exports that *)
(* write the file anew, reading the file gives exactly the rules that the  *)
(* edits leave, with their last bodies, in their groups and places.        *)
FileSaysWhatEditsLeft ==
  Records(document) =
    {[place |-> s[1], group |-> s[2], name |-> s[3], body |-> expected[s]] :
       s \in {t \in Slots : expected[t] # Nothing}}

(* No group is there twice, no rule twice in its group and, but for a      *)
(* single-group file, no group is empty.                                   *)
NoneTwice(entries) == \A i, k \in DOMAIN entries : entries[i].name = entries[k].name => i = k
GroupsInOrder ==
  \A p \in Places :
    /\ NoneTwice(document[p])
    /\ \A i \in DOMAIN document[p] :
         /\ NoneTwice(document[p][i].rules)
         /\ p # SinglePlace => document[p][i].rules # << >>

(* alert_rule_repo.py: all of it, whatever the shape of the file, with the *)
(* types.                                                                  *)
FileKept == DocumentsTypeOK /\ FileSaysWhatEditsLeft /\ GroupsInOrder
=============================================================================
