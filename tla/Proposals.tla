------------------------------ MODULE Proposals ------------------------------
(***************************************************************************)
(* Changes proposed to a repository: commits made through GitHub's API     *)
(* (api/plugins/github/client.py, adapter.py), by which workflows and      *)
(* alert rules are exported too, and commits made in a working directory   *)
(* and pushed (api/plugins/git/client.py, adapter.py).                     *)
(*                                                                         *)
(* Every call to GitHub is a step of its own.  A dispatch of the git       *)
(* plugin has no await between its commands: it is one step, which can     *)
(* fail in the middle.  A tree is the set of the changes it contains.      *)
(***************************************************************************)
EXTENDS Naturals, Sequences

CONSTANTS
  GitHubDispatches, \* dispatches of commit_and_pr of the github plugin
  GitDispatches,    \* dispatches of commit_files of the git plugin
  Branches,         \* branches that are proposed
  BaseBranch,       \* the branch that proposals are for
  MaxCommits        \* bound: commits

Someone == "someone"

ASSUME ProposalsAssumption ==
  /\ BaseBranch \notin Branches
  /\ GitHubDispatches \cap GitDispatches = {} /\ Someone \notin GitHubDispatches
  /\ MaxCommits \in Nat \ {0}

VARIABLES
  commits,     \* all commits, by number
  refs,        \* GitHub: the commit of each branch, 0 for none
  pulls,       \* GitHub: branches with an open pull request
  proposer,    \* what each dispatch of the github plugin does
  clone        \* the working directory of the git plugin

proposalVars == << commits, refs, pulls, proposer, clone >>

Refs == Branches \cup {BaseBranch}
ProposalDispatches == GitHubDispatches \cup GitDispatches
CommitIds == 0 .. MaxCommits

Commit == [parents : SUBSET (1 .. MaxCommits), tree : SUBSET ProposalDispatches,
           by : ProposalDispatches \cup {Someone}]

(* base is the commit read first; the new commit gets the number commit.   *)
Proposer ==
  [ at : {"idle", "based", "branched", "committed", "proposing", "succeeded", "failed"},
    branch : Branches, base : CommitIds, commit : CommitIds ]

(* head is the branch that is checked out. *)
Clone == [there : BOOLEAN, head : Refs, refs : [Refs -> CommitIds]]
NoClone == [there |-> FALSE, head |-> BaseBranch, refs |-> [b \in Refs |-> 0]]

ProposalsTypeOK ==
  /\ \A c \in DOMAIN commits : commits[c] \in Commit
  /\ refs \in [Refs -> CommitIds]
  /\ pulls \subseteq Branches
  /\ proposer \in [GitHubDispatches -> Proposer]
  /\ clone \in Clone

ProposalsInit ==
  /\ commits = << [parents |-> {}, tree |-> {}, by |-> Someone] >>
  /\ refs = [b \in Refs |-> IF b = BaseBranch THEN 1 ELSE 0]
  /\ pulls = {}
  /\ proposer \in [GitHubDispatches -> [at : {"idle"}, branch : Branches,
                                        base : {0}, commit : {0}]]
  /\ clone = NoClone

(* The commits that lead to c, and c: what every set of commits has that   *)
(* has c and the parents of its own.  Parents have smaller numbers.        *)
Lineages(graph, c) ==
  {S \in SUBSET (1 .. c) : c \in S /\ \A x \in S : graph[x].parents \subseteq S}
HistoryIn(graph, c) == {x \in 1 .. c : \A S \in Lineages(graph, c) : x \in S}
History(c) == HistoryIn(commits, c)
Ancestor(a, c) == a = 0 \/ a \in History(c)
Tree(c) == commits[c].tree

NewCommit(parents, tree, by) ==
  /\ Len(commits) < MaxCommits
  /\ commits' = Append(commits, [parents |-> parents, tree |-> tree, by |-> by])
Fresh == Len(commits) + 1

-----------------------------------------------------------------------------
(* GitHubClient.commit_and_pr. *)
Proposes(d, to) == proposer' = [proposer EXCEPT ![d] = to]

ReadBase(d) ==
  /\ proposer[d].at = "idle"
  /\ Proposes(d, [proposer[d] EXCEPT !.at = "based", !.base = refs[BaseBranch]])
  /\ UNCHANGED << commits, refs, pulls, clone >>

(* POST git/refs; a branch that is there already (422) is taken as it is.  *)
CreateBranch(d) ==
  LET b == proposer[d].branch
  IN  /\ proposer[d].at = "based"
      /\ refs' = [refs EXCEPT ![b] = IF @ = 0 THEN proposer[d].base ELSE @]
      /\ Proposes(d, [proposer[d] EXCEPT !.at = "branched"])
      /\ UNCHANGED << commits, pulls, clone >>

(* The blobs, the tree over base_tree, and the commit: both rest on the    *)
(* base that was read first.  TreeOfLatest takes the base as it is now.    *)
TreeOfLatest(d) == Tree(refs[BaseBranch]) \cup {d}
ProposedTree(d) == Tree(proposer[d].base) \cup {d}

MakeCommit(d) ==
  /\ proposer[d].at = "branched"
  /\ NewCommit({proposer[d].base}, ProposedTree(d), d)
  /\ Proposes(d, [proposer[d] EXCEPT !.at = "committed", !.commit = Fresh])
  /\ UNCHANGED << refs, pulls, clone >>

(* PATCH git/refs with force false.  MovesAnyway is the call with force.   *)
MovesAnyway(d) == refs[proposer[d].branch] # 0
MovesForward(d) ==
  /\ refs[proposer[d].branch] # 0
  /\ Ancestor(refs[proposer[d].branch], proposer[d].commit)

MoveBranch(d) ==
  /\ proposer[d].at = "committed"
  /\ MovesForward(d)
  /\ refs' = [refs EXCEPT ![proposer[d].branch] = proposer[d].commit]
  /\ Proposes(d, [proposer[d] EXCEPT !.at = "proposing"])
  /\ UNCHANGED << commits, pulls, clone >>

(* POST pulls.  If its answer is lost, the call is repeated and refused,   *)
(* as it is when the branch has a pull request already.                    *)
OpenPull(d) ==
  /\ proposer[d].at = "proposing"
  /\ \/ /\ proposer[d].branch \notin pulls
        /\ refs[proposer[d].branch] # 0
        /\ \E at \in {"succeeded", "failed"} : Proposes(d, [proposer[d] EXCEPT !.at = at])
        /\ pulls' = pulls \cup {proposer[d].branch}
     \/ /\ proposer[d].branch \in pulls
        /\ Proposes(d, [proposer[d] EXCEPT !.at = "failed"])
        /\ UNCHANGED pulls
  /\ UNCHANGED << commits, refs, clone >>

(* No credential, a status of 400 or more, or no answer: the dispatch has  *)
(* failed, is not repeated, and what it did stays.                         *)
ProposalFails(d) ==
  /\ proposer[d].at \notin {"succeeded", "failed"}
  /\ Proposes(d, [proposer[d] EXCEPT !.at = "failed"])
  /\ UNCHANGED << commits, refs, pulls, clone >>

-----------------------------------------------------------------------------
(* GitClient.clone_or_pull(ref): a pull merges ref into whatever branch is *)
(* checked out; if both have gone on, git refuses.                         *)
Pulled(ref) ==
  IF ~ clone.there
  THEN [there |-> TRUE, head |-> ref, refs |-> [NoClone.refs EXCEPT ![ref] = refs[ref]]]
  ELSE [clone EXCEPT !.refs[clone.head] =
          IF Ancestor(@, refs[ref]) THEN refs[ref] ELSE @]

CanPull(ref) ==
  /\ refs[ref] # 0
  /\ clone.there => \/ Ancestor(clone.refs[clone.head], refs[ref])
                    \/ Ancestor(refs[ref], clone.refs[clone.head])

(* read_file and list_files of any ref. *)
GitRead ==
  /\ \E ref \in Refs : CanPull(ref) /\ clone' = Pulled(ref)
  /\ UNCHANGED << commits, refs, pulls, proposer >>

(* commit_files: check the branch out, or create it where the working      *)
(* directory is; commit; push; go back.  A push that fails leaves the      *)
(* commit and the branch checked out.                                      *)
GitCommit(d) ==
  LET pulled == Pulled(BaseBranch)
  IN  /\ CanPull(BaseBranch)
      /\ \E b \in Branches :
           LET on == IF pulled.refs[b] # 0 THEN pulled.refs[b] ELSE pulled.refs[pulled.head]
               committed == [pulled EXCEPT !.refs[b] = Fresh]
           IN  IF d \in Tree(on)
               THEN /\ clone' = [pulled EXCEPT !.refs[b] = on]
                    /\ UNCHANGED << commits, refs >>
               ELSE /\ NewCommit({on}, Tree(on) \cup {d}, d)
                    /\ \/ /\ refs[b] \in {0} \cup History(on)
                          /\ refs' = [refs EXCEPT ![b] = Fresh]
                          /\ clone' = committed
                       \/ /\ clone' = [committed EXCEPT !.head = b]
                          /\ UNCHANGED refs
                       \/ /\ clone' = committed
                          /\ UNCHANGED refs
      /\ UNCHANGED << pulls, proposer >>

(* create_pull_request of a branch that was pushed; only for GitHub, and   *)
(* left out for other providers.                                           *)
GitPropose(b) ==
  /\ clone.there
  /\ refs[b] # 0
  /\ pulls' = pulls \cup {b}
  /\ UNCHANGED << commits, refs, proposer, clone >>

(* The container restarts: its working directory is gone.                  *)
LoseClone ==
  /\ clone.there
  /\ clone' = NoClone
  /\ UNCHANGED << commits, refs, pulls, proposer >>

-----------------------------------------------------------------------------
(* Others: a merged pull request, a push to the base, a deleted branch.    *)
MergePull(b) ==
  /\ b \in pulls
  /\ NewCommit({refs[BaseBranch], refs[b]}, Tree(refs[BaseBranch]) \cup Tree(refs[b]), Someone)
  /\ refs' = [refs EXCEPT ![BaseBranch] = Fresh]
  /\ pulls' = pulls \ {b}
  /\ UNCHANGED << proposer, clone >>

DeleteBranch(b) ==
  /\ refs[b] # 0
  /\ refs' = [refs EXCEPT ![b] = 0]
  /\ pulls' = pulls \ {b}
  /\ UNCHANGED << commits, proposer, clone >>

ProposalsNext ==
  \/ \E d \in GitHubDispatches :
       \/ ReadBase(d)
       \/ CreateBranch(d)
       \/ MakeCommit(d)
       \/ MoveBranch(d)
       \/ OpenPull(d)
       \/ ProposalFails(d)
  \/ GitRead
  \/ \E d \in GitDispatches : GitCommit(d)
  \/ LoseClone
  \/ \E b \in Branches :
       \/ GitPropose(b)
       \/ MergePull(b)
       \/ DeleteBranch(b)

ProposalsSpec == ProposalsInit /\ [][ProposalsNext]_proposalVars

-----------------------------------------------------------------------------
(* However dispatches overlap on a branch, and although a branch that is   *)
(* there is taken as it is, no branch ever loses a commit it had.          *)
NothingOverwritten ==
  \A b \in Refs :
    refs[b] # 0 /\ refs'[b] \notin {0, refs[b]} => refs[b] \in HistoryIn(commits', refs'[b])

(* A commit made through GitHub changes nothing but the dispatch's own     *)
(* files, however far the base has gone on in the meantime.                *)
OwnFilesOnly ==
  \A c \in DOMAIN commits : commits[c].by \in GitHubDispatches =>
    \A p \in commits[c].parents : commits[c].tree = Tree(p) \cup {commits[c].by}

(* Both, with the types. *)
ProposalsKept == [](ProposalsTypeOK /\ OwnFilesOnly) /\ [][NothingOverwritten]_proposalVars
=============================================================================
