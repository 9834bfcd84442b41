----------------------------- MODULE BaselineTree -----------------------------
(***************************************************************************)
(* The command freeze-baselines (engine/cli/freeze_baselines.py with       *)
(* engine/baselines/freeze.py): it copies what a cycle computed into a     *)
(* committed tree, file by file, and writes the digests of all files last. *)
(* A start first holds the tree against the digests of the last freeze.    *)
(*                                                                         *)
(* A source is numbered by its edits; a file's content is what it was made *)
(* from.  concordance.json has the figures of the sources it was computed  *)
(* from; the byte pin recomputes them from the present ones and compares   *)
(* the figures, which other sources may share.                             *)
(***************************************************************************)
EXTENDS Naturals, FiniteSets

CONSTANTS
    NoFile,             \* no such file
    HalfFile, Foreign,  \* a file written in part, and one edited by hand
    Figures,            \* the entries in common, kappa and its interval, by versions
    MaxEdits,           \* bound: edits of the sources and of the tree
    MaxFreezes          \* bound: starts of the command

BaselineAssumption == MaxEdits \in Nat /\ MaxFreezes \in Nat

Sources == {"lambda", "labels", "votes"}
\* The files in the order they are written, and the sources of each.
Respondents == 1
VoteRanks   == 2
LambdaMedian == 3
Workbook    == 4
Rankings    == 5
Provenance  == 6
Files == Respondents .. Provenance
MadeFrom == [f \in Files |-> IF f \in {Respondents, VoteRanks, Workbook} THEN {"votes"}
                             ELSE IF f = LambdaMedian THEN {"lambda"} ELSE Sources]

VARIABLES
    source,         \* version of each source in the cycle directory
    concordance,    \* the versions concordance.json was computed from
    tree,           \* content of each file of the tree
    sums,           \* SHA256SUMS: content of each listed file
    at,             \* the file the command writes next, 0 without a command
    edits, freezes

btvars == <<source, concordance, tree, sums, at, edits, freezes>>

Versions == [Sources -> 0 .. MaxEdits]
\* A made file has what it was made from, the rankings also the figures of
\* concordance.json, and the provenance the freeze that dated it.
Content(f, v, figures, n) ==
    [file |-> f, from |-> [s \in MadeFrom[f] |-> v[s]],
     figures |-> IF f = Rankings THEN {figures} ELSE {},
     dated |-> IF f = Provenance THEN n ELSE 0]

FreezeTypeOK ==
    /\ source \in Versions /\ concordance \in Versions
    /\ \A f \in Files : tree[f] \in {NoFile, HalfFile, Foreign} \/ tree[f].file = f
    /\ sums # NoFile => DOMAIN sums \subseteq Files
    /\ at \in 0 .. Provenance + 1
    /\ edits \in 0 .. MaxEdits /\ freezes \in 0 .. MaxFreezes

FreezeInit ==
    /\ source = [s \in Sources |-> 0] /\ concordance = source
    /\ tree = [f \in Files |-> NoFile] /\ sums = NoFile
    /\ at = 0 /\ edits = 0 /\ freezes = 0

-----------------------------------------------------------------------------
\* _check_write_once: a listed file that is gone is passed over.
Tampered ==
    IF sums = NoFile THEN {}
    ELSE {f \in DOMAIN sums : tree[f] # NoFile /\ tree[f] # sums[f]}

Accepted == Tampered = {}

\* Without --force a tampered tree is refused; every source has to be there.
StartFreeze(force) ==
    /\ at = 0 /\ freezes < MaxFreezes
    /\ Accepted \/ force
    /\ at' = Respondents /\ freezes' = freezes + 1
    /\ UNCHANGED <<source, concordance, tree, sums, edits>>

Made(f) == Content(f, source, Figures[concordance], freezes)

\* build_rankings_baselines: the figures of concordance.json are reproduced.
Pinned == Figures[concordance] = Figures[source]

\* The pin is looked at when three arrays and the workbook are written already.
WriteFile ==
    /\ at \in Files
    /\ at = Rankings => Pinned
    /\ tree' = [tree EXCEPT ![at] = Made(at)] /\ at' = at + 1
    /\ UNCHANGED <<source, concordance, sums, edits, freezes>>

PinFails ==
    /\ at = Rankings /\ ~Pinned /\ at' = 0
    /\ UNCHANGED <<source, concordance, tree, sums, edits, freezes>>

Listed == {f \in Files : tree[f] # NoFile}

\* Mutant: the digests are written before the rankings are built.
WriteSums_Early ==
    /\ at = Rankings
    /\ sums' = [f \in Listed |-> tree[f]] /\ at' = at
    /\ UNCHANGED <<source, concordance, tree, edits, freezes>>

\* _write_sha256sums lists every file of the directory, and comes last.
WriteSums ==
    /\ at = Provenance + 1
    /\ sums' = [f \in Listed |-> tree[f]] /\ at' = 0
    /\ UNCHANGED <<source, concordance, tree, edits, freezes>>

\* The command dies between two writes, or in one: of the digests some lines
\* are then left.
FreezeDies ==
    /\ at # 0 /\ at' = 0
    /\ \/ UNCHANGED <<tree, sums>>
       \/ at \in Files /\ tree' = [tree EXCEPT ![at] = HalfFile] /\ UNCHANGED sums
       \/ /\ at = Provenance + 1 /\ UNCHANGED tree
          /\ \E lines \in SUBSET Listed : sums' = [f \in lines |-> tree[f]]
    /\ UNCHANGED <<source, concordance, edits, freezes>>

-----------------------------------------------------------------------------
(* The operator, while no freeze runs.                                     *)

Edit == at = 0 /\ edits < MaxEdits /\ edits' = edits + 1

\* Inference, classification or the vote is run again; concordance.json stays
\* as it is until decide has run as well.
ChangeSource ==
    /\ Edit
    /\ \E s \in Sources : source' = [source EXCEPT ![s] = @ + 1]
    /\ UNCHANGED <<concordance, tree, sums, at, freezes>>

Decide ==
    /\ at = 0 /\ concordance # source /\ concordance' = source
    /\ UNCHANGED <<source, tree, sums, at, edits, freezes>>

\* A file of the tree is edited or removed by hand.
Tamper ==
    /\ Edit
    /\ \E f \in Files, c \in {NoFile, Foreign} :
         tree[f] # NoFile /\ tree' = [tree EXCEPT ![f] = c]
    /\ UNCHANGED <<source, concordance, sums, at, freezes>>

FreezeNext ==
    \/ \E force \in BOOLEAN : StartFreeze(force)
    \/ WriteFile \/ PinFails \/ WriteSums \/ FreezeDies
    \/ ChangeSource \/ Decide \/ Tamper

FreezeSpec == FreezeInit /\ [][FreezeNext]_btvars

-----------------------------------------------------------------------------
\* A tree with the digests of all files that a start would accept without
\* --force is of a single freeze: the files that are left are made from one
\* state of the sources, and the rankings hold the figures of that state, though
\* concordance.json may be of another that has them too.  No
\* crash, re-run of inference between freezes or forced freeze leads to a
\* mixture that passes; digests that a crash cut short vouch for less.
\* freeze_baselines.py _check_write_once and _write_sha256sums.
AcceptedTreeIsOneFreeze ==
    at = 0 /\ sums # NoFile /\ DOMAIN sums = Files /\ Accepted =>
      \E v \in Versions :
        \A f \in Files : tree[f] # NoFile =>
          tree[f] \in {Content(f, v, Figures[v], n) : n \in 1 .. MaxFreezes}
=============================================================================
