------------------------------- MODULE Scenes -------------------------------
(* Switching scenes and keeping the ones left (scene_switch.rs and          *)
(* parked.rs of balaur_core): requests during a tick, the cut or the fade   *)
(* the end of the tick applies, scenes parked and brought back, and the     *)
(* budget, the memory warnings and the edits that free them.                *)
EXTENDS Integers, Sequences, FiniteSets, SequencesExt, FiniteSetsExt

CONSTANTS
    Files,         \* the scene files
    Main,          \* the one the game starts with
    NoFile,        \* no file: nothing asked, or a tree built by hand
    SizeOf,        \* [Files -> Nat]: the nodes of each as built
    Budget,        \* MAX_PARKED_NODES
    Halves,        \* halves of the fades asked for, in ticks; 0 is a cut
    MaxRequests,   \* bound: switches asked for
    MaxEdits,      \* bound: changes made to the files
    MaxGrowth      \* bound: nodes a game adds to a tree

ASSUME SceneConstants ==
    /\ Main \in Files /\ NoFile \notin Files /\ SizeOf \in [Files -> Nat \ {0}]
    /\ Budget \in Nat /\ Halves \subseteq Nat
    /\ MaxRequests \in Nat /\ MaxEdits \in Nat /\ MaxGrowth \in Nat

VARIABLES
    pending,    \* the switch asked for: [scene, half]; NoFile when nothing is
    crossing,   \* the fade in flight: [scene, half, left]; half 0 when none is
    tree,       \* what hangs under the root; no nodes when nothing does
    parked,     \* the scenes kept, oldest first
    stamp,      \* how often each file changed
    broken,     \* files that do not build
    built,      \* scenes built so far, which numbers them
    failed,     \* whether the switch asked for last would not build
    asked,      \* history: the switches asked for, the last of them, and the edits
    cut         \* history: scenes a cut left in the middle of a fade

vars == <<pending, crossing, tree, parked, stamp, broken, built, failed, asked, cut>>

(* A tree: the file it was built from (current) and that file's stamps, its *)
(* number, its nodes, and how much of its roots is seen, in percent.        *)
Tree(file, number, version) ==
    [file |-> file, from |-> version, number |-> number, nodes |-> SizeOf[file],
     alpha |-> 100]

Bare == [file |-> NoFile, from |-> 0, number |-> 0, nodes |-> 0, alpha |-> 100]

NoFade == [scene |-> NoFile, half |-> 0, left |-> 0]

NodesOf(scenes) ==
    LET held[i \in 0..Len(scenes)] == IF i = 0 THEN 0 ELSE held[i - 1] + scenes[i].nodes
    IN  held[Len(scenes)]

-----------------------------------------------------------------------------
(* switch_to, on the record w of what it changes.                           *)

(* A mutant: the scenes left last go first.                                 *)
FittingNewest(scenes) ==
    LET fits == {i \in 0..Len(scenes) : NodesOf(SubSeq(scenes, 1, i)) <= Budget}
    IN  SubSeq(scenes, 1, Max(fits))

(* A mutant: room is made before the scene is listed.                       *)
FittingBefore(scenes) ==
    LET fits == {i \in 1..Len(scenes) :
                    NodesOf(SubSeq(scenes, i, Len(scenes) - 1)) <= Budget}
    IN  SubSeq(scenes, Min(fits), Len(scenes))

(* free_past_budget: the scenes left longest ago go until the rest fit.     *)
Fitting(scenes) ==
    LET fits == {i \in 1..Len(scenes)+1 :
                    NodesOf(SubSeq(scenes, i, Len(scenes))) <= Budget}
    IN  SubSeq(scenes, Min(fits), Len(scenes))

(* park_current: a tree with no file to come back by, or past the budget    *)
(* alone, is freed.                                                         *)
ParkCurrent(w) ==
    IF w.tree.nodes = 0 \/ w.tree.file = NoFile \/ w.tree.nodes > Budget
    THEN [w EXCEPT !.tree = Bare]
    ELSE [w EXCEPT !.tree = Bare, !.parked = Fitting(Append(@, w.tree))]

(* unlist: the first scene of a file, if there is one, is taken off.        *)
Without(scenes, file) ==
    LET at == {i \in DOMAIN scenes : scenes[i].file = file}
    IN  IF at = {} THEN scenes ELSE RemoveAt(scenes, Min(at))

Unlist(w, file) == [w EXCEPT !.parked = Without(@, file)]

(* The file is built under the bare root; one that would not leaves a tree  *)
(* of no file.                                                              *)
Build(w, file) ==
    IF file \in broken THEN [w EXCEPT !.tree = Bare, !.failed = TRUE]
    ELSE [w EXCEPT !.tree = Tree(file, w.built + 1, stamp[file]), !.built = @ + 1]

(* unpark, and the build when nothing came back: a scene whose files        *)
(* changed since is freed.                                                  *)
Return(w, file) ==
    LET back == {s \in Range(w.parked) : s.file = file /\ s.from = stamp[file]}
    IN  IF back = {} THEN Build(Unlist(w, file), file)
        ELSE [Unlist(w, file) EXCEPT !.tree = CHOOSE s \in back : TRUE]

(* A mutant: a scene parked is freed and built again.                       *)
SwitchBuilding(w, file) ==
    IF w.tree.file = file THEN Build(w, file)
    ELSE Build(Unlist(ParkCurrent(w), file), file)

SwitchTo(w, file) ==
    IF w.tree.file = file THEN Build(w, file) ELSE Return(ParkCurrent(w), file)

RootsAlpha(w, alpha) ==
    IF w.tree.nodes = 0 THEN w ELSE [w EXCEPT !.tree.alpha = alpha]

-----------------------------------------------------------------------------
(* apply_system, at the end of every tick.                                  *)

(* A cut forgets the fade in flight.                                        *)
Cut(w) ==
    SwitchTo([w EXCEPT !.crossing = NoFade,
                       !.cut = IF w.tree.alpha < 100 THEN @ \union {w.tree.number} ELSE @],
             pending.scene)

(* A mutant: the roots are parked as dim as the fade left them.             *)
HalfwayUnseen(w, c) ==
    LET s == SwitchTo(w, c.scene)
    IN  IF s.failed THEN [RootsAlpha(s, 100) EXCEPT !.crossing = NoFade]
        ELSE [RootsAlpha(s, 0) EXCEPT
                 !.crossing = [scene |-> NoFile, half |-> c.half, left |-> c.half]]

(* Halfway the scene switches, its roots parked whole, and the new ones     *)
(* start unseen.                                                            *)
Halfway(w, c) ==
    LET s == SwitchTo(RootsAlpha(w, 100), c.scene)
    IN  IF s.failed THEN [RootsAlpha(s, 100) EXCEPT !.crossing = NoFade]
        ELSE [RootsAlpha(s, 0) EXCEPT
                 !.crossing = [scene |-> NoFile, half |-> c.half, left |-> c.half]]

(* A mutant: a half that ran out is started again without its switch.       *)
FadeAgain(w) ==
    LET c == [w.crossing EXCEPT !.left = @ - 1]
        share == (100 * c.left) \div c.half
    IN  CASE c.left = 0 /\ c.scene # NoFile ->
               [RootsAlpha(w, 0) EXCEPT !.crossing = [c EXCEPT !.scene = NoFile, !.left = c.half]]
          [] c.left = 0 /\ c.scene = NoFile -> [RootsAlpha(w, 100) EXCEPT !.crossing = NoFade]
          [] OTHER -> [RootsAlpha(w, IF c.scene = NoFile THEN 100 - share ELSE share)
                          EXCEPT !.crossing = c]

(* A fade dims the roots, switches halfway and brings the new ones up.      *)
Fade(w) ==
    LET c == [w.crossing EXCEPT !.left = @ - 1]
        share == (100 * c.left) \div c.half
    IN  CASE c.left = 0 /\ c.scene # NoFile -> Halfway(w, c)
          [] c.left = 0 /\ c.scene = NoFile -> [RootsAlpha(w, 100) EXCEPT !.crossing = NoFade]
          [] OTHER -> [RootsAlpha(w, IF c.scene = NoFile THEN 100 - share ELSE share)
                          EXCEPT !.crossing = c]

Applied ==
    LET w == [tree |-> tree, parked |-> parked, built |-> built, crossing |-> crossing,
              failed |-> failed, cut |-> cut]
    IN  IF pending.scene = NoFile THEN Fade(w)
        ELSE IF pending.half = 0 THEN Cut(w)
        ELSE Fade([w EXCEPT !.crossing = [scene |-> pending.scene, half |-> pending.half,
                                          left |-> pending.half]])

(* Nothing is asked for and nothing fades.                                  *)
AtRest == pending.scene = NoFile /\ crossing = NoFade

Apply ==
    /\ ~AtRest
    /\ LET w == Applied
       IN  /\ tree' = w.tree /\ parked' = w.parked /\ built' = w.built
           /\ crossing' = w.crossing /\ failed' = w.failed /\ cut' = w.cut
    /\ pending' = [scene |-> NoFile, half |-> 0]
    /\ UNCHANGED <<stamp, broken, asked>>

-----------------------------------------------------------------------------
(* What happens between.                                                    *)

(* request: the last of a tick is the one that happens.                     *)
Request(file, half) ==
    /\ asked.times < MaxRequests
    /\ pending' = [scene |-> file, half |-> half]
    /\ asked' = [asked EXCEPT !.times = @ + 1, !.last = file] /\ failed' = FALSE
    /\ UNCHANGED <<crossing, tree, parked, stamp, broken, built, cut>>

(* preload::unload: the parked scene of a file is freed.                    *)
Unload(file) ==
    /\ parked' = Without(parked, file)
    /\ UNCHANGED <<pending, crossing, tree, stamp, broken, built, failed, asked, cut>>

(* free_all: a memory warning, or a match that begins.                      *)
FreeAll ==
    /\ parked' = <<>>
    /\ UNCHANGED <<pending, crossing, tree, stamp, broken, built, failed, asked, cut>>

(* The game frees every node of the tree, or adds one.                      *)
Clear ==
    /\ tree' = [tree EXCEPT !.nodes = 0, !.alpha = 100]
    /\ UNCHANGED <<pending, crossing, parked, stamp, broken, built, failed, asked, cut>>

Grow ==
    /\ tree.nodes < MaxGrowth + (IF tree.file = NoFile THEN 0 ELSE SizeOf[tree.file])
    /\ tree' = [tree EXCEPT !.nodes = @ + 1]
    /\ UNCHANGED <<pending, crossing, parked, stamp, broken, built, failed, asked, cut>>

(* A file is edited, into one that builds or one that does not.             *)
Edit(file, breaks) ==
    /\ asked.edits < MaxEdits /\ asked' = [asked EXCEPT !.edits = @ + 1]
    /\ stamp' = [stamp EXCEPT ![file] = @ + 1]
    /\ broken' = IF breaks THEN broken \union {file} ELSE broken \ {file}
    /\ UNCHANGED <<pending, crossing, tree, parked, built, failed, cut>>

Init ==
    /\ pending = [scene |-> NoFile, half |-> 0] /\ crossing = NoFade
    /\ tree = Tree(Main, 1, 0) /\ parked = <<>>
    /\ stamp = [f \in Files |-> 0] /\ broken = {} /\ built = 1
    /\ failed = FALSE /\ asked = [times |-> 0, last |-> Main, edits |-> 0] /\ cut = {}

Next ==
    \/ Apply \/ FreeAll \/ Clear \/ Grow
    \/ \E f \in Files : \/ Unload(f)
                        \/ \E half \in Halves : Request(f, half)
                        \/ \E breaks \in BOOLEAN : Edit(f, breaks)

(* The frame loop ends every tick with Apply: weak fairness, its enabling    *)
(* condition written out.                                                   *)
Spec == Init /\ [][Next]_vars /\ ([]<>AtRest \/ []<><<Apply>>_vars)

-----------------------------------------------------------------------------
(* What is parked is some file's scene that can come back, of a file that   *)
(* has no other, parked or under the root, so that a switch there returns   *)
(* it or builds another and never both; and together they fit the budget.   *)
ParkedIsSound ==
    /\ \A i \in DOMAIN parked :
          /\ parked[i].file \in Files \ {tree.file} /\ parked[i].nodes \in 1..Budget
          /\ \A k \in DOMAIN parked : parked[i].file = parked[k].file => i = k
    /\ NodesOf(parked) <= Budget

(* A scene is seen whole when no fade is under way and wherever it is       *)
(* parked, but for one a cut caught in the middle of its fade.              *)
SeenWhole ==
    /\ crossing = NoFade /\ tree.number \notin cut => tree.alpha = 100
    /\ \A i \in DOMAIN parked : parked[i].number \notin cut => parked[i].alpha = 100

(* A tick that switched: another scene is under the root.                   *)
Switched == tree'.number # tree.number

(* What a switch shows was built from the files as they are, and a scene    *)
(* kept comes back as it was left, with the nodes it had, unless its files  *)
(* changed or the scene left for it took its place in the budget.           *)
KeptComesBack ==
    [][Switched /\ tree'.file # NoFile =>
          /\ tree'.from = stamp[tree'.file]
          /\ \A i \in DOMAIN parked :
                /\ tree'.file = parked[i].file /\ parked[i].from = stamp[tree'.file]
                /\ NodesOf(SubSeq(parked, i, Len(parked))) + tree.nodes <= Budget
                => tree'.number = parked[i].number /\ tree'.nodes = parked[i].nodes]_vars

(* A switch frees what it must for the budget, the scenes left longest ago, *)
(* and never the one it leaves when that alone fits.                        *)
OldestGoFirst ==
    [][Switched =>
          LET stays == {s.number : s \in Range(parked')}
          IN  /\ \A i \in DOMAIN parked :
                    parked[i].number \notin stays /\ parked[i].file # asked.last =>
                       NodesOf(SubSeq(parked, i, Len(parked))) + tree.nodes > Budget
              /\ tree.file \notin {NoFile, asked.last} /\ tree.nodes \in 1..Budget =>
                    tree.number \in stays]_vars

(* The scene asked for last is the one under the root in the end, no fade   *)
(* left over, unless it would not build.                                    *)
LastAskedIsShown ==
    <>[](AtRest /\ (failed \/ tree.file = asked.last))
=============================================================================
