----------------------------- MODULE Navigation -----------------------------
(* How a task gets to a place of the game (ZmxyOL/nav).  The map manager     *)
(* holds where it believes the game to be: an environment and a place in it, *)
(* the environment itself being one of its places.  ensure_in() looks where  *)
(* the game is, plans the shortest way along the registered paths, walks it, *)
(* and after each path waits for the sign of the place it should be at.      *)
(*                                                                           *)
(* A path is a script of the game: here it moves the game if it begins where *)
(* it is to begin, and says where it believes to be.                         *)
EXTENDS Naturals, SequencesExt

CONSTANTS
    EnvList,    \* the environments, in the order they were declared
    LocList,    \* the places, in the order they were declared: every environment is one
    EnvsOf,     \* for each place, the environments it can be reached in, in order
    Paths,      \* the registered paths: <<from, to>>
    Keeps,      \* the paths that leave the belief as it is; one between environments gets to
                \* where it begins by an ensure_in() of its own
    Goals,      \* what ensure_in() may be asked for: sequences of places
    MaxLooks,   \* looks of locate_region() after which it gives up
    MaxFaults   \* bound: what goes wrong on the side of the game

VARIABLES
    real,       \* where the game is: [env, loc]
    covered,    \* whether something hides the signs
    belief,     \* where the map manager believes it to be: [env, loc], Unknown before the first look
    pc,         \* "idle", "locate", "plan", "walk", "confirm", "there", "failed"
    goal,       \* the place to get to, one of several
    target,     \* what was decided on: [env, loc]
    route,      \* the paths still to be walked
    looks,      \* looks of locate_region()
    faults,     \* what went wrong on the side of the game
    \* history
    sure,       \* whether the game has stayed where the last look saw it
    clean,      \* whether nothing went wrong during this ensure_in(), and the map has a way
    wasted      \* calls in a row that failed although nothing went wrong

vars == <<real, covered, belief, pc, goal, target, route, looks, faults, sure, clean, wasted>>

Nowhere == "nowhere"
Unknown == [env |-> Nowhere, loc |-> Nowhere]

Envs == ToSet(EnvList)
Locs == ToSet(LocList)
LocsOf(e) == {l \in Locs : e \in ToSet(EnvsOf[l])}
Places == {p \in [env : Envs, loc : Locs] : p.loc \in LocsOf(p.env)}

-----------------------------------------------------------------------------
(* The routes: floyd_warshall over the paths between environments, and, for  *)
(* each environment, over those between its places.                          *)
EnvPaths == {p \in Paths : p[1] \in Envs /\ p[2] \in Envs}
LocPaths(e) == {p \in Paths : p[1] \in LocsOf(e) /\ p[2] \in LocsOf(e)}

\* Where one gets in at most n steps; the fewest steps, Far if there is no way.
Far == Len(LocList)
Within(edges, from) ==
    LET reach[n \in 0..Far] ==
            IF n = 0 THEN {from}
            ELSE LET before == reach[n - 1]
                 IN  before \cup {p[2] : p \in {q \in edges : q[1] \in before}}
    IN  reach
Distance(edges, from, to) ==
    LET reach == Within(edges, from)
        steps == {n \in 0..Far - 1 : to \in reach[n]}
    IN  IF steps = {} THEN Far ELSE CHOOSE n \in steps : \A k \in steps : n <= k

\* The ways the predecessors of a shortest-path tree may give, from their ends; none if there is none.
Routes(edges, from, to) ==
    LET steps == Distance(edges, from, to)
        ways[n \in 0..Far] ==       \* the last n paths of such a way
            IF n = 0 THEN {<<>>}
            ELSE UNION {{<<p>> \o w : p \in {q \in edges :
                            /\ q[2] = (IF w = <<>> THEN to ELSE Head(w)[1])
                            /\ Distance(edges, from, q[1]) = steps - n}} : w \in ways[n - 1]}
    IN  IF steps = Far THEN {} ELSE ways[steps]

\* get_nearest_env: the first of the list stays unless another is nearer than the environment whose
\* number in the declaration is the first's place in the list.
EnvNumber(n) == EnvList[n + 1]
NearestOf(from, envOf, list) ==
    LET better(i, n) == Distance(EnvPaths, from, envOf[list[i]]) < Distance(EnvPaths, from, EnvNumber(n))
        best[i \in 0..Len(list)] ==
            IF i = 0 THEN 0 ELSE IF better(i, best[i - 1]) THEN i - 1 ELSE best[i - 1]
    IN  list[best[Len(list)] + 1]

\* The environment a place is in, as seen from the one believed to be in.
EnvOf(l, cur) ==
    IF cur \in ToSet(EnvsOf[l]) THEN cur
    ELSE NearestOf(cur, [e \in Envs |-> e], EnvsOf[l])

\* What ensure_in() makes of a list.
Nearest(list, cur) ==
    IF Len(list) = 1 THEN list[1]
    ELSE NearestOf(cur, [l \in ToSet(list) |-> EnvOf(l, cur)], list)

\* navigate_to: out of the place, from environment to environment, and to the place.
Ways(from, to) ==
    IF from.env = to.env THEN Routes(LocPaths(from.env), from.loc, to.loc)
    ELSE {a \o b \o c : a \in Routes(LocPaths(from.env), from.loc, from.env),
                        b \in Routes(EnvPaths, from.env, to.env),
                        c \in Routes(LocPaths(to.env), to.env, to.loc)}

-----------------------------------------------------------------------------
Init ==
    /\ real \in Places /\ covered = FALSE /\ belief \in Places \cup {Unknown}
    /\ pc = "idle" /\ goal = <<>> /\ target = Unknown /\ route = <<>> /\ looks = 0 /\ faults = 0
    /\ sure = FALSE /\ clean = TRUE /\ wasted = 0

EnsureIn(list) ==
    /\ pc = "idle"
    /\ pc' = "locate" /\ goal' = list /\ looks' = 0 /\ clean' = ~covered
    /\ UNCHANGED <<real, covered, belief, target, route, faults, sure, wasted>>

\* The sign of a place is on the screen.
Seen(l) == ~covered /\ real.loc = l

\* Mutant: the believed place is not looked for.
Assumed ==
    IF belief # Unknown THEN belief
    ELSE IF \E l \in Locs : Seen(l) THEN [env |-> EnvsOf[real.loc][1], loc |-> real.loc]
    ELSE Unknown

\* locate_region(): the place believed in, its environment, then every environment, then every
\* place, which is taken to be in the first of its environments.
Recognised ==
    IF belief # Unknown /\ Seen(belief.loc) THEN belief
    ELSE IF \E e \in Envs : Seen(e) THEN [env |-> real.loc, loc |-> real.loc]
    ELSE IF \E l \in Locs : Seen(l) THEN [env |-> EnvsOf[real.loc][1], loc |-> real.loc]
    ELSE Unknown
Locate ==
    /\ pc = "locate"
    /\ \/ /\ Recognised # Unknown
          /\ belief' = Recognised /\ sure' = TRUE /\ pc' = "plan"
          /\ UNCHANGED <<looks, covered>>
       \/ /\ Recognised = Unknown /\ looks < MaxLooks
          /\ looks' = looks + 1
          /\ covered' \in (IF looks % 2 = 0 THEN BOOLEAN ELSE {covered})
          /\ UNCHANGED <<belief, sure, pc>>
       \/ /\ Recognised = Unknown /\ looks = MaxLooks
          /\ pc' = "failed"
          /\ UNCHANGED <<belief, sure, looks, covered>>
    /\ UNCHANGED <<real, goal, target, route, faults, clean, wasted>>

\* Where the map manager believes the game to be once a leg of the way is missing: it sets itself
\* where the leg begins, and is set back when the leg was found.
Stranded(from, to) ==
    IF from.env # to.env /\ Routes(LocPaths(from.env), from.loc, from.env) # {}
                         /\ Routes(EnvPaths, from.env, to.env) # {}
    THEN [env |-> to.env, loc |-> to.env] ELSE from

\* The place is decided on, and the way to it; or the map has none.
Plan ==
    /\ pc = "plan"
    /\ LET loc == Nearest(goal, belief.env)
           to == [env |-> EnvOf(loc, belief.env), loc |-> loc]
       IN  /\ target' = to
           /\ \/ belief.loc = loc /\ pc' = "there" /\ route' = <<>> /\ UNCHANGED <<belief, clean>>
              \/ /\ belief.loc # loc /\ route' \in Ways(belief, to) /\ pc' = "walk"
                 /\ UNCHANGED <<belief, clean>>
              \/ /\ belief.loc # loc /\ Ways(belief, to) = {} /\ pc' = "failed" /\ route' = <<>>
                 /\ belief' = Stranded(belief, to) /\ clean' = FALSE
    /\ UNCHANGED <<real, covered, goal, looks, faults, sure, wasted>>

\* What a path says of where it has come to.
Claimed(p) ==
    IF p \in Keeps THEN belief
    ELSE IF p[2] \in Envs /\ p[1] \notin LocsOf(p[2]) THEN [env |-> p[2], loc |-> p[2]]
    ELSE IF p[2] \in Envs THEN [env |-> belief.env, loc |-> belief.env]
    ELSE [env |-> belief.env, loc |-> p[2]]

\* Where a path takes the game: a place of the same environment, or another environment.
Led(p) ==
    IF p[2] \notin Envs THEN [env |-> real.env, loc |-> p[2]]
    ELSE IF p[1] \in LocsOf(p[2]) /\ p[2] # real.env THEN [env |-> real.env, loc |-> real.env]
    ELSE [env |-> p[2], loc |-> p[2]]

\* A path is walked.  If the game is not where it begins, or hides its buttons, its clicks find
\* nothing, and it raises; and it may go wrong although all is as it should be.
Walk ==
    /\ pc = "walk" /\ route # <<>>
    /\ LET p == Head(route) IN
       \/ /\ Seen(p[1])
          /\ real' = Led(p) /\ belief' = Claimed(p) /\ pc' = "confirm"
          /\ UNCHANGED <<faults, clean>>
       \/ /\ p \in Keeps \cap EnvPaths /\ ~covered /\ ~Seen(p[1])
          /\ Ways(Recognised, [env |-> p[1], loc |-> p[1]]) # {}
          /\ real' = [env |-> p[2], loc |-> p[2]] /\ belief' = [env |-> p[1], loc |-> p[1]]
          /\ pc' = "confirm"
          /\ UNCHANGED <<faults, clean>>
       \/ /\ ~Seen(p[1]) /\ pc' = "failed"
          /\ UNCHANGED <<real, belief, faults, clean>>
       \/ /\ faults < MaxFaults /\ faults' = faults + 1 /\ clean' = FALSE
          /\ real' \in (IF Seen(p[1]) THEN {real, Led(p)} ELSE {real})
          /\ \/ pc' = "confirm" /\ belief' = Claimed(p)
             \/ pc' = "failed" /\ belief' \in {belief, Claimed(p)}
    /\ UNCHANGED <<covered, goal, target, route, looks, sure, wasted>>

\* wait_for_appear() of the sign of the place the path leads to.
Confirm ==
    /\ pc = "confirm"
    /\ \/ Seen(Head(route)[2]) /\ pc' = "walk" /\ route' = Tail(route) /\ sure' = TRUE
       \/ ~Seen(Head(route)[2]) /\ pc' = "failed" /\ UNCHANGED <<route, sure>>
    /\ UNCHANGED <<real, covered, belief, goal, target, looks, faults, clean, wasted>>

Arrive ==
    /\ pc = "walk" /\ route = <<>>
    /\ belief' = target /\ pc' = "there"
    /\ UNCHANGED <<real, covered, goal, target, route, looks, faults, sure, clean, wasted>>

Return ==
    /\ pc \in {"there", "failed"}
    /\ wasted' = IF pc = "failed" /\ clean THEN wasted + 1 ELSE 0
    /\ pc' = "idle" /\ goal' = <<>> /\ target' = Unknown /\ route' = <<>> /\ looks' = 0
    /\ clean' = TRUE
    /\ UNCHANGED <<real, covered, belief, faults, sure>>

\* The user, a battle or the game takes the game elsewhere, or something comes up over it.
Elsewhere ==
    /\ faults < MaxFaults /\ faults' = faults + 1
    /\ \/ real' \in Places \ {real} /\ UNCHANGED covered
       \/ covered' = ~covered /\ UNCHANGED real
    /\ sure' = FALSE /\ clean' = FALSE /\ wasted' = 0
    /\ UNCHANGED <<belief, pc, goal, target, route, looks>>

Next ==
    \/ \E list \in Goals : EnsureIn(list)
    \/ Locate \/ Plan \/ Walk \/ Confirm \/ Arrive \/ Return \/ Elsewhere

Spec == Init /\ [][Next]_vars

-----------------------------------------------------------------------------
\* The belief, if there is one, is a place of the map.
TypeOK ==
    /\ real \in Places /\ belief \in Places \cup {Unknown} /\ target \in Places \cup {Unknown}
    /\ pc \in {"idle", "locate", "plan", "walk", "confirm", "there", "failed"}
    /\ route \in Seq(Paths) /\ looks \in 0..MaxLooks /\ faults \in 0..MaxFaults

\* A call that comes back without an exception has come to a place it was asked for, unless the
\* game was moved after the last sign of it was seen; and then the belief is right, but for the
\* environment of a place that several have.
ArrivalIsTrue ==
    pc = "there" /\ sure =>
        /\ real.loc \in ToSet(goal) /\ belief.loc = real.loc
        /\ Len(EnvsOf[real.loc]) = 1 => belief = real

\* The way goes on from path to path, from where the game is believed to be to where it is to
\* get, and never through a place twice.
RouteFits ==
    pc = "walk" /\ route # <<>> =>
        /\ Last(route)[2] = target.loc
        /\ \A i \in 1..Len(route) - 1 : route[i][2] = route[i + 1][1]
        /\ \A i, j \in DOMAIN route : i # j => route[i][2] # route[j][2]

\* A wrong belief costs one call at most: the call that fails on it has seen where the game is
\* not, and the next one gets there.
OneWastedCall == wasted <= 1

\* All of the above.
NavigationIsSound == TypeOK /\ ArrivalIsTrue /\ RouteFits /\ OneWastedCall
=============================================================================
