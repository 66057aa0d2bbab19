-------------------------------- MODULE Cache --------------------------------
(***************************************************************************)
(* The evaluation cache (lib/cache.c) and its users in eval.c: buckets of  *)
(* two entries, found by the hash of a position key and of the evaluation  *)
(* context that EvalKey packs into an int.  An evaluation of some plies    *)
(* evaluates the positions after it through the same cache before its own  *)
(* result is added.  What a position evaluates to is not modelled: the     *)
(* value is the list of everything it depends on.                          *)
(***************************************************************************)
EXTENDS EvalContext, SequencesExt

CONSTANTS Positions,     \* position keys
          Contexts,      \* the contexts positions are evaluated in
          Decisions,     \* those of them in which cube decisions are asked for
          Tables,        \* match equity tables
          Efficiencies,  \* parameters of EvalEfficiency
          Variations,    \* variations of the game (bgv)
          Sizes,         \* arguments of `set cache'
          Hash           \* the hash of a position and a packed context

VARIABLES cEval,   \* size, hashMask and entries of the cache
          cCache,  \* the number of entries in use, 0 to do without
          met,     \* the match equity table
          rCubeX,  \* the cube efficiencies
          bgv,     \* the variation of the game
          calls    \* evaluations under way, innermost last

cvars == <<cEval, cCache, met, rCubeX, bgv, calls>>
settings == <<met, rCubeX, bgv>>

Empty == [key |-> "none"]  \* what CacheFlush makes of an entry

-----------------------------------------------------------------------------
(* Contexts and what is evaluated in them.                                 *)

\* The contexts of the evaluations nested in one.
Below(c) ==
    UNION {IF c.nPlies > 0 THEN {Shallower(Opponents(c)), Scored(c)} ELSE {},
           IF c.nPlies > 0 /\ c.fCubefulEquity /\ GetDPEq(c)
           THEN {Shallower(Opponents(Doubled(c)))} ELSE {},
           IF c.fCubefulEquity THEN {Basic(c)} ELSE {}}

\* The packed contexts, computed once.
Packed == [c \in Contexts |-> EvalKey(c)]

ASSUME ContextsAssumption ==
    /\ \A c \in Contexts : LegalContext(c) /\ Below(c) \subseteq Contexts
    /\ \A c \in Decisions : c.fCubefulEquity /\ {c, Doubled(c)} \subseteq Contexts

\* Hash is an unsigned number, and more than 2^31 entries are refused; TLC's
\* integers leave 2^30.
ASSUME CacheAssumption ==
    /\ \A pos \in Positions, c \in Contexts : Hash[pos, Packed[c]] \in Nat
    /\ Sizes \subseteq 0..2^30

\* What is at stake: the score or the rules, and the cube; nothing but the
\* chances of the game in a session without the cube.
Stakes(c) ==
    IF c.nMatchTo > 0
    THEN <<"match", c.nMatchTo - c.anScore[c.fMove], c.nMatchTo - c.anScore[1 - c.fMove],
           c.nCube, c.fCubeOwner = -1, c.fCubeOwner = c.fMove, c.fCrawford>>
    ELSE IF c.fCubeful \/ c.fCubefulEquity
    THEN <<"money", c.fCubeOwner = -1, c.fCubeOwner = c.fMove, c.fJacoby, c.fBeavers>>
    ELSE <<"cubeless money">>

Static(c) == c.nPlies = 0 /\ ~ c.fCubefulEquity

\* What an evaluation says: the value of a position, for a static evaluation
\* of itself alone, for any other at these plies for these stakes, by the
\* table in a match.
What(pos, c, table, v) ==
    IF Static(c) THEN <<pos, v>>
    ELSE <<pos, v, c.nPlies, c.fCubeful, c.nPlies > 0 /\ c.fUsePrune, c.fCubefulEquity,
           Stakes(c), IF c.nMatchTo > 0 THEN table ELSE "no table">>

\* How it came about: the stakes its moves were scored for, and the cube
\* efficiencies, on which cubeful equities and the moves they choose depend.
\* What nested evaluations found in the cache is not traced: as long as every
\* entry is what would be computed, so is that.
How(c, pciMove, x) ==
    <<IF c.nPlies > 0 THEN Stakes(Scored(pciMove)) ELSE <<"no moves">>,
      IF ~ Static(c) /\ (c.fCubeful \/ c.fCubefulEquity) THEN x ELSE "no cube">>

Value(pos, c, pciMove, table, v, x) ==
    [what |-> What(pos, c, table, v), how |-> How(c, pciMove, x)]

-----------------------------------------------------------------------------
(* cache.c.                                                                *)

\* The size is made a power of two, and half of it is the number of buckets.
Rounded(s) == IF s = 0 THEN 0 ELSE CHOOSE p \in {2^i : i \in 0..30} : s <= p /\ p < 2 * s

\* Mutant of CacheCreate: the mask is that of the entries.
CacheCreateMask(s) ==
    [size     |-> Rounded(s),
     hashMask |-> Rounded(s) - 1,
     entries  |-> [l \in 0..(Rounded(s) \div 2)-1 |-> <<Empty, Empty>>]]

\* A hashMask of -1 stands for 0xffffffff: no bit is masked.
CacheCreate(s) ==
    [size     |-> Rounded(s),
     hashMask |-> Rounded(s) \div 2 - 1,
     entries  |-> [l \in 0..(Rounded(s) \div 2)-1 |-> <<Empty, Empty>>]]

CacheFlush(pc) == [pc EXCEPT !.entries = [l \in DOMAIN @ |-> <<Empty, Empty>>]]

GetHashKey(pc, pos, ctx) ==
    IF pc.hashMask = -1 THEN Hash[pos, ctx] ELSE Hash[pos, ctx] % (pc.hashMask + 1)

Is(e, pos, ctx) == e # Empty /\ e.key = pos /\ e.nEvalContext = ctx

\* Whether a lookup hits, and the cache it leaves: the entry found in second
\* place is promoted.
CacheLookup(pc, pos, ctx) ==
    LET l == GetHashKey(pc, pos, ctx)
        b == pc.entries[l]
    IN  IF Is(b[1], pos, ctx) THEN [hit |-> TRUE, ar |-> b[1].ar, cache |-> pc]
        ELSE IF Is(b[2], pos, ctx)
        THEN [hit |-> TRUE, ar |-> b[2].ar, cache |-> [pc EXCEPT !.entries[l] = <<b[2], b[1]>>]]
        ELSE [hit |-> FALSE, ar |-> <<>>, cache |-> pc]

CacheAdd(pc, pos, ctx, ar) ==
    LET l == GetHashKey(pc, pos, ctx)
    IN  [pc EXCEPT !.entries[l] = <<[key |-> pos, nEvalContext |-> ctx, ar |-> ar], @[1]>>]

CacheResize(pc, n) == IF n = pc.size THEN pc ELSE CacheCreate(n)

-----------------------------------------------------------------------------
(* Evaluations.                                                            *)

\* A request: the cube positions to evaluate for, the one that moves are
\* chosen for, and fTop.
Single(c) == [aci |-> <<c>>, pciMove |-> c, fTop |-> FALSE]

CubeDecision(c) == [aci |-> <<c, Doubled(c)>>, pciMove |-> c, fTop |-> TRUE]

\* The position after a roll and its best move, at a ply less.
NextPly(e) ==
    LET c   == Shallower(Opponents(e.pciMove))
        aci == MakeCubePos(e.aci, e.fTop)
    IN  IF e.pciMove.fCubefulEquity
        THEN [aci |-> [i \in DOMAIN aci |-> Shallower(aci[i])], pciMove |-> c, fTop |-> FALSE]
        ELSE Single(c)

\* A position is asked for by itself or for a cube decision; in the innermost
\* evaluation, to score a move, after a move, or at a leaf.
Requests ==
    IF calls = <<>> THEN {Single(c) : c \in Contexts} \cup {CubeDecision(c) : c \in Decisions}
    ELSE LET e == Last(calls)
         IN  (IF e.pciMove.nPlies > 0 THEN {NextPly(e), Single(Scored(e.pciMove))} ELSE {})
             \cup (IF e.pciMove.fCubefulEquity THEN {Single(Basic(e.pciMove))} ELSE {})

\* The lookups for the cube positions of a request, up to the first that misses.
LookupAll(pc, pos, aci) ==
    LET found[k \in 0..Len(aci)] ==
            IF k = 0 THEN [hit |-> TRUE, ar |-> <<>>, cache |-> pc]
            ELSE IF found[k - 1].hit /\ aci[k].nCube >= 0
            THEN CacheLookup(found[k - 1].cache, pos, Packed[aci[k]])
            ELSE found[k - 1]
    IN  found[Len(aci)]

\* Mutant of AddAll: the key is that of the context moves are chosen for.
AddAllMover(pc, pos, e, table, v, x) ==
    LET added[k \in 0..Len(e.aci)] ==
            IF k = 0 THEN pc
            ELSE IF e.aci[k].nCube < 0 THEN added[k - 1]
            ELSE CacheAdd(added[k - 1], pos, Packed[e.pciMove],
                          Value(pos, e.aci[k], e.pciMove, table, v, x))
    IN  added[Len(e.aci)]

\* The results for all cube positions are added.
AddAll(pc, pos, e, table, v, x) ==
    LET added[k \in 0..Len(e.aci)] ==
            IF k = 0 THEN pc
            ELSE IF e.aci[k].nCube < 0 THEN added[k - 1]
            ELSE CacheAdd(added[k - 1], pos, Packed[e.aci[k]],
                          Value(pos, e.aci[k], e.pciMove, table, v, x))
    IN  added[Len(e.aci)]

\* The beginning of an evaluation; those for a cube decision are not looked up.
Evaluate(pos, q) ==
    /\ LET r     == LookupAll(cEval, pos, q.aci)
           Begin == calls' = Append(calls, [pos |-> pos, aci |-> q.aci,
                                            pciMove |-> q.pciMove, fTop |-> q.fTop])
       IN  IF cCache = 0 \/ q.fTop THEN Begin /\ UNCHANGED cEval
           ELSE /\ cEval' = r.cache
                /\ IF r.hit THEN UNCHANGED calls ELSE Begin
    /\ UNCHANGED <<cCache, settings>>

EvaluatePositionCache(pos) ==
    \E q \in Requests : ~ q.pciMove.fCubefulEquity /\ Evaluate(pos, q)

EvaluatePositionCubeful3(pos) ==
    \E q \in Requests : q.pciMove.fCubefulEquity /\ Evaluate(pos, q)

\* The innermost evaluation is complete: its results are added, those that
\* were found at the lookup once more.
Evaluated ==
    /\ calls # <<>>
    /\ LET e == Last(calls)
       IN  cEval' = IF cCache = 0 \/ e.fTop THEN cEval
                    ELSE AddAll(cEval, e.pos, e, met, bgv, rCubeX)
    /\ calls' = Front(calls)
    /\ UNCHANGED <<cCache, settings>>

\* fInterrupt, seen before a roll: every call returns -1 without adding anything.
Interrupted ==
    /\ calls # <<>> /\ Last(calls).pciMove.nPlies > 0
    /\ calls' = <<>>
    /\ UNCHANGED <<cEval, cCache, settings>>

-----------------------------------------------------------------------------
(* Commands; none runs during an evaluation.                               *)

\* Mutant of CommandSetMET: the cache is kept.
CommandSetMETKept(table) ==
    calls = <<>> /\ met' = table /\ UNCHANGED <<cEval, cCache, rCubeX, bgv, calls>>

\* CommandSetMET, and `set invert met' (SetInvertMET).
CommandSetMET(table) ==
    /\ calls = <<>>
    /\ met' = table
    /\ cEval' = CacheFlush(cEval)
    /\ UNCHANGED <<cCache, rCubeX, bgv, calls>>

\* `set cubeefficiency': the cache is kept.
SetEfficiency(x) ==
    calls = <<>> /\ rCubeX' = x /\ UNCHANGED <<cEval, cCache, met, bgv, calls>>

CommandSetCache(n) ==
    /\ calls = <<>>
    /\ cEval' = CacheResize(cEval, n)
    /\ cCache' = cEval'.size
    /\ UNCHANGED <<settings, calls>>

CommandClearCache ==
    calls = <<>> /\ cEval' = CacheFlush(cEval) /\ UNCHANGED <<cCache, settings, calls>>

\* `set variation' and a new match or session: the cache is kept.
NewVariation(v) ==
    calls = <<>> /\ bgv' = v /\ UNCHANGED <<cEval, cCache, met, rCubeX, calls>>

\* EvalInitialise, with one of the sizes.
CacheInit ==
    /\ \E n \in Sizes : cEval = CacheCreate(n)
    /\ cCache = cEval.size
    /\ met \in Tables /\ rCubeX \in Efficiencies /\ bgv \in Variations
    /\ calls = <<>>

CacheNext ==
    \/ \E pos \in Positions : EvaluatePositionCache(pos) \/ EvaluatePositionCubeful3(pos)
    \/ Evaluated
    \/ Interrupted
    \/ \E t \in Tables : CommandSetMET(t)
    \/ \E x \in Efficiencies : SetEfficiency(x)
    \/ \E n \in Sizes : CommandSetCache(n)
    \/ CommandClearCache
    \/ \E v \in Variations : NewVariation(v)

CacheSpec == CacheInit /\ [][CacheNext]_cvars

-----------------------------------------------------------------------------
(* Properties.                                                             *)

\* What an evaluation finds in the cache is a value of its position at its
\* plies, for its score, cube and rules, by the table now in use: no entry
\* outlives a change of the table, the results for several cube positions are
\* not mixed up, and contexts with different stakes do not share a packed key.
CacheAnswers ==
    cCache # 0 =>
        \A pos \in Positions, c \in Contexts :
            LET r == CacheLookup(cEval, pos, Packed[c])
            IN  r.hit => r.ar.what = What(pos, c, met, bgv)

\* What the code does not promise, that it is the value that would be computed
\* now: the efficiencies may have changed since, and the moves may have been
\* chosen for another cube position.
CacheFresh ==
    cCache # 0 =>
        \A pos \in Positions, c \in Contexts :
            LET r == CacheLookup(cEval, pos, Packed[c])
            IN  r.hit => r.ar = Value(pos, c, c, met, bgv, rCubeX)

\* While the cache is in use the masked hash names one of its buckets, after
\* every resizing.
LookupsInTable ==
    cCache # 0 =>
        \A pos \in Positions, c \in Contexts :
            GetHashKey(cEval, pos, Packed[c]) \in DOMAIN cEval.entries
=============================================================================
