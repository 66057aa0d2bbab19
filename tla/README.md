# GNU Backgammon for the web: a TLA+ verification

gnubg-web is GNU Backgammon 1.05 (C, `src/gnubg`) compiled by Emscripten with
`-DWEB=1` and driven by a page (`src/gnubg_web.html`, `src/graphics.js`).  This
project models the program a player meets: the match state `ms`, the list of
games and records and the commands that change them; chequer play and its legal
moves; the page with its timers; editing and navigating a match; the IDs in which
positions and matches are copied; and the cache the computer's evaluations go
through.

## 1. Inventory

| Part | State | Operations | Interaction |
|---|---|---|---|
| Match records (`play.c`, `backgammon.h`) | `moverecord`s of ten types, `matchstate` | `ApplyMoveRecord`, `PlayMove`, `FixMatchState`, `CalculateBoard` | called by every command and by navigation |
| Match play (`play.c`) | `ms`, `lMatch`, `plGame`, `plLastMove`, `fNextTurn`, `automaticTask` | `double`, `redouble`/`beaver`, `take`, `drop`, `accept`, `reject`, `resign`, `agree`, `decline`, `roll`, `move`, `play`, `new game`, `new match`, `new session`; `NextTurn`, `ComputerTurn` | commands call each other and `TurnDone`, which schedules `NextTurn` |
| Navigation (`play.c`) | the same | `next`, `previous`, `first move`, `first game`, `next/previous game`, `roll`, `rolled` | rebuilds `ms` from records |
| Command loop (`gnubg.c`) | `fNextTurn` | `run_cl` in the terminal, `run_command` and `doNextTurn` on the web, `GetInputYN` | decides whether a command may come before a pending `NextTurn` |
| Editing (`set.c`, `play.c`) | `ms`, records | `set board`, `set dice`, `set cube`, `set turn`, `set score`, `set crawford`, `set postcrawford`, `clear turn`, `set matchid` | partly through records, partly straight into `ms` and the GAMEINFO record |
| Web page (`gnubg_web.html`, `graphics.js`) | timers, `resignationOfferPending`, `lastBoard`, enabled buttons | `gnubgCommand`, `writeLog`, `updateBoard`, `drawBoard` | parses gnubg's output, calls `doNextTurn` from timers |
| Chequer play (`eval.c`, `play.c`, `drawboard.c`) | board, dice | `GenerateMoves`, `ApplyMove`, `PlayMove`, `GameStatus`, `roll`, `move` | the generator is asked by `roll`, `move` and the evaluation; a record replays what it listed |
| Lists (`lib/list.c`) | circular lists with a header node | insert, delete | holds `lMatch` and each game |
| Encodings (`positionid.c`, `matchid.c`) | none | keys, position and match IDs, bearoff numbers | move lists, records, cache, `set board`, `set matchid`, databases |
| Evaluation cache (`lib/cache.c`, `eval.c`) | entries, size, `cCache` | `CacheLookup`, `CacheAdd`, `CacheFlush`, `CacheResize`, `EvalKey` | every evaluation; `set met`, `set cache`, `clear cache` flush or replace it, `set cubeefficiency`, `set variation` and a new match or session do not |
| Evaluation (`eval.c`, `matchequity.c`, `bearoff.c`, `lib/neuralnet.c`) | tables, weights | equities, cube decisions | asked by `ComputerTurn` |
| Dice (`dice.c`), rollouts, analysis, import/export, display, database | various | | off the path of match play |

What is hard here:

* `ms` is changed in two ways, by records and directly (a resignation, the
  computer's dice, the turn), and is rebuilt from the records alone when the
  user moves through the match;
* three variables - whose turn (`fTurn`), who is on roll (`fMove`),
  who owns the cube (`fCubeOwner`) - are toggled by a dozen handlers, and the
  board is stored from the point of view of one of them;
* on the web a command may run between a handler and the `NextTurn` it
  scheduled, which cannot happen in the terminal;
* records are deleted when play goes on from an earlier point, and data derived
  from deleted records may stay behind;
* the page learns what happened from lines of text, and a timer set by one line
  is all that makes the program go on;
* the same things are coded twice: a move is applied by `ApplySubMove` and by
  `PlayMove`, a flag is kept in `ms` and in a record, a board has two keys;
* score, Crawford flags, game counts and automatic doubles are carried from
  game to game.

The list of hazards, line by line, is in `PROJECT.json`.

## 2. Modules

`MatchState` (constants only, no variables) has the types of the match state and
of the records, and the pure functions of `play.c` that turn the one into the
other, under the names they have in C.  A position is abstracted to the player
whose chequers `anBoard[1]` holds (`side`; `NoOne` for the symmetric starting
position) and to what `GameStatus` says of it (`st`), since the match logic
reads no more; a roll is abstracted to whether there are dice.  A game is its
`MOVE_GAMEINFO` record (`info`) and the sequence of its other records.

`Match` is playing.  Its variables are the C globals; `plGame` and `plLastMove`
are indices instead of list pointers, 0 being `NULL` or, for `plLastMove`, the
GAMEINFO record.  `aborted` names the `g_assert` that failed, and `prompt` the
answer the last step got to a yes/no question, for the properties to read.
Handlers in C call other handlers, so each is an operator from a record of all
variables to the one it leaves (or to the set of those it may leave); an early
return is the state itself.  The actions `DoDouble`, `DoResign`, ... install the
result.  What the evaluation decides (resign, double, take, which move) and what
the dice bring is any choice the control flow of `ComputerTurn` and
`CommandRoll` allows; a chequer play is chosen by the `GameStatus` it leads to.
The settings (`set automatic ...`, `set beavers`, `set confirm new`,
`set display`, the player types) are constants, as they are during a match.

Two constants describe the environment: `CommandsWhilePending` (a command may
come while `fNextTurn` is set: the web page; otherwise the loop of `run_cl`),
and `ResolveFirst` (the user answers a resignation before he resigns, doubles or
steps forward; `CommandRoll` insists on it, the other commands do not).

`MatchHistory` extends `Match` with the navigation commands.  `next n` and
`previous n` are repeated single steps.  `NewGameAnywhere` says whether the user
types `new game` at the end of a game that is not the last one.

`MatchRules` is the abstract specification: what a match is to its players.  Its
state is the length, the score, the cube with its owner, the offer on the table
and whether the game is the Crawford game; its actions are the rules (`Double`,
`Beaver`, `Take`, `Drop`, `Win`, `OfferToResign`, ...).  It knows no board, no
record, no prompt and no computer.  `Match` maps its state to it (`Rules`), and
`ImplementsRules` says that every step of the program is one of the rules or
invisible.  The Crawford game is left open there to the games in which the rule
can allow it; which of them it is, is `CrawfordRule`.

`MatchEdit` extends `MatchHistory` with the commands that edit a match.  Three
constants describe a careful user: `QuietEdits` (no editing while a cube or a
resignation is waiting), `TurnRecorded` (the board and the cube are set only
where the records tell whose turn it is) and `FlagsInGame` (the Crawford flags
are set only during a game).  With any of them FALSE TLC finds one of the
properties violated; the hazards in `PROJECT.json` say which.

`Web` extends `Match` with the page.  An action is a command or a timer; its
second half is what the page makes of the lines the program printed: each `board:`
or `offers to resign` line goes through `updateBoard` and sets a timer.  Which
lines a handler prints is a function of the match states before and after it.
`timers` counts to `MaxTimers`, which stands for that many or more.  The user
plays on only within `MaxGames` and `MaxRecords`, so the run needs no state
constraint and its liveness is that of the whole state space.

`Moves` is chequer play on a board whose number of points, home points and
chequers are constants (24, 6 and 15 in the program).  `GenerateMovesSub` is the
recursion of the C code with its early cuts; `RuleBoards` states the rules of the
game without it.

`IDs` has the encodings bit by bit, a bit string being the set of the places of
its ones.  `EvalContext` has the context of an evaluation, how the contexts of
nested evaluations come from it (`MakeCubePos`), and `EvalKey` bit by bit.
`Cache` has the two-entry buckets and the evaluations: a request is for one cube
position or, in a cubeful evaluation of some plies, for several, with one
(`pciMove`) for which the moves are chosen; it makes the nested requests of the
code, for scoring moves at 0 plies, for the positions a ply on and for the static
evaluation at a leaf, before its own results are added.  The value of an
evaluation is the list of what it depends on, in two parts: `What` it is the value
of (position, variation, plies, stakes, table) and `How` it came about (the cube
position its moves were chosen for, the cube efficiencies).

`MCMatch`, `MCMatchHistory`, `MCMatchEdit`, `MCWeb`, `MCMoves`, `MCIDs` and
`MCCache` name the bounds, player types and samples of the runs.  The theorems
are in `MatchProofs` (the invariant of `Match`), `RulesProofs` (the Crawford
game, and `Match` implements `MatchRules`), `WebProofs` (the page implements
`Match`, its timers, and what it shows), `ReplayProofs` (what the records of a
game are, and what a replay of them gives), `HistoryProofs` (play and navigation
interleaved, and when records are lost), `CacheProofs`, `IDProofs` (the codings)
and `Induction` (induction over numbers, and powers of two).

Definitions whose comment begins with "Mutant of" are variants with a plausible
bug.  No specification uses them; put in place of the original they violate the
property they are listed with, which shows that the property can fail.

## 3. Properties and runs

| Run | Instance | Shows |
|---|---|---|
| `game_cube` | human against computer, commands also while a turn is pending, one game of a session or of a 3-point match, at most 6 records, cube limit 16, 2 beavers, 1 automatic double, Jacoby, games ended by gammons, drops and resignations | `TypeOK`, `TurnWithDecider`, `CubeScenarios`, `CubeWithinLimits`, `BoardShowsMover`, `ImplementsRules` |
| `match_humans` | 3-point matches, at most 4 games of at most 2 records, single games and gammons played out, resignations of 2 and nonsense | `ScoreChain`, `CrawfordRule`, `CrawfordCubeless`, `NoAssertionFails`, `ImplementsRules` |
| `web_page` | human against computer, sessions and 2-point matches, games of at most 3 records ended by gammons, drops and open resignations, beavers, commands while timers are pending | `TimerPending`, `PageServes`, `NoAssertionFails`, `GnuPlays`, `ImplementsRules` |
| `history` | two humans, 2-point matches of 3 games of at most 2 records, a session game of at most 5 records with beaver, raccoon and automatic double, Jacoby, gammons, all navigation | `BoardShowsMover`, `ScoreChain`, `ReplayAgrees`, `NavigationKeepsRecords`, `DiscardNeedsYes` |
| `edit` | a 2-point match or a loaded match ID, one game of at most 2 records, scores 0 and 1 with all Crawford marks, all editing and navigation | `TurnWithDecider`, `BoardShowsMover`, `EditsReplay`, `FlagsRecorded`, `NoAssertionFails` |
| `moves` | all games on 5 points with a home of 2 and 5 chequers a side | `ListsLegalMoves`, `RecordsReplay`, `ListedMovesTypable`, `PositionsValid`, `MoverWins` |
| `ids` | sampled boards of 24 points and match states at the ends of every field | `PositionIDLoads`, `KeysLossless`, `MatchIDLoads`, `BearoffNumbered` |
| `cache` | 1 position, the contexts of a 1-ply cube decision in a 2-point match and of a 2-ply session evaluation without the cube, 2 equity tables, 2 sets of cube efficiencies, caches of 0 to 4 entries | `LookupsInTable`, `CacheAnswers` |

`TurnWithDecider` is the invariant every command relies on when it tests
`ap[ms.fTurn].pt`.  `CubeScenarios` is the comment in `ComputerTurn`.
`ScoreChain` is the ledger of the match: each game starts where the one before
it ended.  `CrawfordRule` compares the flags `NextTurn` computes incrementally
with the definition of the Crawford game over the whole match.  `ReplayAgrees`
compares the state play has reached with a replay of the records up to the
current one, `EditsReplay` does so after a record was written in an edited game.
`DiscardNeedsYes` looks at what happens to the record list while a human has the
turn: only a roll may be replaced without a yes.  `ListsLegalMoves` compares the
generator with the rules, as sets of boards.  `CacheAnswers` says that a
lookup never finds anything but a value of the position asked for, at the plies
and for the score, cube and rules asked for, by the table in use.  `CacheFresh` is
more, that it is the value that would be computed now, and no run has it: the code
does not promise it.  `set cubeefficiency` keeps the cache, so a cubeful value may
be that of the old efficiencies (put `CacheFresh` into `cache.cfg`: evaluation,
`set cubeefficiency`).  And `EvaluatePositionCubeful4` chooses the moves for
`pciMove` while `EvaluatePositionCubeful3` stores the results under the keys of all
cube positions, so a value may rest on moves chosen for another cube position (the
same with `Contexts <- TwoPly`, `Decisions <- NoDecisions` and one set of
efficiencies: a nested evaluation for two cube positions).

Liveness: `GnuPlays` says that whenever it is the computer's turn in a game, it
comes to an end.  The only fairness is `WF(doNextTurn)`: a browser runs the
timers a page has set, and a `doNextTurn` runs to its end without being
interrupted.  Nothing is assumed of the user, who may type any command before any
timer, or nothing at all.

Why the bounds are enough: six records hold roll, play, double, beaver, raccoon
and take; the cube limit of 16 is reached in them.  A play may end the game unless
it is made from the starting position (`PlayResults`): nobody bears off fifteen
chequers with one roll, so that `new game`, which includes the computer's opening
play, never both starts and ends a game.  Four games of a 3-point match hold a game before the Crawford game, the Crawford game and one after it,
with games abandoned in between.  Two records per game hold the opening play and
a double (an opening roll is replaced by its play), and the answer to it is
generated, and checked, as the state just past the bound.  For navigation, three
games have a first, a middle and a last one.  In the states of `web_page` two
timers are one that will see the game and one that comes late.  A board of five
points with a home of two has everything the generator tells apart: hits, blocks,
entering from the bar, bearing off with an exact and with a larger die, doublets
of up to four chequers, one of two dice unplayable (boards of 6 points and 3 home
points, and of 4 and 2, were run too).  The samples of `ids` put stacks of 15 at
places where they span two and three bytes, and the highest values into every
field.  The contexts of `cache` overflow buckets of two entries, and
its cube decision evaluates two cube positions at once.  States past a `CONSTRAINT` are checked and not explored
further.  `CHECK_DEADLOCK FALSE` is used where the program stops: in `moves` a
game ends, in `ids` a refused ID changes nothing.

Four runs are expected to fail; each shows a place where the code does not do
what its own text says (details and quotations in `PROJECT.json`):

* `take_refused`: `CommandTake` goes on after the answer no;
* `score_above_match`: `set score` accepts a score above the match length, and
  the next game fails an assertion;
* `typed_move`: a move typed to a blocked point is accepted, and played as the
  bearing off of the chequer;
* `cache_money_match`: at double match point an evaluation may find that of a
  money game.

The passing runs exclude these by their constants (the scores and contexts in
use) or by name (`DiscardNeedsYes` exempts the take).  They also exclude, by
constants that can be changed, sequences of commands the program does not
survive: `ResolveFirst` TRUE (resolving a resignation first), `NewGameAnywhere`
FALSE, `Impatient` FALSE, `QuietEdits`, `TurnRecorded` and `FlagsInGame` TRUE,
`Display` TRUE, one game variation, no cache of a single entry.  Each is a hazard
in `PROJECT.json` with the property that is violated without it.

## 4. Proofs

What is proved holds for every match length, cube limit, setting, kind of players
and number of games and records, and for both schedulings of commands.  The
assumptions are those on the constants (`CubeAssumption`: the cube values are
closed under doubling below `MAX_CUBE`; `JacobyAssumption`; `SettingsAssumption`:
types, and the automatic doubles reach legal cubes; `ContextsAssumption`:
the contexts are those `SetCubeInfo` accepts and are closed under nesting;
`CacheAssumption`: hashes are natural numbers, and sizes at most 2^30;
`BoardsAssumption`, `MatchesAssumption` and `LengthAssumption`: the boards are
those `CheckPosition` accepts, the fields of a match are in their ranges, the
length and the scores below 2^15, and a Crawford game is one of a match) and the
hypotheses a theorem names:

| Theorem | Shows | Hypotheses |
|---|---|---|
| `MatchInvariant`, `TypeCorrect`, `TurnIsWithDecider`, `CubeIsInScenario`, `CubeIsWithinLimits`, `CrawfordIsCubeless`, `BoardIsMovers`, `ScoresAreChained`, `AssertionsHold` | `MatchInv`, `TypeOK`, `TurnWithDecider`, `CubeScenarios`, `CubeWithinLimits`, `CrawfordCubeless`, `BoardShowsMover`, `ScoreChain`, `NoAssertionFails` for `Match` | `CarefulUser` |
| `CrawfordGameMarked` | `CrawfordRule` | `CarefulUser`, `Timely` |
| `RulesImplemented` | `ImplementsRules`: `Match` refines `MatchRules` | `CarefulUser`, `Timely` |
| `PageImplements` | the page refines `Match` (`WSpec => Spec`) | none |
| `PageAssertionsHold` | `NoAssertionFails` at the page | `CarefulUser` |
| `TimersArePending` | `TimerPending` | `CarefulUser`, `Display` |
| `PageServesUser` | `PageServes` | `PageUser`, `Display` |
| `HistoryInvariant`, `ReplayGivesState`, `NavigationReadsOnly`, `HistoryIsSafe` | `HistoryInv`, `ReplayAgrees`, `NavigationKeepsRecords`; `BoardShowsMover`, `ScoreChain` and `NoAssertionFails`, for `MatchHistory` | `CarefulReader` |
| `RecordsKeptUnlessAgreed` | `DiscardNeedsYes` for `MatchHistory` | `CarefulReader`, `ConfirmNew` |
| `BucketsExist` | `LookupsInTable` | `NoSingleEntry` |
| `HitsAnswer` | `CacheAnswers` | `NoSingleEntry`, `NoMixing`, `OneVariation` |
| `PositionIDsLoad`, `KeysKeepBoards`, `MatchIDsLoad` | `PositionIDLoads`, `KeysLossless`, `MatchIDLoads` for `IDs` | none |

`CarefulUser`: resignations are answered first, and `resign -1` is used only if
one of the players is the computer.  `Timely`: with `automatic crawford` on, no
command comes while a `NextTurn` is pending.  It is needed: `NextTurn` computes
the Crawford flags of the next game, and a `new game` typed before it starts a
game with the flags of the one that has just ended, so that TLC finds
`CrawfordRule` violated.  `Display` is the default of `fDisplay`; without it a
`NextTurn` that prints nothing sets no timer.  `CarefulReader`: `CarefulUser`, at
the terminal (no command while a `NextTurn` is pending), who does not start a new
game at the end of an earlier one (`NewGameAnywhere` FALSE), and with automatic
doubles only if the board is displayed (`DoublesShown`: `NewGame` doubles the cube
inside the message it prints, and a replay doubles it from the GAMEINFO record in
any case).  `PageUser`: `CarefulUser`, one of the players is the computer, and the
user does not type `play` before the page shows the computer's turn, or `play` or
`show board` while a resignation is open (`Impatient` FALSE; all other commands
may come while timers are pending).  `ConfirmNew` is the default of `fConfirmNew`; without
it `new game` asks nothing.  The hypotheses of the cache are
that nobody asks for a cache of one entry; that a session without the cube, or
without Jacoby rule and beavers, is not evaluated through the same cache as a game
at double match point with the cube at 1 (`NoMixing`; `cache_money_match` shows
that it is needed); and that the variation is not changed.  The run `cache`
satisfies them, and each has its hazard in `PROJECT.json`.

**The match.**  None of the properties is inductive alone.  The invariant
`MatchInv` is built from the inside out:

* `InGame`, a game in progress: the board shows the player on roll, the turn is
  with the decider, an offered cube is below the limit and owned as in one of the
  scenarios, beavers occur only under a double in a session, an open resignation
  is the computer's to answer, and the Crawford game has a centred cube at 1;
* `Sound`: there are no more games than points scored (which bounds the number
  of games the GAMEINFO assertion mentions), a Crawford game belongs to a match
  of more than one point with the rule on, and a game that is over has a board
  that says so (which `NextTurn` looks at);
* `Fits`: the score of `ms` is that of the GAMEINFO record, plus the result if
  the game has ended;
* `Placed`: play takes place at the end of the last game, and the games are
  chained by their scores.

`Good` puts these together for a whole program state.  `MatchProofs` has a lemma
for each type of record (what applying it to a game in progress leaves, and
which rule the players see); `AddRecord` lifts them to `AddMoveRecord`, one lemma per command shows what it makes of a good state, and
`StepCases` has one step per action.  The theorems then follow from `MatchInv`.

**The rules.**  `View` is the refinement mapping of `Match` as a record, so that
a step can be described by a relation between two views: `VDouble`, `VTake`, ...
say of views what the actions of `MatchRules` say of its variables.  Every lemma
about a command also says which of them it shows (`Sees`), and `RulesProofs` ends
with one lemma for each that it is the action of `MatchRules`.  One conjunct needs
more than `MatchInv`: that a game is a Crawford game only at a score that allows
it.  It comes from `CrawfordInv`, the invariant of `CrawfordRule` (which TLC
checked before it was proved): the games up to the current one are marked as the
definition says (`Marked`); a player who is one point away stays so (`Rising`);
while a game is in progress or its `NextTurn` pending, `fCrawford` and
`fPostCrawford` are those of its GAMEINFO record (`Flagged`); and once `NextTurn`
has run they are those of the game that comes next (`Due`).

**The page.**  Every action of `Web` contains one of `Match` or leaves its
variables alone, so `WSpec => Spec` and the theorems about `Match` carry over.
`TimersArePending` goes through what each handler prints: a `NextTurn` that
leaves another one pending has shown a board, which set a timer.

`PageServes` speaks of pages at rest, so its invariant must know what the page
shows in between.  `Tracks(page, ms, fNextTurn)` says this of a game in progress:
if no `NextTurn` is pending, the page serves the user and no resignation offer is
pending at it; a resignation that a human has to answer is served at once, and
while its `NextTurn` is pending the page still waits for the line that it will
ignore (`resignationOfferPending`); and a pending offer without a resignation
means that the computer has the turn and the board shown is that of `ms`.  With
`Calm` (no dice are rolled while a double is on offer) and `MatchInv` this is
inductive: there is one lemma for each list of lines a handler prints, since
`updateBoard` ignores a line or enables buttons depending on the lines before it,
and what a list of lines makes of the page follows from `updateBoard` by induction
over the lines (`Induct` in `Induction`).

**The history.**  With navigation play may go on from any record of any game, so
`Placed` no longer holds and the invariant must know the whole record.
`ReplayProofs` says what a game is on record: `Plays(gm)`, every record is one
that may follow the ones before it (`Allowed`; `Opener` for the first), each
prefix replays to a sound match state with the score of the GAMEINFO record, the
game goes on until its last record, and replaying leaves the GAMEINFO record as
it is.  `CalculateBoard` is a recursive function whose value the provers do not
unfold by themselves; `CalculateBoardDef` derives its recursion equation with
`Induction`, and `AfterDef` that the first n records lead to the same state
whatever follows them.  `Same` is what play and replay have in common.  The key
lemmas are that two states that are the `Same` stay so under every record
(`AgreeApplied`), that a record that may follow a prefix makes it a game again
(`Extend`), and that the elisions of `AddMoveRecord` and the state shown at the
GAMEINFO record do not spoil this (`AddToGame`, `OpenerAgrees`).

`HistoryInv` then says of the program: all games play (`Games`) and are chained,
`ms` is the `Same` as the replay at the current record (`At`; at the GAMEINFO
record it is the start, the start with the first player's turn, or the first
player's roll, `AtStart`), and `NextTurn` is pending only during a game or at the
end of the last one (`Live`).  In `HistoryProofs` each command of play continues
a game from wherever it is (`Continues`), and each command of navigation goes to
another place and changes nothing else (`Visits`).

`RecordsKeptUnlessAgreed` compares the lists of records before and after each
command.  Its invariant `DiscardInv` adds to `HistoryInv` that every game but the
last is over (`Concluded`), so that a game in progress in which the user has moved
to the end is the last one and `AddMoveRecord` has nothing to delete after it, and
that automatic play goes on only if no player is human.  `Grows` says that a list
keeps every record, a roll that has not been played apart (which `AddMoveRecord`
replaces by the move), and `Permitted` what the property says of one step.  Each
command either asks first (`get_input_discard`) or is at the end of the match.

**The cache.**  `CacheInv` says that the mask is one less than the number of
buckets, that every entry is a value of its position for some context with its
key, under the table in use, its moves chosen for whatever cube position, and that
all cube positions of the evaluations under way are contexts with the same plies
(`NextPlyGood`: `MakeCubePos` makes no others).  A hit then answers the question
if contexts with one key ask the same question (`SameQuestion`), which is proved
of `EvalKey` itself.  Its fields do not overlap, so each bit of the key is a bit of
one field (`PlyField`, `MatchField`, `MoneyField`, `KeyField`; the exclusive or
with `0x6a47b47e` shows in bit 30, which no field reaches, and can be undone).  Equal keys have equal plies, flags and player on roll (`SameKey`), equal
points to go, cube and Crawford flag in matches (`SameMatch`) and equal owner and
rules in sessions (`SameMoney`); a match and a session share one only as in
`NoMixing` (`OneException`).  An evaluation looks up and adds one entry for
each cube position; both are recursive functions over the list of contexts, and
what they keep is proved by induction (`AllLookedUp`, `AllAdded`).  The induction
theorems of the library
cannot be applied by the provers, so `Induction` derives one for sets of numbers
from the well-foundedness of `<`.

**The codings.**  TLC decodes a sample of positions and matches; the theorems are
about all of them.  `Total`, the sum that counts chequers, places the runs of a
position and puts the bits of a field together, has its recursion equation from
`Induction`.  For the key, a half word holds its four points (`QuadHolds`) and
nothing is carried (`WordHalves`).  For both IDs, a byte holds the bits of its
string (`ByteHolds`), and nine bytes come back from twelve characters
(`TwelveForNine`).  The position ID is a string of runs: `RunsApart` and
`OnesBefore` count the ones before a run, so that a one of run q has q zeros
before it (`ZerosBefore`) and the decoding counts it for point q; with at most 15
chequers a side the runs end within 80 bits, and with at most 15 on a point no run
spans more than three bytes (`KeyIsRuns`), which is what `addBits` relies on.  For
the match ID, the fields have no place in common (`MatchKeyHolds`), and the bits
of a number that is narrow enough add up to it (`FieldHolds`).  The invariants
(`BoardCoded`, `MatchCoded`) say that a loaded board or match is again one of
those the theorems are about.

Model-checked only: the liveness of the page (`GnuPlays`: liveness and `ENABLED`
are beyond the prover), the properties of `MatchEdit` (edits write records, and
change states, that are not `Allowed` in play), those of `Moves`, whose generator
is a recursive operator, and `BearoffNumbered`, which folds over tables.

## 5. Not modelled

Interrupts of match play (`fInterrupt`; the cache has them), external players,
tutor mode, cheating dice, GTK and 3D code (`USE_GTK`, `USE_BOARD3D` are off in
the web build), threads and locking (`USE_MULTITHREAD` is off), `fRecord` off
(sessions that keep only the last game), autosave, `end game`, `set cube use`,
`swap players`, and the searches for marked moves.  Evaluations with noise
bypass the cache.  Evaluation, rollouts, match
equities, bearoff databases and neural nets are floating-point arithmetic over
tables; import, export, display and database code formats or parses and does not
take part in match play.  Dice are any choice.

By lines most of the repository is not this program: the vendored glib is nine
tenths of it, and generated tables (`bearoffgammon.c`), the SGF parser and the
GTK front end most of the rest.  The modules cover the core of `play.c`, the
match editing of `set.c`, `positionid.c`, `matchid.c`, `lib/cache.c`, the move
generator of `eval.c` and the page; they do not try to cover the rest.

## 6. Plan

Done so far, in this order: match play and its proofs, navigation, the page,
the abstract rules, editing, chequer play, encodings, cache; then the proofs that
`Match` implements `MatchRules`, that the Crawford game is marked, that the page
implements `Match` and keeps its timers, that the cache answers what is asked, and that play
and replay agree through any navigation; then that records are kept unless the
user agrees, that the page serves the user, and that the codings lose nothing.
What comes next:

1. model `end game`, `set cube use` and `swap players`; the lists of
   `lib/list.c` as a refinement of the sequences used here; `FindCubeDecision`
   and `getResignation` as decision tables.
