# Wizzrobe in TLA+

Models, model-checking runs and machine-checked proofs for the tournament core of
Wizzrobe (`tcprescott/sglman`): the bracket engines, the stages they feed and the
field one stage draws from another, the best-of-N series behind one matchup, a
scheduled match with its requests and its seed, and the asynchronous qualifiers.
Paths below are relative to `src/`; services are under `application/services/`.

## The system

One Python process (a single uvicorn worker, two while a deploy overlaps) serves
the web pages, the REST and MCP interfaces and the Discord bot, and runs the
background workers; all state is in PostgreSQL, reached through the Tortoise ORM.
Presentation calls services, services call repositories, repositories own the
queries. The modelled services open hardly a transaction of their own (the start of a
qualifier's run, its review and the recompute of pars do): every `await` of a query is
a point where another request may run, and most writes are
`row.save()` of an object loaded some awaits earlier, **every column of it**. This
is the source of nearly all that is hard in this code, and the grain the models
work at: a request in flight is a `job` holding what it has read.

| Component | State it keeps | Operations | Interacts with | Hard part |
|---|---|---|---|---|
| Elimination engines (`bracket_engines/`) | none, pure | `generate` | generation persists the result | pointer arithmetic, byes |
| Elimination stages (`_bracket/advancement.py`, `generation.py`, `completion.py`) | `Bracket.state`, `BracketMatch` rows, `BracketEntry.status/final_rank` | start, report, override, retire, complete, cancel | a series records its result here | multi-row walks without a transaction, corrections |
| Swiss and round robin (`bracket_engines/`, `_bracket/completion.py`) | as above | the same, and pairing the next round, ranking | results trigger the next round | two calls pairing one round, entries retired meanwhile |
| Multi-stage (`_bracket/multistage.py`) | the next stage's entries | `advance_stage` | reads the final ranks | written entry by entry, ranks corrected later |
| Series (`_bracket/series.py`, `scheduling.py`) | `BracketMatchGame` rows, `best_of` | book, link, unlink, settle, clinch, release | called by the racetime task and by `discord_queue`; cancels matches | two settle paths, booking against clinching |
| Match lifecycle (`match/match_schedule_service.py`, `match_rewind.py`, `match_review.py`) | four timestamps, `needs_review`, players' ranks | check in, start, finish, confirm, rewind, flag | confirm enqueues the settle | check and stamp are separate awaits |
| Racetime rooms (`race_room_service.py`) | `RacetimeRoom.status` | open, in progress, finished, cancelled | writes the match row, settles the series | whole-row saves, late events |
| Match requests (`match_reschedule_service.py`, `match_acknowledgment.py`) | request rows, acknowledgments, the match's time | submit, agree, decline, approve, withdraw, edit, acknowledge | cancels matches, asks for acknowledgments again | an approval is several awaits; answers cross |
| Seeds (`seed_roll_service.py`, `seed_roll_worker.py`, `provider_task_service.py`) | `ProviderTask` rows, `Match.generated_seed` | roll, submit, poll, claim, complete, abandon | external providers | once-only completion by overlapping workers |
| Asynchronous qualifiers (`async_qualifier/`) | runs, claims, pars, live races | draw, submit, forfeit, review, reattempt, capture, expire | a worker expires runs | the tick racing a request, caps counted before a write |
| Serial queues (`utils/coroutine_queue.py`) | an in-memory FIFO | enqueue, worker | runs confirmations' side effects | lost on restart |
| Stations, crew, volunteers, check-in, equipment, payouts | one table or two each | edit | - | check-then-write |
| Challonge, start.gg, SpeedGaming, Discord, webhooks | mirrors of remote state | synchronise, push | remote services | remote failures |
| Tenancy, authorisation, login | memberships, tokens | - | guards every operation | - |

What makes each modelled component correct: the **graph** has one source for
every slot and sends each entrant home after exactly the losses its format
allows, and groups meet and part as they should; a **stage** places exactly the
results that were recorded, is never wedged, ends, ranks its whole field by those
results, and its best advance; a **series** counts every game once, is recorded
as soon as it is decided, strands no game and can always go on; a **match** goes
through its steps in order, announces each once, and is never confirmed with an
open dispute; a player has one open **request** on a match, and an approved time is
the match's time until it is moved again; a **roll** completes once, and no process
queues two for one match; a **run** gets one verdict, ends once, and nobody has more
of them than the pool allows.

`PROJECT.json` lists every component, and under `hazards` each place in the code
where one of these could go wrong.

## Modules

| Module | What it models | State and actions against the code |
|---|---|---|
| `BracketGraph` | what the graph of an elimination stage promises: pointers that stay inside it, one source for each slot, one seed for each entry, two brackets and a final | a graph is the `BracketMatch` rows as `_start_generative` leaves them |
| `EliminationGraph` | the two elimination engines, as operators | `standard_seeding`, `Halve`, `WBLoserTo`, ... are the engine functions of those names; `Graph*` are the lists `generate` returns, `StageGraph` the rows made of them |
| `RoundRobin` | the circle schedule, and how seeds are dealt into groups | `GroupOf`, `ScheduleGroup`, `RoundRobinMatches` |
| `Standings` | points, tie-breaks and competition ranks | `buchholz`, `omw`, `head_to_head`, `RankOf`; percentages are exact, the code's are doubles |
| `StageSeeding` | who a stage draws from the one before it, and at which seed | `Advancers`, `SeatGroups`, `SnakeOrder` are the pure half of `multistage.py` |
| `MCEliminationGraph` | one entrant walking a generated graph, winning or losing as TLC pleases; the same field split into groups, and drawn from groups | checks the modules above |
| `BracketAdvance` | one elimination stage with requests in flight | `row` the `BracketMatch` rows, `status` and `final_rank` the entries, `stage` the bracket's state; `job[w]` what one request holds: the row it loaded (`copy`) and the writes still to make (`todo`, the continuation of `_advance_after_result` and the recursive `_settle_match`) |
| `MCBracketAdvance` | composes `BracketAdvance` with `EliminationGraph`: a stage runs on a graph the engines really generate | |
| `PointsStage` | one Swiss or round-robin stage, from its start to the field the next stage draws, composed of `Standings`, `RoundRobin` and `StageSeeding` | `table` the `BracketMatch` rows, `entry` the entries, `field` the next stage's; `job[w]` the rows a call has read, those it has still to create and the entries it has still to save |
| `BracketSeries` | the games of one matchup and the matches behind them | `game`, `match` the rows, `matchup` the `BracketMatch`, `length` its two best-of settings, `queue` the part of `discord_queue` that settles, `job[w]` a settle, a staff result, a booking, a link, an unlink or a removal |
| `MatchLifecycle` | one `Match` row and its racetime room | `stamp` which lifecycle columns are set, `review`, `result`, `room`; `job[w]` one transition between its check and its stamp, a rewind, a flag or a room event with the row it loaded |
| `MatchReschedule` | a match's time, the requests to move it or call it off, and its acknowledgments | `req`, `ack`, `match` the rows; `job[w]` a submit, an answer, a staff edit or an acknowledgment between its awaits |
| `SeedRoll` | rolling a match's seed | `task` the `ProviderTask` rows, `seed` the match's, `request[c]` a `generate_seed`, `tick[w]` the sweep, polls and completion of one process's worker; `Home[c]` is the process that serves a request, which holds its locks |
| `QualifierRuns` | the runs of one pool of a qualifier | `run` the rows, `par` the permalinks' pars, `job[w]` one request with the row it read, `tick` the rows the worker's tick has read and not handled |
| `RunLedger` | what a pool promises of its runs: the abstract specification `QualifierRuns` implements | `QualifierRuns!Ledger` is the refinement mapping: a row is unused, open, ended or void |
| `MC*` | symmetry, views, overlaps and bounds of the runs | |
| `*_proofs` | the theorems about the module of that name | |

`BracketAdvance` abstracts a matchup to one report of its winner;
`BracketSeries` is that report seen from inside, with `RecordSeries` and
`SaveResult` standing for the whole of `_record_result` on the matchup's row.
`MatchLifecycle` is the timestamps of one of the matches `BracketSeries` books,
`MatchReschedule` its time, `SeedRoll` its seed.

Steps that several awaits of the code share, and other choices of grain:

- `BracketAdvance`: the reported row's save, the two status saves and
  `_propagate_winner`'s second, identical save of the same row are one step
  (`RecordResult`).
- `PointsStage`: an entry is named by its seed. Pairing is the external
  `swisspair`: any pairing that repeats no match and gives no second bye, and when
  there is none the stage stops. Round-robin rows are created open (the code
  creates them PENDING and opens them before the stage is ACTIVE). Staff's ruling
  on a tie puts one entry ahead of those it is tied with. Groups have at least two
  entries. Retiring is taken in a stage that has begun only.
- `BracketSeries`: scores appear here only (in a stage they are stored and never
  read again); `_validate_scores` restricts a caller's input.
- `MatchLifecycle`: the load of a room event is merged with its rank saves
  (`RoomEvent`); the two rank saves of `record_match_result`, and the guard before
  them, are one step; `rewind_match`'s reload and its update are `Rewind` and
  `ClearSteps`. `confirm_match` reads the players before `_transition` refreshes the
  lifecycle columns, which is why `Begin` and `Check` are separate. `cancel_room`
  accepts a room in any state; taking it, and room events, only from an open or
  running room is a bound, as rooms that ended get no further event from the
  transport.
- `MatchReschedule`: the roster is fixed; the check that a match is not under way
  only refuses a submit; tournament hours and everything else that can refuse the
  move are `MoveFails`. Restarts are unbounded; `torn` marks a match whose move one
  cut off halfway.
- `SeedRoll`: a tick takes its tasks in any order. Creating the `GeneratedSeeds` row
  and saving the match are one step (`Complete`). A provider's answer to a submit
  comes before `TASK_MAX_AGE`. Matches are not deleted. The two `Process`es are those
  of an overlapping deploy; the lock of a match (`_seed_locks`) is an `asyncio.Lock`
  in the memory of one of them and is seen by its requests only, so that "two
  processes roll a seed for the same match" (`docs/scaling-roadmap.md:52`) in the
  model as well.
- `QualifierRuns`: times are abstract: a par is the set of runs it averages, a score
  the par it was computed against. The clock is read by each tick as it pleases.
  Drawing a seed and creating its row are one step. A capture records one racer of
  a race on any seed of the pool, drawn and raced ones included, and finds the
  racer's earlier run by the race, as `_capture` does; a race that has runs keeps its
  seed. The qualifier's window and `submit_run`'s refusals leave a call not taken.
  Seeds kept for live races (`Live`) are not drawn. `AnyClaim` adds the claim on a run
  still in progress, which only the REST route can make.

Callers are assumed authorised, and tenants apart, throughout.

## Runs

| Run | Instance | Shows |
|---|---|---|
| `elimination_graph` | fields of 2 to 9, both formats, with and without reset | `EverySlotHasOneSource`, `FavouritesMeetLast`, `OutMeansBeaten`, `EveryPairMeetsOnce`, `GroupsApart` hold |
| `bracket_serial` | fields of 2, 3 and 5, both formats, one request at a time, one correction, one retirable entry | `SlotsMatchResults`, `RefusedIsDead`, `EliminatedMeansBeaten`, `RanksFollowTheFinal`, `DecidedStaysDecided`, `StageEnds` hold |
| `bracket_override` | field of 3, one correction | `CompleteHasNothingOpen` is violated |
| `bracket_concurrent` | field of 4, two reports at once | `NoWinnerIsLost` is violated |
| `points_stage` | Swiss and round robin, fields of 3 and 4, one or two groups, two calls at a time; in the field of 3 one correction, retirement or restart | `NoRematch`, `RoundsInOrder`, `RetiredIsOut`, `NextRoundPaired`, `RanksFollowResults`, `BestAdvance` hold |
| `stage_ruling` | a field of 6 in two groups, one call at a time, one correction | `RulingStands` is violated |
| `series` | best of 1 and 3, three games, three matches, racetime task and queue settling together, one staff intervention or one result recorded over a finished match | `GameSettledOnce`, `DecidedSeriesIsRecorded`, `NoStrandedGame`, `SeriesCanGoOn` hold |
| `match_lifecycle` | three requests, two rewinds, every overlap but the six harmful ones | `LifecycleInOrder`, `AnnouncedOnce`, `ConfirmedIsResolved` hold |
| `reschedule` | one match, two players of whom one may decide, two times, two requests, two calls, restarts | `OneOpenRequest`, `PromiseKept`, `OpenRequestsCurrent`, `AcknowledgedSinceMoved` hold |
| `seed_roll` | one match, two tasks, one direct roll, three requests on two processes, one restart or failed completion | `CompletedOnce`, `OneRollPerProcess`, `TerminalStays`, `EveryRollEnds` hold |
| `qualifier_scores` | two players, two reviewers, two seeds to draw and one kept for races, one race on any of them, two runs, no reattempts but those reviewers grant, two calls and a tick | `VerdictSettledOnce`, `ScoresFollowPar`, `EndedStaysEnded` hold |
| `qualifier_draws` | one player, two seeds that may be drawn, one race on either, three runs, at most two counting, two calls and a tick, one restart | `NoSeedDrawnTwice`, `ReattemptsWithinAllowance`, `AbandonedRunEnds` hold and `LedgerKept`: the module implements `RunLedger`, liveness included |

**Bounds.** `MaxField = 9` covers every pattern of byes of an eight- and a
sixteen-slot graph that one more entrant than a power of two can give, four
winners rounds and six losers rounds, odd and even; fields of 2, 3 and 5 in
`bracket_serial` include the field without a losers bracket, one with a single
bye and one whose losers bracket has dead matches and walkovers. One correction
is enough to reach every settled match from above and below; two would only
repeat it. Swiss fields of 3 and 4 have a round with a bye and one without, a
round that cannot be paired and, with one tie-break after another, ranks that are
shared and ranks that are not; the tie-break chain is `buchholz`, `omw`,
`head_to_head`. Three games decide a best of three in every order, and a fourth row
is never needed without a further staff intervention, which `MaxStaff` counts.
Three requests on one match row reach every interleaving of two with a third
between them. Two requests to move a match are what it takes for one to supersede
the other; TLC tells states of `reschedule` apart by the view `Alive`, which leaves
out what nothing reads again: the contents of decided requests, and promises about
a deleted match. Two tasks, a direct roll and three requests let each kind of
roll follow and overlap each other kind, two of them in the same process and across
processes. Three runs and a cap of two let a player fill the
cap, void a run and draw again; two players share a par in `qualifier_scores`,
where the draw's imbalance threshold forces the second to the seed the first has not
had; in `qualifier_draws` it is too high to, so that only the seeds a player has bind
the draw.
`Forfeits = {FALSE}` in `series`: a forfeited series skips the score check.
Deadlock checking is off because every system here may stop: a stage completes or
is cancelled, ids run out, a match is confirmed.

**Fairness.** Weak fairness on `Continue(w)` everywhere: asyncio always resumes a
coroutine whose query returned. Beyond that:

- `StageEnds` (`BracketAdvance!FairSpec`): while a matchup is open, organisers keep
  reporting results. Nothing is assumed of corrections, retirements or
  cancellation, so a stage at rest with nothing open to be played would violate it.
- `EveryRollEnds` (`SeedRoll`): the provider answers a submit, with a handle or an
  error; an active task grows old; the worker's loop ticks and its tick goes on.
- `AbandonedRunEnds`, `LedgerKept` (`QualifierRuns`): strong fairness of a tick that
  finds a run past its deadline. The worker ticks every minute for ever and
  requests are short, so a tick that an instance without row conflicts holds off
  finds a moment between two of them.

**Overlaps.** Which calls may be in flight together is a constant of each module.
Where an overlap breaks a property, the passing run leaves it out, the hazard in
`PROJECT.json` says so, and the theorem, where there is one, assumes that it does
not happen. In `MCMatchLifecycle` six pairs are `Harmful`:

| Overlap | Breaks |
|---|---|
| rewind and finish, rewind and confirm | `LifecycleInOrder`: the stamp checks its own column only |
| room event and confirm | `LifecycleInOrder`, `AnnouncedOnce`, `ConfirmedIsResolved`: the whole-row save undoes the confirmation, or its loaded flag comes back |
| room event and finish | `AnnouncedOnce`: the save undoes a stamp that was already announced |
| room event and rewind | `ConfirmedIsResolved`: a cleared confirmation comes back |
| flag and confirm | `ConfirmedIsResolved`: the flag lands after the confirmation |

`SeedRoll` excludes nothing. The other modules name the conflict instead of the pair:

| Module | Conflict | Two calls that |
|---|---|---|
| `BracketSeries` | pairs of kinds | settle one game from both paths (allowed); a booking next to the deciding settle breaks `NoStrandedGame` |
| `PointsStage` | `state` | both change the stage's state |
| | `round` | look at a Swiss round that another is halfway through creating; two calls may pair one round |
| | `result` | save the same matchup, or save one while the stage is ranked |
| | `retire` | retire an entry while the stage is ranked or drawn from, or twice |
| | `draw` | draw the next field twice, or while it is ranked |
| `MatchReschedule` | `row` | answer the same request, or one that an approval supersedes |
| | `twice` | submit for the same player and match |
| | `stale` | submit while an approval runs |
| | `move` | move the same match |
| | `ack` | acknowledge a match that is being moved |
| `QualifierRuns` | `row` | write the same run, the tick being one of them |
| | `par` | recompute the same seed |
| | `allowance` | count one player's reattempts |
| | `cap` | count one player's runs |

## Findings

1. A Grand Final 1 corrected after the stage completed re-opens the reset match
   in a stage that stays COMPLETE and no longer accepts results
   (`bracket_override`).
2. Two results reported together into the same next match overwrite each other's
   slot (`bracket_concurrent`). The settle of the first holds the final as it loaded
   it, with slot 2 empty; meanwhile the other semifinal completes and its winner is
   placed in slot 2. Both feeders are now COMPLETE, so `_slot_can_fill` refuses the
   slot, and the settle saves its stale row as a walkover: slot 2 is NULL again, the
   first winner has won a final nobody played, and the second is nowhere.
3. Correcting a result of a completed points stage drops the ruling staff gave on
   a tie, also when the tie is in another group and untouched (`stage_ruling`).

Met while modelling and proving, without a run of their own:

- a Swiss round is created match by match, open for results from the first on. A
  result that looks at it in between takes what exists for the whole round and pairs
  the next one; the rest of the round is created behind it, and nothing keeps its
  pairs from meeting again ("one round at a time", `bracket_engines/swiss.py:1`). The
  proof of `NoRematch` failed on it: with `Overlaps = {"round"}`, four entries and
  three rounds, `RoundsInOrder` is violated;
- a Swiss round that could not be paired, because of byes already had, may become
  possible when an entry retires, but `retire_entry` pairs nothing and no match is
  open to give the result that would;
- a race that ends late, with nobody finishing, erases the ranks of a match that
  was already confirmed by hand;
- a rewind between `finish_match`'s check and its stamp leaves a match finished that
  has not started;
- a game booked while its series is being clinched survives the clean-up;
- `set_round_metadata` changes the length of series under way, which can make one
  undecidable;
- a seed is overwritten ("a match can only be seeded once",
  `match/match_schedule_service.py:438`) when a task lands on a match that was moved
  to a direct randomizer while the task ran, or that another process rolled too. The
  second is known (`docs/scaling-roadmap.md:52`); no property is stated of it, as the
  code keeps none;
- two answers to one request at the same time save two whole rows, and a decline or
  an approval may be taken back (`match_reschedule_service.py:427`). That decisions
  stand is therefore not among the properties: with one answer at a time it is the
  guard of each answer and nothing more;
- an acknowledgment carries no time. The button of a Discord message holds the
  match's id and goes on working after the match was moved
  (`discordbot/match_acknowledgment.py:25-33`), so that a player may acknowledge a
  time they never saw; `AcknowledgedSinceMoved` says only when an acknowledgment was
  given;
- a live race may be held on a seed its racers have drawn, and two races on the same
  seed (`async_qualifier_live_race_service.py:180`, `:213`): a player may have two
  counting runs on one seed, of which the later is from a race;
- a tick that has read a run in progress forfeits it although it was submitted
  since (`async_qualifier_expiry.py:79-80`);
- a live race recorded over the cap is void but not marked as granted, and so counts
  as a reattempt (`async_qualifier_service.py:461`);
- `multistage.py:266-268` says that group winners land in the top seed band: with
  four groups and two from each they get seeds 1, 2, 5 and 6.

## Proofs

All theorems hold for every value of the constants: any number of requests, rows,
players, times and restarts. What they assume, if anything, is that certain
overlaps do not happen; each says which.

`MatchLifecycle_proofs`

- `TypeCorrect`: `[]TypeOK`.
- `LifecycleStaysInOrder`: if rewinds do not overlap finishes or confirmations and
  room events do not overlap confirmations. The property is not inductive, since a
  request between its check and its stamp carries a promise about columns that
  others write. `OrderInv` adds that promise: whoever is about to stamp "finished"
  sees "started" set, whoever is about to stamp "confirmed" sees "finished" set,
  and the row a room event loaded is itself in order. Lemma `Apart` (two requests
  whose kinds may not overlap are never both in flight) discharges the
  interference.
- `TransitionsAnnouncedOnce`: if room events do not overlap finishes or
  confirmations. `OnceInv` relates the count to the column: a transition whose
  column is empty has not been announced, and neither has one whose column is empty
  in the row a room event is about to save back; in a racetime match check-in is
  never announced at all.
- `ConfirmationResolves`: if flags and room events do not overlap confirmations and
  room events do not overlap rewinds. `DisputeInv` covers the window between the
  stamp and the clearing of the flag.

`BracketAdvance_proofs`

- `TypeCorrect`: `[]TypeOK`, whatever overlaps. What needs an argument is the walk
  along the pointers: a write still to be made is about a match of the stage's own
  graph, because it was read off a pointer of that graph (`Bound`).

The next five assume `OneAtATime`: two requests that overlap lose a winner (finding
2), and the code has no lock that would make the overlap narrower.

- `RefusedNeverCome`: `RefusedIsDead`. A slot that `_slot_can_fill` refuses when a lone
  entrant is to be walked over is one nobody can come to (`Closed`: a set of slots,
  none of them seeded, each fed by matches whose own slots are in the set), and is not
  a side of a final. The recursion is a function from a slot and the set of visited
  slots to an answer and a larger set; `FillIs` says that it answers every call, by
  the number of slots not yet visited. The code shares one visited set between both
  sides of a match, so a slot is refused for having been visited as well as for
  having nobody behind it, and that the first never happens is not true of every
  graph: it needs the shape of the two brackets (`TwoBrackets`). `UpperLive`: the
  slots that are visited behind a winners-bracket slot are behind that slot alone, and
  it always fills. `LowerJudged`: a losers-bracket slot is live or nothing is behind
  it. Both are proved for the earliest round at which they could fail (`LeastNat`).
- `SlotsFollowResults`: `SlotsMatchResults`, on any graph where a slot has one source.
  `SlotInv` has three parts. `Delivered`: a slot holds what its feeder sent, or the
  write that brings it is still on the request's list. `TaskOk`: what is on that list
  is what the results say, and goes to a match that is not decided. `RowsInv`: only a
  slot nobody can come to is empty in a decided match. The last is what a walkover
  needs: without it a correction could later send an entrant into a match that a
  walkover has decided, because the code protects only matches one step downstream
  (`OverrideResult`) and a walkover takes its entrant several.
- `DecidedForGood`: `DecidedStaysDecided`, from `SlotInv`: no write finds its match
  complete but the correction of that match itself.
- `EliminatedIsBeaten`: `EliminatedMeansBeaten`. A status is written for the result at
  hand, not computed from all of them, so a correction that reinstates an entry is
  right only if that was the one match it went home after. `PlaceInv` says why it is:
  an entry stands in one slot of the graph at a time, `Due` being what a slot holds
  once the walk is over. `StatusInv` is the property without `Quiet`: the status is
  written in one step with the row.
- `RanksAreRight`: `RanksFollowTheFinal`. `RankInv`: the ranks are those of the results,
  or the request at work will rank the field again. `TitleInv`: the match that decides
  the title was between two entries of the field, which is why somebody lost it.

`BracketSeries_proofs`

- `SeriesTypeCorrect`: `[]TypeOK`, with the strengthening that a request holds the
  match and the game its step is about.
- `NoDanglingGame`: no game row ever points at a deleted match, with any overlaps.
- `EveryGameSettledOnce`: a game is settled at most once with any overlaps.
  `SettledInv` says that a row's id, and an announced one, was handed out, so that no
  new row takes the place of an announced game, and that an announced game is no
  longer scheduled; the stale rows other requests save back can only cancel it.

The next three assume `OnlySettlesOverlap`: the two paths that settle a game, the
racetime task and the bracket queue, may run at the same time, any other call runs
alone, and nobody edits a matchup's round underneath. A booking next to the deciding
settle strands a game, so `NoStrandedGame` needs it; the others share its invariant.

- `DecidedIsRecorded` (`DecidedSeriesIsRecorded`), `NothingStranded`
  (`NoStrandedGame`), `UndecidedGoesOn` (`SeriesCanGoOn`), all from `SeriesInv`, on
  top of the two invariants above. `KindInv`: which step belongs to which call.
  `RowInv`: numbers and matches are unique among the rows, and a cancelled row means
  that the series is over. `WorkInv`: what a call holds is still true of the matchup
  and its length. `CoverInv`: a call that cancels games covers every scheduled one,
  and what it loaded of a row is what the row says. `FirmInv`: a clinch in progress
  rests on wins that no stale row is about to overwrite. `EndInv`: a game scheduled
  in a finished series is about to be swept, and a decided series nobody recorded is
  about to be. The argument is about who counts last: a settle makes its result
  durable before it counts, so of several that run together the last one to count
  sees them all. `FirmInv` is the part that is not obvious: without it the settle
  that counts could rest on a win that another's cancellation then takes back.

`MatchReschedule_proofs`. Base of all: rows are typed, what a call holds exists, and
two calls whose conflict is not allowed are never in flight together (`ApartInv`).

- `TypeCorrect`: whatever overlaps.
- `OneRequest` (without `row`, `twice`): `RowInv`: the row an answer is about to save
  back is still the row of the table. `OneInv` adds the row a submit is about to
  create to the open requests of its player.
- `KeptPromise` (without `move`): `KeptInv` says that nobody about to move a match
  holds a time other than the one promised, unless it withdraws the promise.
- `AcknowledgedSince` (without `move`, `ack`): `AcknowledgedSinceMoved`.
  `AckInv` follows a move through its
  loop over the players: those it has still to ask again are the only ones that may
  have acknowledged another time.
- `NothingStaleLeft` (without `row`, `stale`): `CurrentInv`, the same for the
  requests an approval has still to supersede.

`SeedRoll_proofs`, all from one invariant about who holds which task:

- `TypeCorrect`; `OnceOnly` (`CompletedOnce`); `OneEach` (`OneRollPerProcess`);
  `TerminalForGood` (`TerminalStays`): for any number of processes, requests, workers
  and restarts, with no overlap excluded. The lock is what orders the requests of one
  process (`AloneInv`: one that is about to queue a match is the only one its process
  has for it; `QueueInv`: no unfinished task of the match came from that process), the
  compare-and-swap of the claim is what orders the workers of all.

`QualifierRuns_proofs`

- `TypeCorrect`: whatever overlaps.
- `LedgerImplemented` (without `row`, `cap`, `AnyClaim`): every step is a step of the
  ledger or leaves it alone. The inductive invariant has five parts: types; the ids
  given out are dense and a row is sound in itself (`RunInv`); what a request holds
  is still, in everything a run's life depends on, the row of the table, and the
  count it made is still right (`JobInv`: `Held`, `Counted`); two requests never
  hold the same run, nor a request one the tick holds (`ApartInv`); the same of the
  rows the tick has read (`TickInv`). `RowsStep`, `JobStep` and `ReviewStep` say
  once what any step may do to rows, requests and reviews, and the parts are proved
  from those.
- `LedgerHolds`: every behaviour of the ledger keeps every player at or under the cap,
  with one open run at most. It is about the ledger's steps alone.
- `CapKept` (same as `LedgerImplemented`): no player has more counting runs than the
  pool allows nor two in progress. It is `LedgerHolds` carried over by the refinement.
- `EndedForGood` (same): `EndedStaysEnded`.
- `OneVerdict` (same): `VerdictSettledOnce`. `VerdictInv`: a run that has had its
  verdict is settled and has ended, and nothing puts an ended run back to pending,
  so a second reviewer's compare-and-swap on a pending review fails.
- `SeedsApart` (same): `NoSeedDrawnTwice`. `SeedInv` adds that a capture in flight is
  of a race: a draw leaves out every seed the player has a counting run on, and a
  void run never counts again, so the later of two on one seed was raced.
- `AllowanceKept` (same, without `allowance`): `ReattemptsWithinAllowance`.
  `AllowInv`: the reattempts a player got are among the void runs that the next one
  will count, and one about to be given is still within the allowance.
- `ScoresRight` (same, without `par`): `ScoresFollowPar`. `ParInv` has four parts:
  what a verdict in flight still owes (`ReviewInv`); no row that a recompute may
  write is held by another request or the tick (`ClearInv`); a held row's score and
  the runs a recompute has read are the table's (`ReadInv`); a seed that nobody is
  about to recompute is scored against its par (`ScoreInv`).

`MCEliminationGraph_proofs`. The engines are recursive functions and powers of two,
so their theorems are about closed forms: were the two to differ, there would be a
first round in which they do (`LeastNat`), and it is made of a round in which they
agree. The library has nothing on powers; `PowerStep` is proved by counting subsets.

- `SlotsHaveOneSource`: `EverySlotHasOneSource`, for every field, format and reset.
  `Onward` and `Aside` say where the results of a place go, round by round, and
  `Source` which place a slot is fed from. `SourceIs` (the source of a slot is a place
  of the graph and leads there) and `OnwardIs`, `AsideIs` (whatever leads to a slot is
  its source) make them inverse to each other.
- `BeatenOrCrowned`: `OutMeansBeaten`. `Walk`, the inductive invariant, counts the
  losses by where the entrant stands: none in the winners bracket, one in the losers
  bracket, and in the final by the slot it came to.
- `TheBestMeetLast`: `FavouritesMeetLast`. Each order of the seeds has those of half
  the field in its odd places and their reflections in the even ones (`Neighbours`,
  `Arranged`); played by the favourites, the rounds run through these orders backwards
  (`Chart`, `FavouritesCharted`).
- `EnginesPlayable`: the generated graph is `Playable`, that is, all `BracketAdvance`
  assumes of a graph. So its theorems hold of every stage the engines can generate.
- `GroupsMeetLater`: `GroupsApart`, for every field and number of groups. Taking the
  group with most seats left is dealing in turn (`MostLeft`): the seats, in the order
  they are given (`SeatedAt`), go round the groups (`SeatGroupsDealt`). The two of an
  opening match have turns that follow one another, so with two groups or more they
  are of different ones (`PairApart`); and a group has one of its seats in each of as
  many rounds as there are tiers (`TierIs`), so nobody is left out.
- `RoundRobinMeets`: `EveryPairMeetsOnce`, for every field and number of groups. Pass
  `i` of the snake deals group `g` the seed `Dealt(groups, g, i)`, which grows with
  `i`: the seeds of a group are that sequence (`GroupSeedsAre`). Who stands where in
  round `r` stood at `Start(size, r, i)` in the first (`ArrangementsAre`). The first
  places of two who meet add up to a number that goes down by two each round, modulo
  the number of those who move, which is odd: so the sum tells the rounds apart
  (`MeetOnce`), and for any two there is a round whose sum is theirs (`MeetEver`).

`PointsStage_proofs`. That the schedule of a round robin stage is one comes from the
lemma behind the theorem above (`RoundRobinIs`). The other hypotheses exclude
overlaps the code does not prevent; the table under Findings says what each breaks.
On the forms of rows and calls (`Base`):

- `NobodyMeetsTwice` (without `round`): `NoRematch`. `SwissInv` follows a round from
  the call that looks at it to the last row: whoever pairs a round has seen every
  match of those before it or else comes too late, and whoever comes too late finds
  position 1 of that round taken and fails on its first row, before it has created
  anything (`Pairs`, `Creates`); so one call at most is halfway through a round, and
  the rows it has still to create repeat no meeting.
- `InOrder` (without `round`, `state`, `result`): `RoundsInOrder`. `CompleteInv`: when
  a stage is ranked nothing is open and nobody is recording or creating anything.
- `OutForGood` (without `retire`): `RetiredIsOut`, however retirements overlap with
  the pairing of a round. `OutInv` extends it to the rows still to be created and to
  the entries a ranking is about to save whole.
- `RanksRight` (without `state`, `result`, `retire`): `RanksFollowResults`. `RanksInv`:
  what a ranking has read are the stage's results, and an entry either has its rank
  or is about to be saved with it; a retirement, which saves a whole entry too, holds
  the rank the entry has.
- `NoRoundForgotten` (without `round`, `state`, `retire`): `NextRoundPaired`. It is a
  promise about what a call has still to do when others have overtaken it. `PairedInv`:
  when an active stage has nothing open and its rounds are not over, some call is about
  to see to the next one (`Follows`): it has still to look at the round, or has looked
  and seen all of it, or is creating a round and will leave a match open. `StateInv`
  (who changes the stage's state does so alone), `TodoInv` (a round still to be created
  leaves nobody out and has one bye at most, so a match) and `StartInv` (a stage starts
  with a match open) are what keeps that call from coming to nothing.
- `BestGoThrough` (without `state`, `result`, `retire`, `draw`): `BestAdvance`. `DrawInv`:
  a draw has the stage to itself, a stage that was drawn from is ranked again only after
  a correction, and what a draw has enrolled is the beginning of its order. That the
  order takes the best of each group: sorting is by how many are ahead (`RankedLists`),
  the draw is a grid of groups by tiers (`AdvancersThrough`), and laying it out by
  opening pairs only permutes it (`SeatsShuffled`, of the engines). Ranks are numbers
  because whoever is ahead of an entry is one of the entries (`RankIs`).

The assumptions on the constants (`IdAssumption`, `RowAssumption`,
`GraphAssumption`, ...) say that ids are numbers, that NULL is not a row or a number,
that bounds are of their type, and that a stage can be played on its graph
(`BracketGraph!Playable`). TLC evaluates them in every run, the last for the graphs of
the fields it plays; that it is true of the graphs of every field is `EnginesPlayable`.

**Only model-checked** is what the proof system does not reach, liveness: `StageEnds`,
`EveryRollEnds`, `AbandonedRunEnds`, the liveness half of `LedgerKept`.

## Not modelled

- Stations, crew, volunteers, check-in, equipment, payouts: a table or two each with
  no process over them.
- Challonge, start.gg, SpeedGaming, Discord, webhooks, push: remote input and
  output.
- Tenancy, authorisation, login and tokens, presentation, migrations.
- `CoroutineQueue` beyond the order in which `discord_queue` settles series: stop,
  discard, re-binding of the tenant.
- Within the modelled components: notifications and audit entries (except that a
  transition or a settled game is announced); creating, enrolling and seeding a
  stage that is still a draft, and what staff change in the draft the draw filled;
  reopening a cancelled stage; draws, which the standings accept and no stage
  reports; requests for a match that does not exist yet; the opt-in window for hard
  presets; deleting a live race, which leaves its runs without one, and changing a seed's
  live flag in a pool under way; a qualifier's public boards. Restarts are in
  `PointsStage`, `MatchReschedule`, `SeedRoll` and `QualifierRuns`; in `BracketAdvance` and
  `BracketSeries` one would break the
  properties by design, as a walk that stops halfway is taken up by nobody.

The repository is mostly pages, routers, migrations and mirrors of remote services;
the models cover two fifths of the components they belong to, and those components
are a small part of the whole.

## Plan

1. An abstract stage (results and slots) that `BracketAdvance` implements: `Due` and
   `PlaceInv` of its proofs are most of the mapping.
2. `BracketSeries`: restarts, and the abstract series (a score and a winner) it
   implements.
3. `CoroutineQueue`: order, isolation of failures, stop with items queued; stations.
4. That some matchup is open whenever a `BracketAdvance` stage is at rest, for every
   graph of two brackets: the safety half of `StageEnds`.
