# TLA+ models of cel-go

cel-go parses, type-checks, plans and evaluates expressions of the Common
Expression Language. This directory models the parts whose correctness depends
on the order in which things happen, or on a case analysis that tests can only
sample: specifications in TLA+, small instances of them checked with TLC, and
theorems about them checked with TLAPS for every value of their constants. All
paths below are relative to the root of the repository.

## 1. Inventory

`source text -> parser (macros) -> AST -> checker -> planner -> Interpretable -> Exec(frame)`,
with optimizers between AST and AST, a pruner from AST and evaluation state to
AST, an unparser from AST to text, and cost and memory trackers beside `Exec`.

| Part | State it keeps | Operations | Interacts with | What is hard | What makes it correct |
|---|---|---|---|---|---|
| Concurrent evaluation (`cel/program.go`, `interpreter/async.go`, `cel/async`) | call tracker, semaphore, active counter, completion channel, context, result channel | evaluate a pass, register, dispatch, launch, complete, drain, cancel | interpreter, implementations (goroutines), drain strategy | goroutines against one evaluator, a bounded channel, a limiter that refuses instead of blocking, cancellation, timers | never waits for nobody; one run per call; a result independent of timing; goroutines go away |
| Async wrappers (`cel/async/async.go`) | attempt counter, timer, channel of one attempt | Timeout, Retry | implementations, context | a late answer against a retry | an answer belongs to its own attempt; bounded attempts |
| Interpreter (`interpreter/interpretable.go`, `planner.go`, `decorators.go`) | activation stack, accumulator of each fold, observed state | Exec of each node kind | attributes, observers, trackers | errors, unknowns and absorbing values meeting in one operator; lazily initialised accumulators | short-circuiting is invisible; unknown means undetermined |
| Attributes and patterns (`interpreter/attributes.go`, `attribute_patterns.go`) | qualifier lists | resolve, qualify, match | activation | patterns shorter or longer than an attribute, shadowing, dynamic keys | a hidden value is never read |
| Pruning (`interpreter/prune.go`, `cel/env.go` ResidualAst) | copy of the observed state, the Ast's macro calls | prune, print, parse again | interpreter, unparser, parser | state of only the last loop iteration; in-place changes; several stages | the residual has the original's value |
| Frames and pools (`interpreter/frame.go`) | pooled frames, contexts, folders, trackers | push, pop, close, reuse | evaluation, goroutines | reuse while a late goroutine still holds a reference | no state crosses from one evaluation to another |
| Program (`cel/program.go`) | planned expression, options | Eval, ContextEval, ConcurrentEval | all of the above | interrupts, cost limits, panics | every path closes its frame |
| Environment (`cel/env.go`) | declarations, lazily made checker and dispatcher | Extend, Compile, Check, Program | parser, checker, planner | once-only initialisers, copy on write between parent and child | a child never changes its parent |
| Containers (`common/containers`) | name, aliases | resolve candidates | checker, planner | order of candidates, alias clashes | checker and planner resolve alike |
| Checker (`checker`) | scopes, substitution, reference and type maps | infer, unify, resolve overloads | containers, declarations | order of bindings of type parameters, rollback, occurs check | a checked expression does not fail by type |
| Parser (`parser`) | token position, recursion depth, error budget, ids, macro calls | parse, recover, expand, balance | macros | precedence, recovery, limits | the tree respects precedence; ids are unique |
| Unparser (`parser/unparser.go`) | output, wrapping | print | AST | parentheses, escapes | parsing the output gives the same tree |
| Optimizers (`cel/optimizer.go`, `folding.go`, `inlining.go`) | AST in place, id generator | fold, inline, renumber | interpreter, checker | ids shared by macro calls and expansions | same value, unique ids |
| Cost (`common/cost`, `checker/cost.go`, `interpreter/runtimecost.go`) | stack of tracked values, estimates | estimate, track, limit | checker, interpreter | saturating arithmetic, estimate against actual | tracked cost lies within the estimate |
| Memory tracker (`common/types/memory_tracker.go`) | live sizes, peak | track | interpreter | sharing between values | the peak is an upper bound |
| Value types (`common/types`) | immutable values, mutable accumulators | arithmetic, equality, ordering, conversion | interpreter | 64-bit edges, cross-type comparison | no silent wrap; equality and hashing agree |
| Declarations, standard library (`common/decls`, `common/stdlib`) | overload lists | merge, bind | environment | overlapping signatures | a call matches at most one overload |
| Policy (`policy`) | rule tree | compile, compose | environment, optimizer | first match against nested fall-through | the composed expression selects the first match |
| Extension libraries (`ext`) | none | pure functions | interpreter | boundaries | as documented |
| Sources, runes, configuration, tools | offsets, buffers | slice, locate, convert | parser | width of code points | positions are those of the text |

`PROJECT.json` lists the same parts with their sources and how far each is
modelled; its `hazards` name the lines where each one can go wrong.

## 2. Modules

### Concurrent evaluation

| Module | Role |
|---|---|
| `CelOutcomes` | Outcomes of a node: true, false, error, or an unknown with its causes; `Logical` and `Strict` combine them as `evalOr`, `evalAnd` and strict calls do. |
| `ConcurrentEval` | `prog.ConcurrentEval` with everything it drives. |
| `EvalPromise` | What `ConcurrentEval` promises, without passes, gates and channels. |
| `MCConcurrentEval` | Two small expressions for TLC. |
| `ConcurrentEvalProofs` | The theorems about the loop, and the refinement. |

An expression is a tree of nodes numbered in the order the interpreter completes
them. One pass is a sequence of `ExecNode` steps, so that a call may complete
between the evaluation of two nodes of the same pass; the nodes that
short-circuiting skips are those below an operator already decided (`Reached`).
The evaluator's position in the loop of `ConcurrentEval` is `pc`:

| `pc` | Code (`cel/program.go`) | Actions |
|---|---|---|
| exec | `p.Eval(frame)` in the loop | `ExecNode`, `ExecPanics`, `FinishPass` |
| dispatch | `DispatchPendingAsyncCalls(unk.IDs())` | `Dispatch`, one id per step, and `DispatchDone` |
| await | first `select` on completions and context | `AwaitCompletion`, `AwaitCancelled` |
| decide | `strategy.NextAction(active, batch)` | `Decide` |
| drain | second `select`, with the debounce timer | `AwaitCompletion`, `DrainTimeout`, `AwaitCancelled` |
| close | deferred `frame.Close`, `close(resCh)` | `Close` |

A goroutine of a call goes through `CallReturns` or `CallCancelled`, then the
steps of `asyncGate.Complete`: `ReleaseSlot`, `Deactivate`, `CheckContext`,
`SendCompletion` or `SendAbandoned`. They are separate actions because other
goroutines and the evaluator run between them. `completions` is the bounded
channel, `sem` the semaphore of the launch limit, `active` the counter that the
drain strategies read.

The data of values is abstracted to a boolean and errors are not told apart:
that is what short-circuiting, equality and the loop tell apart. `Calls` are the
identities under which the tracker finds a call (function, overload and
arguments): hash collisions do not matter, because `getOrCreate` compares the
arguments.

### Async wrappers

| Module | Role |
|---|---|
| `AsyncWrappers` | One call whose implementation is wrapped in Timeout and Retry. |
| `AsyncWrappersProofs` | The theorems. |

`conf` says which of the three layers of Timeout(Retry(Timeout(fn))) are there and
how many attempts Retry may make; both orders of nesting, and either wrapper
alone, are special cases. `loop` is the position in the loop of Retry, `run` and
`res` the goroutine and the answer of each attempt. The channel of an attempt has
one sender and room for one answer, so that its content is `res` once `run` is
"sent". A deadline passes by itself (`OuterDeadline`, `AttemptDeadline`); what it
makes Timeout do is a step of its own, so that an answer can arrive in between,
and the `select` may then take either. `Publish` is the goroutine of the call in
`launch`: it runs the wrapped implementation inline, so that even a done context
is seen only after the implementation has returned. The steps `CallReturns` and
`CallCancelled` of `ConcurrentEval` are this `Publish`; that the wrappers answer
(`AnswerExplained`) is what the assumption `ProperAnswers` of its theorem asks of
them.

### Frames and pools

`FramePools` models evaluations that take execution frames, contexts and call
trackers from the process-wide pools and put them back. The content of a field is
abstracted to the evaluations it comes from, so that the question is who can read
whose state: {} is nil or empty, {e} is a value of evaluation e. `pc` is where
`Eval`, `ContextEval` or `ConcurrentEval` is, `stack` the chain of frames from the
root that `Push` makes for comprehensions. A goroutine of a call (`running`) keeps
the gate it was launched with, and `Complete` may come after `Close`. What is not
put back (`AbandonFold`, the frames above the root when a panic ends an
evaluation) is garbage, and its pool makes a new object instead.
`FramePoolsProofs` holds the theorems.

### Partial evaluation

| Module | Role |
|---|---|
| `Interpreter` | Values, expressions, and `Exec`: the value of an expression under an activation and the state the observer has recorded. |
| `Prune` | `PruneAst` with macro calls, and what of its result can be printed and parsed. |
| `PartialEval` | The stages: evaluate under unknown attributes, make the residual, learn attributes, evaluate again; or keep the first Ast and evaluate it for other values. |
| `MCPartialEval` | Families of expressions for TLC. |

`Exec` follows the plan of the code: a chain of selections and indexings is one
attribute with qualifiers (`Base`, `Quals`), a conditional is an attribute too
unless short-circuiting is disabled (`IsAttr`), the qualifiers are observed under
their own ids (`ApplyQuals`), unknown patterns are matched before a variable is
looked up and never against a loop variable (`ResolveVariable`), the accumulator
of a fold is initialised outside the loop when it is first read (`Loop`), and a
later record of an id replaces an earlier one, so that the state holds the last
iteration of every loop. `Prune` keeps the macro calls of an Ast apart from its
expressions, as `SourceInfo` does: what is printed for a comprehension is its
macro call, and pruning changes the macro calls in place.

Ids of nodes are paths in the tree: all the code needs of them is that they are
distinct and kept by pruning. Errors are one value, and so are unknowns.

### Text

| Module | Role |
|---|---|
| `LogicManager`, `LogicManagerProofs` | Nodes, and the trees that `logicManager` makes of chains of `&&` and `\|\|`; the theorems about them. |
| `ParserHelper` | What else both parsers share: ids, macro expansion, macro calls. |
| `PrattParser` | The hand-written parser, method by method. |
| `CelGrammar` | The grammar as data, the parse trees of token sequences, and the visitor of the generated parser. |
| `Unparser` | From an AST and its macro calls to tokens. |
| `Text`, `MCText` | A text under edit, parsed, written back and parsed again; alphabets and pasted expressions for TLC. |

A parse in progress is a record of the fields of the parser's worker that change:
position, next id, macro calls, errors, recursion depth. Each method of
`pratt_parser.go` takes it and returns it, in the order in which it consumes tokens
and gives out ids; the methods call one another through `Parse`, which keeps the
mutual recursion in one place. `CelGrammar` is independent of it: the sentences of
an alphabet and their parse trees are computed from the grammar's rules, bottom up,
and the visitor of `antlr_parser.go` makes an AST of a tree. A token stands for
itself, so the lexer is not part of the model.

### Checking and resolving names

| Module | Role |
|---|---|
| `Mapping`, `MappingProofs` | Types; substitutions with the log from which a failed attempt is undone; the theorem about it. |
| `TypeMapping` | `isAssignable`, `substitute`, joining of types. |
| `Checker` | Candidates of a name in a container, aliases, which the planner shares; the checker: a type and a rewritten name for every node. |
| `Attributes` | The planner's attributes and their resolution, with and without the checker's references. |
| `Static`, `MCStatic` | An expression grows; it is checked, planned both ways and evaluated, and so is the expression with its loop variables renamed. |

`Checker` and `Attributes` use one AST. What the checker writes into its reference
map is here written into the node (`ResolveIdent`, the rooted name of a variable
that a loop variable hides). `Exec` in `Attributes` evaluates the values that types
tell apart (int, string, list, map, null); it is a second interpreter beside
`Interpreter`, because the questions are different: this one has no unknowns and
resolves names, that one has no names and observes.

### Values

| Module | Role |
|---|---|
| `Numeric` | The checked arithmetic of `overflow.go`, with guards and results that wrap around at the width; a value that goes through any sequence of operators and conversions of int, uint, duration and timestamp, beside the exact result. Comparison and conversion of int, uint and double; lookup, insertion and equality of maps with numeric keys; list indices. A number is converted from type to type, and a map grows. |
| `Accumulators` | Lists on a heap, and the comprehensions that append in place. |
| `Values`, `MCValues` | One machine of these parts. |
| `NumericProofs` | The theorems about numbers. |

The width of an integer, the length of a second in ticks and the range of
timestamps are constants. A double is counted in halves and has a mantissa shorter
than an int, so that it rounds as float64 does to int64. A list of `Accumulators`
is an address; what the program means is computed beside it by `Meaning`, in which
lists are values.

### Cost

| Module | Role |
|---|---|
| `CostAlgebra`, `CostAlgebraProofs` | Amounts that saturate, and ranges of them; a cost expression that grows by one operation at a time, tracked and estimated; `AlgebraSound`. |
| `CostModel` | Checked expressions, attribute chains, `mustReadVar`; the quantities of `model.go`, what they come to on both sides, and the models of standard functions. |
| `CostEstimator` | `coster`: cost, path and size of every subexpression. |
| `CostTracker` | What a run is charged, with lazily bound variables, attributes and loops. |
| `Cost`, `MCCost` | A host that hints sizes, estimates a program and runs it. |
| `CostPaths` | The slices that paths are kept in. |

Of a string only its two lengths matter, so that a test on contents has a verdict
that is chosen once for a run; booleans and integers are kept. `Estimate` returns
cost, path and size of a node together where the code keeps them in maps by id. In
`CostEstimator` a path is a sequence, which is what the code means by it; that
`append` may write into a path that is in use is the subject of `CostPaths` and the
run `cost_path_alias`.

### Policy

| Module | Role |
|---|---|
| `PolicyCompiler` | From the rules of a policy to compiled rules: scopes of variables, and the validations of types and of reachability. From a compiled rule to one expression: steps and how they combine, variables as slots of a `cel.@block`, unnesting by height. |
| `Policy`, `MCPolicy` | A policy is read, compiled, composed and unnested; what it means (`Decide`), and an evaluation of what it is composed to. |

An expression of a policy is a node of `Checker`, which is instantiated for the
environment of every rule: `Env(declared)` stands for the environments that
`compileRule` extends with each variable. A rule is read from top to bottom, so that
what comes next belongs to the root or to a rule below it that is not finished.
`CompileRule` and `Compose` are one action each: nothing else sees what they are
in the middle of. Slots are evaluated in their order: each reads those before it
only, and what a read has found stays, so that evaluating them at the first read,
as the code does, finds the same. `Decide` is written from what rules mean, without
steps, optionals or slots.

## 3. Runs

Every run is exhaustive for its constants.

| Run | Asks | Bounds |
|---|---|---|
| `concurrent_any` | `a() \|\| b() \|\| c()`: short-circuiting while calls are out, a limiter that refuses, panics; a cancellation ends it although nobody answers, and goroutines go away | 3 calls, one slot, a channel of one, strategy all |
| `concurrent_chain` | `x && (a() \|\| e() \|\| t) && c(b()) == [1, 1].map(i, d(i))` with an unknown attribute whose id is the number of `a()`: a call that needs another's result, two that are never needed, one that is made twice in a pass; errors, interrupts and panics; a result is delivered | 5 calls that answer false or an error, 2 slots, a channel of one, strategy ready with a timer |
| `async_wrappers` | late answers, deadlines, backoffs and a cancellation in any order | at most three attempts |
| `frame_pools` | pooled objects of two evaluations, side by side or one after the other, while goroutines end late | 3 frames, 2 contexts and trackers, one nested comprehension at a time, one call each |
| `partial` | logical operators, conditionals, equality, membership, failing calls, comprehensions, bindings, indexing, presence tests, optional elements; an Ast may be pruned again and again | two levels deep; 2 booleans, a number, a map of one field, lists of at most two elements; every set of unknowns and every number of stages |
| `text` | two parsers, limits, ids, balancing, the unparser | five alphabets of 6 to 10 tokens, texts of up to 6, 7 or 8 tokens and one more; pasted expressions with macros in macros and long chains |
| `static` | soundness, the substitution log, resolution without the checker, hygiene | 17 595 expressions: 12 functions and operators of up to 6 overloads, 7 variables, one container with an alias |
| `values` | operators, conversions, comparison, lookup, lists | integers of five bits, seconds of four ticks, seven seconds of time; a mantissa of three bits; 5 keys, maps of two entries and those that inserts make of them; some hundred programs, two runs |
| `cost` | estimate against charge and size; the arithmetic of both | 5 inputs put twice into one of about 30 contexts; 2 strategies, 4 kinds of hints, 3 values of the inputs; amounts 0, 1, 10 and the largest |
| `policy` | first match and aggregate, nested, with optional outputs, variables declared again, validations; unnesting | up to 4 matches in rules nested up to 3 deep: size at most 8, where a match, and whatever is unusual in it, counts 2 and a variable 1; at most 3 variables and nested rules; heights 1 and 2; conditions independent of one another, at most one of them failing, some of them strings |

The bounds of the concurrent runs are the smallest at which the cases happen:
one slot and a channel of one make the limiter refuse and the send block with
three calls; two slots and five calls give overlapping completions; more calls
only repeat these. Of the two calls that are not needed, one has the number of the
unknown attribute and one has a number of its own. Strategy none is that of ready with no batch to wait for; the
theorems of section 4 are about all strategies. The unbounded history `passes` is bounded by the calls
(`PassesPaid`). The expressions of the partial run pair every operator with
every kind of argument (known, unknown, failing, partly unknown), and nest each
family below one more operator; a residual can have at most as many stages as
there are unknown patterns to learn, and all of them are explored.

Two evaluations show every crossing of state: what matters is that one uses what
the other has left or still holds. Objects of a pool are interchangeable, and more
of them make reuse rarer, not different. Three attempts of the wrappers show a
first, a middle and a last attempt; a limit of zero stands for all limits that
allow none.

The parsers look at one token, and at two where a message may begin: eight tokens
hold every pair of neighbouring constructs, and the alphabets put together those
that compete for the same tokens (signs and numbers, selections and messages,
operators of neighbouring precedence). The integers of `values` are wide enough
for every guard of `overflow.go` to have both outcomes at both ends, and narrow
enough for all pairs; all but lists is proved for every width. Two steps in `cost`
compose every pair of constructs. A third was tried by hand (about two million
states, no violation) and is left out for its length.

A policy of four matches has a rule between two others at every depth, which is what
the combination of steps depends on: a step sees only the one that comes next. A
condition is a variable of its own, so that every combination of true and false
conditions is an input; a failing one ends an evaluation, so that a second shows no
more.

Two more runs expect a violation; they are the findings of section 6.

### Properties

* `NoLostWakeup`: the evaluator never waits without a bound on a channel nobody
  will write to. This is what the order "release the slot, then signal" is for.
* `GateAccounting`: semaphore and counter agree with the goroutines.
* `OneRunPerCall`: no implementation runs twice, a published result never changes.
* `DrainAllComplete`: under DrainAll no pass runs while a launched call is open.
* `PassesPaid`: stale completions cannot make the evaluator spin.
* `LaunchExplained`: a call is launched only if it is a cause of the last unknown, or
  if its number is also the id of another cause; a call that was registered and then
  absorbed is otherwise never launched. `x` and `a()` of `concurrent_chain` have the
  same number, so that both cases happen (section 6).
* `KeepsPromise`: refinement of `EvalPromise`. The result is the one the
  expression has whatever the calls still unanswered would return. An interrupted
  comprehension inside an operator with an unknown argument is published as that
  unknown, not as an error, and the promise allows it.
* `ResultDelivered`, `CancelEnds`, `NoGoroutineLeak`: liveness.
* `RetryJustified`: an implementation is run again only after its run before has
  ended with a retryable error. It holds because the error of a timeout wraps no
  retryable error: a call never has two runs of its implementation at once.
* `AnswerExplained`: what is returned is the answer of the last attempt, or a
  timeout or cancellation that has happened; nil only if no attempt is allowed.
* `TimeoutBounds`, `NoStuckSender`: liveness. A Timeout bounds the call although
  the implementation never answers; a late answer does not block its goroutine.
* `OwnState`: what an evaluation can read through its frames, variables, lazy
  values, late-bound functions, interrupts, recorded state and calls, is its own.
  So is the number of active calls that its drain strategy reads, however late the
  goroutines of an earlier evaluation end (`GateOwn`): the gate, unlike the context
  that refers to it, is never pooled.
* `Exclusive`: an object given out by a pool has one holder, and is not in the
  pool until it has none.
* `NoPeeking`: a partial evaluation and its recorded state are the same for all
  values of the unknown attributes.
* `KnownIsFinal`: a result that is not unknown is the result of the full
  evaluation, errors included.
* `ResidualFaithful`: after any number of stages the residual has the value of
  the original, unless the original fails (`x in []` prunes to false even where
  `x` fails).
* `ExhaustiveAgrees`: short-circuiting is invisible.
* `NoPanic`: pruning fails no type assertion.
* `ParsersAgree`: the hand-written parser accepts what the grammar and its visitor
  accept, except lists, maps and messages of a comma alone (`[,]`, `{,}`, `M{,}`), all of
  which it refuses; of what both accept they make the same AST, ids and macro calls
  included.
* `UniqueIds`: no two nodes share an id although ids are given back; every node that
  is left out of a macro call stands for a macro call of its own.
* `RoundTrip`: what the unparser writes parses to the same AST, but for selections
  from unary operations (section 6).
* `LimitsExact`: the recursion limit lets nothing deeper through, refuses nothing
  that is within it, and changes nothing else.
* `Balanced`: a chain of logical operators becomes a tree with each term once, in
  order, of logarithmic height.
* `SubstitutionKept`: no type parameter comes to stand for a type that mentions it,
  and a failed assignability test leaves no trace.
* `Sound`: an accepted expression without dyn and null evaluates to a value of its
  type, or fails for want of a key. Names written with a leading dot and indexed by
  something computed are excluded (section 6).
* `UncheckedAgrees`: an accepted expression means the same without the checker's
  references, but for the forms of section 6.
* `Hygienic`: the names of loop variables make no difference.
* `Exact`: no sequence of checked operators and conversions gives an inexact result,
  and none fails that has one in range.
* `OrderCoherent`: numbers of different types are compared as the numbers they are.
* `LookupAgrees`: a key of any numeric type finds the entry of the number it is, by
  every path; an insert never adds a number that the map has; maps are equal when
  they have the same entries. Maps that a literal gave two keys of one number are
  not compared, and the least double, which is no int to the code, not looked up.
* `Immutable`: a list never changes, whatever programs run on it.
* `Enclosed`: a cost expression comes to an amount within its estimate whenever its
  operands do.
* `CostBounded`: a run is charged at most what was estimated. Presence tests on the
  branch of a conditional are excluded (section 6). There is no property for the
  lower bound of a cost, which the code does not keep (section 6).
* `SizeBounded`: results, their elements and keys are of the sizes estimated. The
  lower bound is checked for the default strategy and not for optionals.
* `DecisionKept`: what a policy is composed and unnested to decides as the policy does,
  on every input: the first match, or all of them under an aggregate, an optional
  where there may be none, and an error exactly where a condition that is looked at
  fails.
* `Composes`: what the compiler accepts can be composed, to an expression that checks
  and has the type expected of the rule. Conditions that are not of type bool, rules
  without a match and lists that fall through are excluded (section 6).
* `Reachable`: a policy is refused as unreachable if and only if it has a match that
  no input leads to.

### Fairness

`SchedulerFairness` is weak fairness of the evaluator and of each goroutine's
steps after its implementation has answered: the Go scheduler runs what can run.
It says nothing of the implementations: the liveness properties of
`concurrent_any` hold without their cooperation. `ImplementationFairness`, weak
fairness of `CallReturns`, is assumed only by `concurrent_chain`, whose property
`ResultDelivered` is about implementations that answer. `async_wrappers` assumes that timers fire and goroutines run, and nothing
of the implementation.
When the context is done and a channel is ready, Go's `select` may take either;
no fairness between them is assumed. The sequential models have only safety
properties.

## 4. Proofs

`ConcurrentEvalProofs` proves, for every expression tree, set of calls, limit,
buffer and strategy that satisfies `TreeAssumption`, `CallAssumption` and
`LimitAssumption`:

| Theorem | Property | Argument |
|---|---|---|
| `TypeCorrect` | `TypeOK` (no run repeats it) | inductive with `PassState` (a completed pass has an outcome for its root) |
| `GateAccounted` | `GateAccounting` | with the goroutine states; each step moves one call between the sets being counted |
| `CallsRunOnce` | `OneRunPerCall` | a call with a goroutine was started, and a result exists only after the implementation |
| `DrainAllWaits` | `DrainAllComplete` | the counter is zero only if no call runs, and no call is launched during a pass |
| `NoWakeupIsLost` | `NoLostWakeup` | `WakeInv`, under `ProperAnswers` |
| `PassesArePaid` | `PassesPaid` | `Paid`: every pass but the first has a call of its own whose completion was taken or dropped (`Used`), and the next has one while the loop decides; `QueueOnce`: no call is in the queue twice |
| `LaunchesAreExplained` | `LaunchExplained` | `LaunchInv` |

`NoLostWakeup` is not inductive: why the wait is safe was decided during the
pass. `WakeInv` carries the reason through the loop: each call that made a node
of the pass unknown is outstanding, which means not started, or yet to signal
(`SeenOutstanding`; no completion is taken from the channel during a pass); at
the end of the pass some such id is in `todo`; when it is dispatched it is live
already, or it is launched, or there is no slot, and then somebody holds one who
has still to signal (`GateAccounting`); and a live call stays live until its
completion is received, which ends the wait. `ProperAnswers` says that
implementations answer (not nil) and answer no unknown of unspecified trail;
without it the property is false (section 6). `AsyncWrappersProofs` shows that
Timeout and Retry do not break it.

`LaunchInv` says that every cause, in the last unknown, in the outcomes of the pass
and in what implementations have answered, is either that of a pending call or an
`OtherCause` (`CausesKnown`), and that `todo` holds ids of the last unknown. The
theorem needs no assumption about ids: it says exactly what the code's one number
space lets through.

It also proves the refinement `KeepsPromise` (`ImplementsPromise`), under the same
three assumptions, and nothing about what implementations answer or about ids: a call launched for
the id of an attribute costs a needless run and never changes a result. What an
expression denotes, when every call has a final answer, is unique and exists
(`EvaluationExists`, by a least counterexample: the outcome of a node needs those of
earlier nodes only). `PassMeaning` is the invariant of a pass: the outcome of a node
is what the node denotes under every completion of the results so far, unless it
still waits for a call or a done context has disturbed it; and a node that was left
out is one that an earlier argument has decided against. Its step is
`CombineSound`: what `ArgOutcomes` and the operators make of outcomes in that
state, they make of the denotations. The turns of a comprehension need care there:
once `@result` is unknown, the error of a later turn is dropped (`Overtaken`), so
that which errors count depends on what came before them. `TreeAssumption` says for this that subtrees
are nested, as those of a tree numbered in postorder are. A result that is
delivered, the close of the channel, the answer of an implementation and the
cancellation of the context are then the steps of `EvalPromise`; every other step
maps to a stutter.

`FramePoolsProofs` proves, for any number of evaluations and of pooled objects:

| Theorem | Property | Argument |
|---|---|---|
| `PoolsExclusive` | `Exclusive` | `HoldInv`: an object is out of its pool exactly if a stack, a root frame or a context refers to it, and then at one place |
| `OwnStateKept` | `OwnState` | `OwnInv`: pooled objects are as good as new; frames, contexts and trackers that an evaluation holds have its content only; a gate counts the running calls of its evaluation |

`OwnStateKept` assumes that no input brings late-bound functions twice
(`"conflict" \notin Inputs`): with one the property is false (section 6).

`AsyncWrappersProofs` proves, for every limit of attempts:

| Theorem | Property | Argument |
|---|---|---|
| `WrappersTyped` | `TypeOK` | inductive |
| `RetriesJustified` | `RetryJustified` | `LoopInv`: attempts before the current one have ended with a retryable error, and so has the current one when the loop is at its head again |
| `AnswersExplained` | `AnswerExplained` | `ErrInv`: the last error is the last attempt's answer, or nil before the first; an answer that has been taken stays in its channel |

`NumericProofs` proves `Exactness` (`Exact`) for integers of every width, every
length of a second and every range of timestamps within it. An operator's guard is
first shown to be equivalent to "the exact result is in range" (`AddSubtract`,
`Multiplication`, `Division`, `AddTimeDuration`, `SubtractTime`, ...), where the
wrapping guards and results of the machine are unwrapped (`InRange`, `Unwrapped`) and the truncated
quotients of the guards bounded (`QuoRem`); then each action keeps `Exact`, which is
inductive with the type of the accumulator (`CalcInv`).

It also proves, for integers of every width, mantissas of every length below
it, every set of keys and every sequence of conversions and inserts:

| Theorem | Property | Argument |
|---|---|---|
| `OrderIsCoherent` | `OrderCoherent` | inductive with the type of the number; each of the comparisons orders its operands as the numbers they are (`CompareOrders`), each conversion drops a half (`Conversions`) |
| `LookupsAgree` | `LookupAgrees` | `MapsTyped`: the keys of a map are ints and uints, of the type it is keyed by, and no two are one number |

Both rest on what rounding does. The only thing known of it is that the double of an
integer is one of the two multiples of its unit next to it. No double lies between
these (`Gap`: it has a greater exponent, or it is too small), so that a double below
the rounded integer is below the integer itself, and an integer that is a double is
not rounded (`Nearest`); and the double of an integer is an integer (`DoubleEven`),
which is why a lossless conversion finds the number and no other (`LosslessIs`).
Powers of two are counted as sets of subsets, since nothing else is known to the
prover of them. `DoubleAssumption` says what the code takes for granted of float64:
2^63 and 2^64 are doubles, a mantissa has fewer bits than an int, and the greatest
int rounds up. Equality of maps needs that an injection between sets of one size is
onto.

`CostAlgebraProofs` proves `AlgebraSound` (`Enclosed`) for every largest amount, all
factors and all operands: the saturating operations are monotone in the direction
that the bounds of their range are computed from (`AddMonotone`,
`SubtractMonotone`, `MultiplyMonotone`, `ScaleMonotone`), so that each operation
keeps the amount within the range. Multiplication needs most: a saturated product
is shown to be the least of the product and the largest amount (`MultiplyIs`).

`LogicManagerProofs` proves of `balancedTree`, for chains of every length:

| Theorem | What it says |
|---|---|
| `ChainMeansTheSame` | The tree of a chain has the value of the chain read from left to right, wherever the operator is associative. |
| `ChainInOrder` | Read from left to right, the tree is what was typed: every term and every operator's id, once, in its place. |
| `ChainIsShallow` | The tree of fewer than 2^k operators is at most k deeper than its deepest term. |

Values, readings and heights are recursive over expressions, so the theorems are about
every function `M` (or `H`) on a set `E` of expressions that obeys the equation of its
recursion: `E` holds the terms and is closed under calls of the operator (`Closed`), and
`M` of a call combines `M` of its arguments (`Means`, `Reads`, `Heights`). `C` is the
chain from the left, term by term. `P` of `ChainIsShallow` is any function with the
equations of powers of two. That the recursion over parts of the chain ends is proved, not
assumed (`TreesExist`): the trees of parts shorter than n make those of length n. From the
equation (`TreeIsCall`) each theorem follows by going from shorter parts to longer ones
(`SpanInduction`, by a smallest counterexample); what it carries for a part that does not
begin the chain is that combining it with all that precedes it gives the chain up to its
end. `ChainInOrder` is `ChainMeansTheSame` for reading, which is associative.

`MappingProofs` proves `FailedAttemptUndone`, for mappings of any names to any types: a
test that says no leaves the substitutions as they were before it, whatever it added
and however often it bound one parameter. The test may take any number of steps, each of
which adds to the mapping, notes a cycle or gives an answer (`Tests`), as those of
`isAssignable` do. The invariant is that undoing the log gives the substitutions of the
start; undoing is a recursive function, and what is shown of a longer log is that the
substitutions before the add, in front of those that undoing went through before,
solve its equation, which has one solution (`OneUndoing`). Started inside another
attempt, the test would undo both; the theorem assumes an empty log, as the callers of
`attempt` have it.

Every invariant of the proofs was checked by TLC on the instances of section 3 before
it was proved.

Only model-checked: the liveness properties (`ResultDelivered`, `CancelEnds`,
`NoGoroutineLeak`, `TimeoutBounds`, `NoStuckSender`), which are beyond the prover, and
everything about trees (partial evaluation, text, checking, policies, lists and the
cost of expressions), where what matters is what recursive operators compute.
`Balanced` and `SubstitutionKept` stay with TLC too: what is proved is what `balancedTree` makes of a chain
and what an attempt leaves of a mapping, and TLC checks that the parser hands over the
chain that was typed, and that the recursion of `isAssignable` undoes what it should.

## 5. Not modelled, and the plan

In the order in which they are to be built:

1. `Optimizer`: folding and inlining preserve the value under `Attributes`;
   renumbering keeps ids unique and macro calls with their expansions.
2. `EnvExtend`: parent and child environments, once-only initialisers raced by
   several Program calls; a child never changes its parent.
3. `Decls`, `Source`, `Memory`: merging of overloads, offsets in text of any width,
   accounting of live values.
4. `Session`: the definitions of `repl/evaluator.go`, of which one may use those
   before it, when one of them is replaced or deleted.

Left out for good: protobuf and Go reflection (the behaviour of libraries), the
tables and the error recovery of the generated parser, configuration formats,
command-line tools, prompts, documentation.

Within the modelled parts these are left out:

* evaluation: map and message literals under unknowns, late-bound functions,
  decorators that optimise constants and regular expressions, observers of memory;
* text: the lexer, quoted identifiers, literals other than ints, escapes, line
  wrapping, positions;
* checking: messages, enums and type names from a provider, optional selections;
* values: strings, bytes, narrower widths, arithmetic of doubles, conversions to
  native types, mutable maps, conditions of loops;
* cost: versions 0 and 1 of the model, dyn, `cel.@block`, optional elements, totals,
  manual cost functions, the models of the extensions, map accumulators, unknowns;
* policies: YAML, imports, custom tags, explanations, metadata, conditions and outputs
  of type dyn.

## 6. Findings

Each is shown by a run that expects a violation; `PROJECT.json` quotes the lines.

| Run | What it shows |
|---|---|
| `prune_reused_ast` | `PruneAst` changes the macro calls of the Ast it was given; a later residual of that Ast holds values of the earlier evaluation. |
| `cost_path_alias` | Paths are extended with `append`, which writes over the path of another node when both extend the same one; the host is asked for the wrong sizes. |

Observed while modelling, not the subject of a run:

Evaluation

* `cel/program.go:716` says "launch only the async calls required by the unknown
  result", but ids of unknown attributes, which are ids of expressions, and numbers of
  calls (`interpreter/async.go:242`) both count from 1, and dispatch looks up both. In
  `concurrent_chain` `a()`, which has registered itself and which `|| t` has absorbed,
  is launched because the unknown attribute `x` has the same number. `LaunchExplained`
  allows a number shared with another cause of the unknown, and nothing else.
* The active counter drops when an implementation has returned, before its
  completion is sent and drained (`Deactivate` comes before `SendCompletion`), so
  that it does not count calls whose completions are still to be drained.
* The slot of a call is given back before a send that may block, so that more
  goroutines than the launch limit can be alive, though never more
  implementations running.
* An implementation that answers nil, or an unknown without a trail, makes the
  loop wait until the context is done; Retry with a limit of zero is one.
* `NewExecutionFrame` stores an activation in the pooled frame before it looks for
  its late-bound functions (`interpreter/frame.go:141`). If there are two of them
  the frame is put back with the activation in it, and a later evaluation over a map,
  or without input, resolves names that its own input lacks in that activation,
  although `interpreter/frame_test.go:431` expects "a clean frame from the pool".
  With "conflict" among the `Inputs` of `FramePools`, `OwnState` fails; the run
  `frame_pools` leaves that input out.
* `interpreter/frame_test.go:392` says that closing a frame again "should be a
  no-op", yet the second `Close` puts it in the pool a second time. The program
  closes its own frames once.
* The residual keeps known attributes of branches that were not evaluated. A logical
  call of three terms (`EnableVariadicOperatorASTs`) is pruned to one of its first
  two, and the third is lost (`interpreter/prune.go:218`). A known condition that is
  no bool makes `PruneAst` panic (`interpreter/prune.go:241`).
* Exhaustive evaluation and short-circuiting differ for an index on a conditional,
  which is an attribute to one of them only.

Text

* `visitSelectInternal`, `visitCallFunc` and `visitCallIndexInternal` put no
  parentheses around a unary operand (`parser/unparser.go:417`): `(-a).a` is written
  `-a.a`, which is another expression; `-(1.a)` comes back as `(-1).a`.
* The grammar accepts `[,]`, `{,}` and `M{,}` (`parser/gen/CEL.g4:64`), the hand-written
  parser does not; `parser/parser_test.go:3923` expects this of `[,]`. `ParsersAgree`
  says that this is the only difference.
* The visitor expands macros also for operators, the hand-written parser for calls
  only: they differ for a macro that is named after an operator.

Checking and names

* Joining keeps the first of two types that are assignable to one another, so that
  the type of a list need not be most general (`checker/checker.go:623`):
  `[1, wrapper_int]` is a list of int, and `dyn([[]]) + [1]` is one.
* A name with a leading dot that is indexed by a loop variable, `[0].map(i, .x[i])`,
  skips the scope of the loop for its key too (`interpreter/attributes.go:393`).
* Unchecked, an alias with a leading dot is not expanded, and `has(a.x)`, `a['x']`
  and `(c ? a : a).x` find a variable named `a.x` that the checker does not look for.
* A loop variable does not hide the first name of a namespaced function.
* `.x` where a loop hides `x` unwraps to the globals of `cel.Globals` rather than to
  the input of the evaluation (`interpreter/frame.go:335`, `activation.go:166`).

Values

* A map literal accepts keys that are equal as numbers: `{1: 'a', 1u: 'a'}` equals
  `{1: 'a', 2: 'b'}` and not the other way round. A map keyed 1.0 is not found by 1.
  A key of type bytes cannot be hashed.
* Equality of ints and doubles rounds, so that the largest int equals 2^63, and is
  not transitive. The double -2^63 is refused as an int.
* Differences of times within a second of the ends of the range, subtraction of the
  least duration, and the least int modulo -1 are refused although the result fits
  in some of these cases. `Exact` counts them as having none.

Cost

* `has((c ? m : n).a)` with attributes for branches is estimated one short of what it
  is charged (`common/cost/estimator.go:385` against `:802`).
* The lower bound of a cost is not one: an index by an attribute (3 against 2),
  `c ? [1, 2][0] : 0`, presence tests under a conditional, optional chains and
  quantifiers that stop early, unused slots of `cel.@block`, the set membership that
  `OptOptimize` makes of `in`. Nor is the lower bound of a size in the aggregate
  strategy for `[] + [x]` and for empty optionals.
* A call that is dispatched at run time is charged 1, as documented. A presence test
  has the path of what it tests, so that a host that answers by path alone gives the
  size of the field to a boolean. "@indices" is a path element that the comment of
  `AstNode.Path` does not list. `docs/cost-model.md` 3.3 makes the size of an
  optional that of its value, the code one more (`default_strategy.go:263`).

Policies

* `policy/README.md:102` says that a condition "must type-check to a `bool` return
  type". `compileRule` looks at the issues of a condition only, never at its type
  (`policy/compiler.go:375`), so that a rule with a condition of type string is
  accepted, and fails to compose. `Composes` and `Reachable` leave such rules out.
* Below an aggregate, a first-match rule that has a rule that may give nothing is
  accepted by `CompileRule`, and the composed expression does not check: the steps are
  lists, which are put together with `orValue`, or with `optional.of([])`, as if
  they were optionals (`ListFallsThrough`). `policy/README.md:201` shows rules that
  are stepped out of, for rules that are not below an aggregate.
* A root rule without matches panics in `recoverOriginalSource`
  (`policy/composer.go:113`), a nested one in `optimizeRule`, unless it comes before
  other matches: then it is refused as unreachable.
* With outputs of type dyn, agreement of types is not transitive, and an accepted
  rule may fail to compose.
* `.variables.x` below a loop variable named `variables` keeps its leading dot when it
  is checked, and is then not rewritten to a slot (`policy/composer.go:289`).

Optimizers, read for the plan

* Constant folding with known values evaluates nested comprehensions in its last
  pass, so that `[y].map(i, [0].map(j, i))` gets the value of a known `i`
  (`cel/folding.go:561`). Inlining captures free variables of the definition under
  loops, and a loop variable `m` does not hide an inlined `m.a`.
  `maybeShortcircuitLogic` drops literal operands that are no bools.
* Candidate patterns are tried in the order of a Go map
  (`interpreter/attribute_patterns.go:296`), so that the trail an unknown reports may
  differ from run to run.
