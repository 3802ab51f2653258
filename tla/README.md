# A verification of queson

queson is a JSON encoder and decoder for Python, written in Rust. Both halves
are loops that keep their own stack on the heap, so that deep documents and
deep object graphs cannot overflow the call stack, and both call back into
Python in the middle of their work. These TLA+ modules model the two loops,
the lexers and writers that run inside them, byte by byte, and the functions of
the Python API around them; TLC checks them on small documents and graphs. TLAPS
proves the parser's invariants for every document, every depth limit and every
implementation of its `Deserialization` trait, and that its two implementations
agree, and that `loads` reads JSON, as the grammar has it, within its depth limit and
nothing else; the
serializer's invariants for every object graph and whatever the hook
does to it, that its output is JSON, and that `loads` reads it; and of the lexers and the vectorized
scan that they are safe for every input, that the longest number is taken and
that every string and every int is read back as it was written.

## Inventory

| Component | State it keeps | Operations | What makes it correct |
|---|---|---|---|
| Parser loop, `parse_json_with` (`src/de.rs`) | cursor, thunk stack, `last_any` | parse any, list, map, key; continue list, map; depth check; end of document | the stack follows the brackets, the limit is exact, input is consumed, the call returns, errors point at the culprit |
| `PyDeserialization` (`src/de.rs`) | dicts and lists being built | `create_*`, `extend_*`, `finish_*`, object hook | the value is the one the text denotes; repeated keys; hook order |
| `ValidateDeserialization` (`src/de.rs`), `Fragment` (`src/ser.rs`) | none | the same trait, to nothing | accepts what `loads` accepts |
| String and number lexers (`src/de.rs`) | cursor, owned buffer | `parse_str`, `parse_unicode_escape`, `parse_number`, `create_number` | the grammar of strings and numbers, surrogates, integer widths |
| Serializer loop, `into_json` (`src/ser.rs`) | buffer, thunk stack, `object_stack` | write a native value, call the hook, continue list, dict; cycle check | output reads back as the graph; cycles are found, shared objects are not cycles; JSON whatever the hook does |
| Writers (`src/ser.rs`) | none | `string_to_json`, `int_to_json`, floats, `write_dict_key` | escapes, integer widths, keys |
| Vectorized scan (`src/simd.rs`) | none | `str_find_special_byte` | nothing special lies before the position it returns |
| Python API (`src/lib.rs`) | none | `load`, `loads`, `loadb`, `dump`, `dumps`, `dumpb` | what is dumped is loaded back; what a failed dump leaves in a file is no document |
| Allocator (`src/pymem.rs`) | none | forwards to Python's | not modelled |
| Benchmarks, build, CI, type stubs | | | not modelled |

Interaction. The API calls one loop; a loop calls the lexers or writers as
functions, and the object hook as a callback. Nothing runs concurrently: the GIL
is held, and another thread could run only inside a callback, where its effects
are those of the hook. What is hard, then, is not threads but (1) the interplay
of a hand-made stack with a cursor or with iterators, on every path including
the failing ones; (2) Python code that runs between two iterations, raises, or
changes the containers that iterators are in; (3) identity of objects by
address, where objects die and addresses are used again; (4) two
implementations of one trait that must agree; (5) boundaries: depth limits,
ends of input, chunk sizes, integer widths. `PROJECT.json` lists the hazards at
their lines.

## Modules

| Module | Models | Kind |
|---|---|---|
| `Parser` | the parser loop | generic component, properties |
| `ValidateDeserialization`, `PyDeserialization` | the two implementations of the trait | operators |
| `JsonGrammar` | no code: the JSON grammar and the value of a text | reference definition |
| `LoadContract` | no code: what `loads` promises | abstract specification |
| `PyParser` | `Parser` over `PyDeserialization`: what `loads` and `load` run | composition |
| `Reading` | `PyParser`, compared with the grammar when it returns | property |
| `Loads` | `PyParser`, compared with its contract | refines `LoadContract` |
| `Agreement` | `Fragment(text)` and `loads(text)` | composition of two parsers |
| `Serializer` | the serializer loop over a heap | component, properties |
| `Output` | no code: the buffer as a JSON text, with its Fragments | properties |
| `Dumps` | no code: graphs, cycles and the text of a graph | reference, properties |
| `PythonApi` | the functions of `lib.rs` around the two loops | composition, properties |
| `RoundTrip` | no code: what was dumped and loaded back against the graph | reference, properties |
| `StrScan` | `str_find_special_byte` | operators |
| `StringLexer` | `parse_str`, `parse_unicode_escape` | component, properties |
| `StringWriter` | `string_to_json` | operators |
| `StringGrammar` | no code: strings of RFC 8259, as UTF-16 units | reference definition |
| `Strings` | a string read, or written and read back | composition, properties |
| `NumberLexer` | `parse_number`, `create_number` | component, properties |
| `IntWriter` | `int_to_json`, both builds of `try_write_int` | operators |
| `Numbers` | a number read, or an int written and read back | composition, properties |
| `Utf8`, `PyInt` | external: Rust's and CPython's UTF-8 and ints | operators |
| `ParserProofs`, `AgreementProofs` | | theorems about `Parser`; about `PyParser`, `Reading` and `Agreement` |
| `SerializerProofs`, `ApiProofs` | | theorems about `Serializer` and `Dumps`; about `Output` and `PythonApi` |
| `StringProofs`, `NumberProofs` | | theorems about `StrScan`, `StringLexer` and `Strings`; about `NumberLexer` and `Numbers` |
| `JsonProofs` | | the rules of `JsonGrammar`, as lemmas: read from left to right, and written so |
| `NaturalFacts` | | three lemmas: a set of numbers that is not empty has a least one; induction over the numbers, as a fact about sets; a function that its values at smaller numbers determine exists |
| `MCDocuments`, `MCValidate`, `MCLoads`, `MCAgreement`, `MCDumps`, `MCRoundTrip`, `MCStrings`, `MCNumbers` | | instances for TLC |

### Parser

One action is one iteration of the loop at `de.rs:866`. `last` is `last_any`,
`stack` the vector of thunks, `pos` the cursor, `result` what the call returned.
`TooDeep` and `ParseAny` are the arm for a thunk, `ContinueList`, `ContinueMap`
and `Finish` the arm for a value, by the thunk on top, and `Fail` the arm for an
error. The trait is a set of constants with the assumption that they have its
signatures; a method that may fail is a set of results.

A document is a sequence of tokens, not bytes. A string, a number or a literal
is one token that a lexer accepts or refuses, at once and whole; whitespace is
one token per byte. Since an action never looks at two bytes of a token
separately except inside a lexer, this loses only the lexers. Tokens stand next
to each other as bytes can: a number right after a number stands for one that
begins with a minus sign. When a lexer fails the cursor is past the token,
where the code leaves it somewhere inside. The braces and the comma are the
words `lbrace`, `rbrace` and `comma`, since the provers cannot take those
characters in strings. `finished` records the maps given to `finish_map`; it is
an observation and no guard reads it.

### Loads and LoadContract

`LoadContract` never parses. It may complete dicts one at a time, each the value
of the text between a closing brace and its partner, and return once: a value
the whole text denotes, with every dict having been through the hook, or an
error that the text deserves. `JsonGrammar` defines the value of a text by
splitting it at commas and brackets, with no cursor, stack or depth: a phrase of
the grammar refers only to phrases of fewer tokens, or of as many and a simpler
kind, and `Denotation` is the function over all of them. `Reading` states the
part of this that is proved for every text: `ReadsJson` compares the verdict and
the value at the end of the call with the grammar, `DepthIsNesting` the limit with
`Nesting`, the depth of the deepest token of the text, and only the order of the
hook's calls is left to `LoadContract`. An int of too many digits for Python is
JSON, and the contract lets `loads` refuse it (`HoldsLongInt`), as it lets Python and
the hook raise. The mapping of `Loads` is the identity, `finished` being the hook's
calls.

### Agreement

Both calls start in the same state and share the text and nothing else. What
they return cannot depend on the order of their iterations, so `ANext` takes
one of each at a time; a call that has returned stutters while the other goes
on. The two really do stay in step, iteration for iteration, which is what the
theorem rests on.

### Serializer

`into_json` over a heap of objects. A list iterator is its list, index and
remembered length, a dict iterator also the count of entries and of those still
to come, as PyO3 keeps them; they read the heap at each iteration, so what the
hook does to a container in between is seen. The hook is the constant
`HookEffects`: from a heap, the objects in use and the argument, to the heaps
and values it may return with, or to raising. `HookResults` keeps of these what
CPython guarantees: the heap it leaves is one of typed objects, and an object
that the caller, an iterator or the call still refers to stays at its address
and keeps its type (`__class__` assignment does not apply to lists, tuples and
dicts). Everything else may change, die or be replaced at the same address.
`GraphsAssumption` says the same of the graphs a call begins with, and that
values, scalars and keys are told apart. `Exhausted` ends the process when
the stack needs more than `MaxStack` continuations; `Panic` is that of the dict
iterator, which aborts the process in a release build (`Cargo.toml:19`).
A scalar or a key is written as one token or cannot be written. Deleted dict
entries are holes; CPython's compaction of dicts, which happens when a dict is
resized, is not modelled, since dicts here stay below the size that triggers it.

The order in which `any_to_json_native` tests types is not modelled beyond the
kinds it tells apart. With the hook, what is modelled is `any_to_json` whole: the
first attempt, the push, the call, the pop and the second attempt are one step,
as nothing else can run between them but the hook itself.

A `Fragment` is a scalar of which `Text` says what tokens it was made of, and
which is written as these. `embedded` records which have been written; like
`finished` it is an observation, and no guard reads it. `Unvalidated` are those made
with `validate=False`: their text may be anything. That the text of any other is JSON
is `FragmentsAssumption` of `Output`; it is what `validate` and `agreement` show. This
is an assumption about the order of the tokens: that each is JSON itself holds but
for the `\u+041` that the string lexer takes for an escape (`strings_signed`).
`LongInts` are ints of too many digits for Python. They are JSON, and a validation
accepts them (`agreement_long_int`), so a Fragment may hold them; no int that the
serializer writes itself is one, since it would have had to print it (`numbers_long`).

### PythonApi and RoundTrip

`Dump` is the serializer's loop. When it has ended, `CallDumps`, `CallDumpb` and
`CallDump` are what the function that ran it makes of the buffer: a `str`, which
may not decode; a `bytes`; or one call of `file.write` with the `str`. A `write` that
returns has taken the whole of it. One that raises leaves some beginning of it in the
file (`Beginnings`), which may end inside a token (`CutShort`): a string without its
quote or a part of a literal, which are no JSON (`TornStrings`, `TornScalars`), or a
number of fewer digits, which is. `CallLoads` (`loads` and `loadb`, which are the same) and `CallLoad` take
it from there; `CallLoad` reads the file whatever became of the dump, and its `read`
may raise or return something that is neither `str` nor `bytes`. `Load` is the
parser's loop over the tokens that the function was given (`given`). Which dump
function was called is decided at its end, since no loop depends on it. Not modelled
here: an object hook for the loading half, which `Loads` has, and what Python raises
of its own while it builds the value, such as `MemoryError` (`Raises` of `Loads`).
`RoundTrip` adds no step: it compares what comes out with the graph that went in.

### Strings

`StringLexer` reads bytes. `phase` is where the call is: before the vectorized
scan, in the loop that borrows, or in the one that owns; one action is one
iteration of a loop, by the byte at the cursor. The escape is left to the owning
loop by `StartOwning`, as in the code, which breaks out without skipping the
backslash. `ParseUnicodeEscape` has every way out, with the cursor where each
leaves it; its test of `hex.len()` is left out, as four bytes that were just cut
out have the length four. The string made at the end is validated as UTF-8, as
both implementations of `create_string` do.

`StringGrammar` is the reference: it finds the closing quote by the parity of
the backslashes before it, demands UTF-8 and no control characters of everything
in between, turns the whole into UTF-16 units and asks whether these are
well-formed. It shares no control flow with the lexer: a surrogate pair is a
property of the units, not of the escapes. `Strings` states that the two agree,
and that what `string_to_json` writes is read back; `TextsAssumption` says that
a str is UTF-8, as the type `&str` of its argument does.

### Numbers

`phase` of `NumberLexer` says in which `while`, or before which `if`, the call
is. `create_number` is the step that ends the call: `u64` or `i64`, then Python,
or `f64`. Which float texts overflow is the constant `FloatOverflows`, and a
float's value is its text, since nothing here depends on more.

`IntWriter` has both builds: `PyLong_AsNativeBytes` into an `i128`, which reports
the size it needs and fills what room there is, and `PyLong_AsLongLong`, whose
error value is also an int. `AsNativeBytes` really truncates (`Wrap`), so a wrong
comparison writes a wrong int. Widths and Python's limit on digits are
constants; `WidthAssumption` says that an int Python would refuse to print fits
no machine integer, as is the case for 128 bits and the least limit, 640 digits.
It is stated for the negative int, whose machine integer holds one more.

## Runs

| Run | Question | Instance |
|---|---|---|
| `validate` | is the loop sound by itself? | `ShortLength` 4, `EditLength` 7, `TextLength` 9, limits none, 1, 2, 3 |
| `loads` | does `loads` keep its contract, and report the right place? | 3, 7, 9; no hook, and Python raises nothing of its own |
| `loads_hook` | and with a hook, and when Python raises? | 3, 5, 9; the hook returns its argument, another value, or raises; so may every call into Python |
| `agreement` | do `Fragment` and `loads` accept the same texts? | 3, 6, 8 |
| `agreement_long_int` | is every text `Fragment` accepts one that `loads` accepts? (violated) | 2, 3, 3 |
| `dumps` | is the text that of the graph, is every failure deserved, does a checked call end? | 3 addresses, containers of at most 2 items, `MaxStack` 6 |
| `dumps_changing` | is the text JSON when the hook changes the graph, is it read, and is what a failed dump leaves in a file refused? | 3 addresses, 2 changing calls (`MCHookCalls`), 4 Fragments, `MaxStack` 6, limits none and 2; the root is a container, a scalar or a Fragment |
| `dumps_cycle` | is a cycle a ValueError? (violated) | 2 instances, 6 addresses for what the hook makes |
| `strings` | are strings read as the grammar says, and read back as written? | `MaxPieces` 3 |
| `strings_signed` | is every accepted string JSON? (violated) | `MaxPieces` 2 |
| `numbers` | is the longest number taken, and is every int read back as written? | `MaxLen` 5, `MaxInt` 130 |
| `numbers_long` | is every int written? (violated) | the same |

Bounds. Documents (`MCDocuments`) are all sequences of at most `ShortLength`
tokens, JSON or not; every JSON text of at most `TextLength` tokens, bare and
with whitespace around every token; and every text that one insertion, deletion
or replacement makes of a JSON text of at most `EditLength` tokens. Nine tokens
hold four levels of lists, a map with a repeated key, a map in a list beside
another item and a list in a map; with limits up to 3 every limit is met, just
met and exceeded. An error after a token depends on the token, the top of the
stack and what the cursor skipped, all of which occur within these lengths.
For `dumps`, three objects are the least with a cycle of length three, sharing
inside a cycle, and a shared object that is no cycle; `MaxStack` is larger than
the number of objects, so an acyclic graph never reaches it, and
`FailsForAReason` says so. In `dumps_cycle` there are as many free addresses as
the stack can own, so the hook always finds one. In `dumps_changing` two levels
of containers hold the Fragments: one validated, with whitespace and a list
inside, so that it adds to the nesting; one validated, an int of too many digits
for Python; one that is JSON only inside a list; and one that is not UTF-8. A limit
of 2 is met and exceeded. A write that raises stops at every place of every
text, before and inside each token.

Strings are every sequence of at most three pieces of 27 (raw characters of one
to four bytes, broken UTF-8 of five kinds, escapes, surrogates at both ends of
their ranges, signs and letters among the digits, a control character, a quote,
a backslash): three pieces are the least in which a pair of escapes has
something before or behind it. Added are all texts one byte away from two
escapes, or cut short anywhere in them, and a special byte or a character after
0 to 17 and before 0 to 9 others, which covers every remainder by eight and by
four on both sides. Numbers are all texts of at most five of nine bytes, among
them two digits, a byte that ends a number and one that is not ASCII, and 1680
combinations that are longer. Ints go from -130 to 130 with `i128` as 6 bits,
`i64` as 4 and Python's limit as 2 digits, so that every boundary of every width
and of the limit, on both sides of zero, has ints below and above.

Fairness. `FairSpec` is weak fairness of `Iterate`: the calling thread holds the
GIL and does nothing else until the call returns. It assumes that the hook, when
called, returns or raises. No other fairness is used. Deadlock is checked in all
runs; a call that returned stutters in `Returned`.

### What the violated runs show

* `dumps_cycle`. The documentation says that with `check_circular` a cycle in the
  object graph results in a `ValueError` (`lib.rs:155-156`). `any_to_json` pushes
  the object it gives to the hook, and pops it before the result is written
  (`ser.rs:161-166`). If the hook makes a new container for each object, as hooks
  do, an object that refers to itself is converted again at every level, no
  address is ever met twice, and the call grows until the process is killed.
  When the hook returns the same container each time the cycle is found; run
  `dumps` has such hooks, and the property holds there.
* `strings_signed`. The documentation of `Fragment` says that an error is thrown
  if the bytes do not contain valid JSON (`ser.rs:73-74`). The four bytes after
  `\u` are given to `u16::from_str_radix` (`de.rs:745`), which takes a plus sign, so
  `"\u+041"` passes. Run `strings` shows, with a grammar that allows the plus
  (`Lenient`), that nothing else is accepted that should not be.
* `numbers_long`. The documentation of `dumps` promises ints of any size
  (`lib.rs:132-133`). Those that fit no machine integer are printed by Python
  (`ser.rs:369-372`), which raises `ValueError` beyond int-max-str-digits. Run
  `numbers` shows that all others are written.
* `agreement_long_int`. A comment says that a text of digits is a valid Python
  int (`de.rs:365-366`), so validation takes ints of any length. `loads` hands
  the long ones to `PyLong_FromString` (`de.rs:271-277`), which refuses more
  digits than the interpreter's limit. Run `agreement` shows that this is the
  only way in which the two differ.

`Panic` is not a finding, as nothing in the repository says otherwise, but
it is what the model shows: a hook that inserts into or deletes from the dict
being written ends the process.

## Theorems

`ParserProofs` proves, from `TokensAssumption` and `DeserializationAssumption`
alone, for any set of documents and limits:

* `TypeCorrect`: `Spec => []TypeOK`. The cursor never leaves the document
  (`skip` never slices out of range) and `stack.pop().unwrap()` never panics.
* `StackCorrect`: `Spec => []StackMirrorsBrackets`.
* `DepthLimitCorrect`: `Spec => []DepthLimitExact`.
* `ProgressCorrect`: `Spec => Progress`. Together with a finite document this is
  the reason why calls return.

The argument. Each function of the parser has an outcome lemma, which says for
any cursor what it may leave behind: an error, or a value or a thunk with the
cursor further on, and how many more or fewer brackets are unclosed up to there
(`ParseListOutcome`, `ParseKeyOutcome`, `ContinueMapOutcome`, ...). They rest on
`SkipWsStops` (whitespace is skipped and nothing else, proved from the
well-foundedness of `<` since `SkipWs` is a `CHOOSE`) and `UnclosedBracket`
(how the count changes with one token). `TypeOK` is inductive as it stands.
The other invariants are not: that a value appears at a nesting below the limit
follows only from the height of the stack, and that the depth error is raised
at exactly the limit only from the stack never having been higher. So the
inductive invariant is `IInv`, `TypeOK`, `StackMirrorsBrackets`, the bound
`WithinLimit` on the stack and `DepthLimitExact` together; `StepIInv` has one
case per action.

* `NestingCorrect`: `Spec => [](IInv /\ NestInv)`. `DepthLimitExact` speaks of the
  brackets unclosed at the cursor; `NestInv` of every token the cursor has passed,
  the tokens that are consumed inside one function (a key and its colon, a comma)
  included: none stands below the limit (`Shallow`), and the depth error is raised
  only where a token does (`Deep`). While a value is awaited the bound is one level
  weaker, since the limit is tested only when the thunk has been pushed. And there
  is one exception, which is the code's: a list at the limit whose first token is a
  closing brace is refused for its depth, not for the brace. The outcome lemmas say
  of each function what stands in the tokens it consumes.

`SerializerProofs` proves, from `GraphsAssumption` alone, for any graphs, any
hook and any memory:

* `TypeCorrect`: `Spec => []TypeOK`. `stack.pop().unwrap()` (`ser.rs:571`) never
  panics, and no iterator is over an object of another kind.
* `ObjectStackCorrect`: `Spec => []ObjectStackMirrorsThunks`. The cycle check
  never looks at an object that has been left, so neither a shared object nor a
  new one at a used address counts as a cycle.

The two are inductive only together, as `IInv`: that a close pops the object of
its own iterator follows from `object_stack` being in step, and that it is in
step follows from where `Done` lies in the stack. `SequenceOutcome`,
`DictOutcome` and `WriteNativeOutcome` say what each function may leave behind,
over whichever heap it reads; `HookKeepsFrames` carries the waiting iterators
over a call of the hook; `StepIInv` has one case per action.

It also proves, of `Dumps`:

* `FailuresCorrect`: `Spec => []FailsForAReason`, from three assumptions besides: a
  hook that changes nothing (`HookIsStatic`; what the graph is would otherwise
  change under the property), finitely many objects, and memory for a thunk of
  each of them. The hook of the run `dumps` and its `MaxStack` satisfy them.

The invariant is `FailInv`. The objects of the waiting iterators lie inside one
another (`Inward`), and the value about to be written inside all of them
(`InsideAll`): so an object found on `object_stack` is inside itself, and by the
pigeonhole principle a stack higher than the number of objects holds one twice
(`FullIsCyclic`). An iterator of a dict expects as many entries as are left
(`Counted`), so it never panics. `Within` is a least closed set and not a
recursion, which is what makes it usable in a proof.

For what the text says of the graph (`ReadsBackCorrect`, below) it also proves that
`Unfold` is a document at all, although the recursion over a graph need not end.
`Unfoldable` is the least set of values that can be written once those inside them
can; on it the equations of `Unfolded` have exactly one solution (`Documents`,
`SolutionsAgree`, `SolutionExists`), a value of it has no cycle below it
(`UnfoldableHasNoCycle`), and `Unfold` is its document (`UnfoldIsDocument`). That the
root is in this set is not assumed: the invariant `UnfoldInv` finds it out while the
graph is written. Each iterator is over what is written for the value that the one
under it waits for (`Chained`, `Turned`), all items that it has left behind are
`Unfoldable`, with their documents in `Part`, and when it closes its object is so too.

`AgreementProofs` proves, from `PyTokensAssumption`:

* `LoadsCorrect`: `PyDeserialization` meets `DeserializationAssumption`, so
  `Parser`'s `TypeOK`, `StackMirrorsBrackets`, `DepthLimitExact` and `Progress` hold
  of `loads`, whatever Python and the hook do. The values of Python are a union
  over their height; `PyAnyClosed` says that lists and dicts of values are values.
* `ValidationCorrect`: so does `ValidateDeserialization`, and `Fragment`'s
  validation keeps its `TypeOK`.
* `AgreementCorrect`: `ASpec => []FragmentAgreesWithLoads`, for every text and
  limit, when Python raises nothing of its own (`~Raises`; a validation cannot
  know of a `MemoryError`). `InStep` relates the two states: the same cursor, the
  same height of the stack, thunks of the same kind from top to bottom, and a
  value, a thunk or an error in the one whenever in the other; or `loads` is about
  to return what Python refused. `SameLists`, `SameMaps`, `SameKeys` and
  `SameValues` say of each function of the parser that in such states it leaves
  such states.

It also proves, from `GoodTokensAssumption` of `Reading` besides (the grammar's tokens
are those that the lexers and Python accept):

* `ReadsJsonCorrect`: `Spec => []ReadsJson`, for every text, limit and hook. An accepted
  text has exactly one value in the grammar, and without a hook that is the value
  returned, repeated keys included; a text with a value is refused for its depth,
  for an int of too many digits, or because Python or the hook raises, and for
  nothing else.

The parser reads from left to right and keeps a stack; the grammar splits a text
anywhere. What joins them is a *plan*: a set of triples (v, b, x), that once the
value v is read and the text b remains, the document is x. `Start` is the plan of the
whole document, and a thunk that waits makes a plan of the one below it (`InList`,
`InDict`): some more items, the bracket, and then what the outer plan makes of the
list. The invariant `ReadInv` says that the stack holds such plans
(`Expect`), and that the input that is left makes of the innermost plan exactly what
the grammar makes of the whole text: `Await` when a value is still to come, `Given` when
one has just been read, nothing at all when there was an error. `ReadsJson` alone is
not inductive, since it says nothing before the call returns. Each function of the
parser is then one equation of `JsonProofs` (`ListFirst`, `ListNext`, `DictOver`, ...),
and one lemma that it keeps the invariant (`ReadsList`, `ReadsNextEntry`, ...).

* `DepthCorrect`: `Spec => []DepthIsNesting`, for every text, limit and hook: an
  accepted text nests no deeper than `depth_limit`, and a JSON text is refused for
  its depth only if it nests deeper.

`NestInv` counts the brackets of the document, whitespace included, by cardinalities of
sets of positions; `Nesting` counts those of the text without whitespace, with a
fold. `NestingMeans` joins them: `NoSpace` is followed token by token (`KeptGrows`,
`Extends`), so that every token that is kept stands under the same brackets in both
(`OpenPlaces`, `Place`), and the greatest level is attained since levels are
bounded by the length (`MaxOf`). `BraceInv` says of the exception above that the text is
then no JSON. The inductive invariant is `LoadInv`: `IInv`, `NestInv`, `ReadInv` and
`BraceInv`.

`JsonProofs` proves the rules of the reference grammar: that `Denotation` satisfies
its equation (`DenotationEquation`, by induction over ranks), and from it in both
directions what a text that begins so must be (`ValueBegins`, `ItemsCases`,
`EntriesCases`, ...) and what may be written after what (`ItemWritten`, `EntryWritten`,
`ListWritten`, ...), the equations of plans, and that taking the whitespace out of a
text commutes with taking tokens from its front (`NoSpaceConcat`, `LeftSkips`). Its
`Typed` says that a text denotes values of Python only. Its theorem `OneValue` is that
the grammar is not ambiguous: a text denotes at most one value, provided that a token
is one thing (`Distinct`). A text may be split at any comma; `SplitSame` is that two ways
to split it agree, since a value that begins a text ends at the same place whatever
follows it (`ValuesEnd`, `PartsEnd`, by induction over the length). `OneBeginning` says
more: no proper beginning of a JSON text is JSON, of whatever kind its value is, at
the level of whole tokens; and `ScalarEnds` that a text whose last token is a scalar is
that scalar.

`ApiProofs` proves, from `GraphsAssumption`, `FragmentsAssumption` and, where text is
parsed, `LoadsAssumption`:

* `OutputCorrect`: `Spec => OutputIsJson`, for every graph, hook and Fragment.
  The inductive invariant `TextInv` says of the buffer what the stack of
  continuations makes of it: each frame of the stack has written a text that
  awaits a value at the innermost frame (`Awaits`), or has just been given one
  there and may be closed or continued (`Given`). That a comma is written exactly
  when an item has been, whatever the hook does to the length of a list, is why it
  holds.
* `ReadsBackCorrect`: `Spec => []ReadsBack`, when the hook, if there is one, changes
  nothing (`HookIsStatic`): the text denotes the document of the graph and no other,
  and the graph has no cycle. It is the same invariant: `Meaning` tells it what each
  frame's text has to denote, as far as the graph is known to stay as it is, and
  `UnfoldInv` what that is. That the text has no second value is `OneValue`.
* `ApiRunsSerializer`: `RSpec => Spec`, the composition implements the serializer,
  so that every theorem about `Serializer` holds of it.
* `FailedDumpCorrect`: `RSpec => []FailedDumpIsRefused`, for every graph, hook, Fragment
  and limit, and wherever a write stopped. What `load` accepts is JSON, by `ReadsJson`
  of the file's text. A beginning of the whole text (`BeginningIs`) that is JSON lacks
  nothing but whitespace, by `OneBeginning` (`WholeBeginning`); one that is cut inside a
  token ends in a scalar, so that it is a bare scalar by `ScalarEnds` and the text one
  too (`CutScalar`). This is the exception the code cannot avoid: `12` cut short is `1`.
  That only an unvalidated Fragment fails to decode rests on `FragmentsAssumption`
  and the part of `TextInv` that says where the tokens come from.
* `DeliveredCorrect`: `RSpec => []DeliveredIsRead`, for every graph, hook, Fragment and
  limit: what the dump functions deliver the load functions read, as the one value
  of the text, or refuse for a depth that it has or for an int of too many digits
  that a Fragment holds. It is where the two halves meet: `Reader` is
  `AgreementProofs` with the text that the load function is given, the buffer or the
  file, as the input, and once a load function has entered the parser `LoadingInv` is
  its `LoadInv`, whose steps are cited and not proved again. That there is a value at
  all is `OutputCorrect`, that it is the one returned `ReadsJson`, and that it is
  refused only for its depth `DepthIsNesting`. Tokens of Fragments included, what the serializer writes are
  tokens that the parser knows (`ReaderTokens`).
* `RoundTripsCorrect`: `RSpec => []RoundTrips`, for every graph, Fragment and limit:
  without an object hook, what is loaded after a dump that did not fail is the
  document of the graph that was dumped.

`StringProofs` proves, from `BytesAssumption`, for any set of documents:

* `ScanGuarantee`: no special byte lies before the position that
  `str_find_special_byte` returns, for every string of any length; this is what
  the comment of the function promises (`simd.rs:31-33`).
* `TypeCorrect`, `ControlsCorrect`, `BorrowCorrect`: `Spec => []TypeOK`,
  `[]ControlsRefused`, `[]BorrowedVerbatim`. No skip and no slice is out of range;
  nothing that the scan or a loop has passed is a control character; a borrowed
  string has no escape in it.
* `ProgressCorrect`: `Spec => Progress`. An iteration that changed nothing would be a
  stuttering step, of which no action property says anything; in the model every
  iteration changes the cursor, the phase or the result.
* `StringsReadBack`: `SSpec => []ReadsBack`, from `TextsAssumption` too: every str is
  read back as it was written.

The inductive invariant adds `BorrowedSoFar` to the three: as long as the call
borrows, nothing special has been passed. At `Scan` that is `ScanGuarantee`;
without it neither of the others could be kept at the step that returns.
For `StringsReadBack`, `WrittenLayout` says where in the text each byte of the str
stands (`Layout`), from `Flattening` and `PartsInPlace` about the concatenation of
any number of sequences; the invariant `RInv` says that the reader is at the
place of some byte, with exactly the bytes before it in its buffer or, while it
borrows, with nothing escaped among them. `ScannedSource` is the reader's scan
against the writer's: both look at chunks, of two different texts.

`NumberProofs` proves, from `InputsAssumption`: `TypeCorrect`,
`SafeToCreateCorrect` (`Spec => []SafeToCreate`, what the `unsafe` block of
`de.rs:608` and the comments of `create_number` rely on) and `ProgressCorrect`.
`SafeToCreate` speaks of one phase only; the inductive invariant adds `Flags`,
which ties `isFloat` to the phase, and `Consumed`, which says of every phase what
has been read so far.

* `LongestNumberCorrect`: `NSpec => []TakesTheLongestNumber`, for every document not
  written by `int_to_json`, with `SourceAssumption` (the mark for such a document
  is no source). The grammar of a number is put as where its parts end
  (`NumberAt`); `AfterInteger`, `AfterPoint` and `AfterLetter` say with which bytes a
  text that ends in each part may go on, and `OnlyADigit` where nothing but a
  digit may follow. The invariant `LInv` says of each phase what the text behind
  the cursor is (`Shape`), and of a call that returned why no longer text is a
  number (`Verdict`).
* `IntsReadBackCorrect`: `NSpec => []IntsReadBack`, with `WidthAssumption` and
  `SourceAssumption`: whatever int, whichever build and whatever the widths, what
  `int_to_json` wrote is read as one int with the same value, and an int is refused
  only if Python itself would not print it. `Numeral`, `Power` and `Natural` are
  recursive functions, which exist by `RecursionExists`; `NaturalOfNumeral` is that
  the text of a value has that value, `NumeralLength` and `PowerGrows` count its
  digits. `IntIsWritten` says that no build writes a wrong int (a value that fits is
  not truncated, `WrapFits`, and `SizeFits` says when one does not), and `ShortEnough`
  that what a machine integer holds has never too many digits, so that the reader
  takes it too. The invariant `IntInv` has of each phase how much of the text has
  been read (`ReadsInt`).

Only model-checked:

* `Termination` and `CheckedTerminates`, which are liveness.
* `KeepsContract` and `EarliestError` of `Loads` (of the former, `ReadsJson` and
  `DepthIsNesting` are proved, not the order and the arguments of the hook's calls).
  Both compare a run with a recursive reference, of which nothing can be proved here:
  `Unhooked` and `HookArguments` of `LoadContract`, and `Closing` of `Loads`.
* `ReadsWhatIsWritten` of `Strings`, which compares the reader with a recursive
  function over all texts, those that nothing wrote included. `StringsReadBack` proves
  what it says of a str that was written.

## Not modelled

The text of a float, which the crate `zmij` writes and Rust's `f64` parser reads;
the allocator; memory exhaustion of the parser; the text and location notes of
error messages; a hook that changes `sys.set_int_max_str_digits`, or sets the
limit to none. The parser loop reads tokens, not bytes: that a token stands for
what the lexers do with its bytes is by hand, as `Parser` says what a lexer may
answer and `StringLexer` and `NumberLexer` say what it does answer.

## Plan

1. Done: `Parser` and its instances, `LoadContract`, `Agreement`, `Serializer`
   with `Output`, `Dumps`, `PythonApi` and `RoundTrip`, `StringLexer`,
   `StringWriter` and `StrScan`, `NumberLexer` and `IntWriter`, and the theorems
   about all of them.
2. Left: `ReadsWhatIsWritten` for every text, and a reference for `KeepsContract` that
   can be reasoned about.
