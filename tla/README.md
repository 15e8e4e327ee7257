# A verification project for tizen-platform-wrapper

TLA+ modules, TLC configurations and TLAPS proofs about the C code under
`src/src/`. File names without a directory are files of `src/src/`.

## 1. The system

tizen-platform-wrapper designs and reads `/etc/tizen-platform.conf`, a file of
`NAME=value` definitions in which values may use other variables. At build time
a tool checks the file and generates code from it; at run time a library
evaluates the same file, for a given user, and answers the clients.

| part | state it keeps | operations | speaks to |
|---|---|---|---|
| contexts and public API (`shared-api.c`, `context.c`) | per context: a mutex, `state` (RESET, ERROR, VALID), `user`, `heap`, `values[]`; one context is static | create, destroy, reset, set_user, reset_user, get_user, getenv, getenv_int, mkstr, mkpath, getuid, getgid | calls init, heap, passwd, scratch |
| evaluation (`init.c`) | `struct reading`, for one call | `initialize` and the three callbacks of the parser | parser, heap, passwd, buffer, hashing |
| passwd reader (`passwd.c`) | **static** `buffer`, `pos`, `starts`, `lengths` | `pw_get`, `pw_has_uid`, `pw_get_uid`, `pw_get_gid` | buffer; called with the lock of a context |
| names (`hashing.c`) | **static** `var_names[]`, filled at the first call | `keyname`, `hashid` | called without a lock |
| interned strings (`scratch.c`) | under one **static** mutex: a scratch area, a hash set of strings that are never freed | `scratchcat` | called with the lock of a context |
| parser (`parser.c`) | its locals | `parse_utf8_config` | callbacks get, put, error |
| heap (`heap.c`) | `data`, `size`, `capacity` | create, resize, alloc, strndup, read_only, destroy | mmap, mremap, mprotect |
| toolbox (`toolbox.c`) | lists `keys` and `vars`, `dependant`, `errcount`, `action` | check, pretty, h, c, rpm, signup | parser, sha256sum, gperf |
| child process (`sha256sum.c`) | state, two pipes, a pid | create, add_data, get | the program sha256sum |
| buffers (`buffer.c`) | `buffer`, `length` of the caller | `buffer_create`, `buffer_destroy` | the file system |
| client stubs (`static-api.c`) | none: each passes the signup of the client | one stub per public function | the library, `check_signup` |
| `tzplatform-get` (`tzplatform_get.c`) | options, the chosen ids, one context | prints values | the client stubs |
| `isadmin` (`isadmin.c`) | none | `_has_system_group_static_` | users and groups of the system |
| foreign names (`foreign.c`) | none | `foreign` | |

What is hard in it: threads that share contexts, a passwd cursor and two lazily
built tables under different locks, or none; heaps that are unmapped by one call
while another one reads them; memory that moves when it grows; two readers of
one file that must agree; a parser that can stop anywhere; a child process
joined by two pipes; files and groups that are edited between two reads; two builds that must
agree on the ids; every allocation and every file access may fail.

What makes the parts correct, and where it is stated:

* contexts — no value is read in an unmapped heap, every heap has one owner and
  is destroyed once, values belong to the user that is set and to an evaluation
  not older than the last reset, every path unlocks, and the whole is the service
  the header describes (`Context`, `ConfigService`);
* passwd — a lookup gives what the file said when it was opened, reads mapped
  memory only and closes the file on every path (`PasswdCursor`); rows are the
  lines of seven fields (`PasswdRows`);
* names — no name is given for another one, and a valid id has its name
  (`NameTable`);
* interned strings — one address per string, for ever (`Scratch`, `Interner`),
  and the string is the concatenation asked for (`ScratchCat`);
* parser — no access out of bounds, no truncated value, nothing put after an error
  that stops, the definitions that were written, files that keep their meaning when
  they are rewritten by `pretty`, termination (`ConfParser`); the line that a message shows
  is that of the error, and the column that of the character which begins there
  (`LineInfo`);
* heap — strings stay where their offset says, apart, aligned, in the mapping,
  wherever it moves (`Heap`);
* buffers — what is given is the content of one file at one moment, or an error
  (`Buffer`);
* toolbox and evaluation — what the tool accepts, the library reads without an
  error of its own and to the same values, up to the value that is too big once
  expanded; rpm macros do not depend on the user; the fields
  of the user that are kept are of one row of passwd (`Evaluation`);
* generation and stubs — clients and library with the same signup have the same
  ids (`Generators`); what signup and c print is made of all the names, and the two
  processes never wait for each other (`ToolCommands`);
* commands — `tzplatform-get` prints the keys it was given, once, with the values of
  the user it was given (`Get`); `isadmin` answers of a group, and of a whole list of
  groups, that the system had during the call (`Admin`).

## 2. The modules

| module | models | how |
|---|---|---|
| `Context` | `shared-api.c`, `context.c`, `init.c` | one action per step of a call, cut where another thread or the environment can act |
| `ConfigService` | `tzplatform_config.h` | the abstract service; `Context` implements it (`ServiceSpec`) |
| `PasswdCursor` | `passwd.c` between threads | one action per access to a static |
| `PasswdRows` | `rdpw` | one action per field, over arbitrary text |
| `NameTable` | `hashing.c`, `_getname_tzplatform_` | one action per entry that is filled |
| `Scratch` | `scratchcat`, `instantiate` | lock, area, copy, walk of a chain, link |
| `Interner` | the promise of unique strings | abstract; `Scratch` implements it (`PoolSpec`) |
| `ScratchCat` | the loop of `_scratchcat` | one action per turn |
| `ConfParser` | `parse_utf8_config`, and `pretty` of the toolbox | one action per label of the machine |
| `LineInfo` | `parse_utf8_info` | one action per character |
| `Heap` | `heap.c` as `init.c` and `pw_get` use it | allocation, copy, growth and move |
| `Buffer` | `buffer.c` | one action per system call, the file edited between them |
| `Evaluation` | callbacks of `toolbox.c` and of `init.c`, `rpm`, `process` | one file given token by token to both |
| `Generators` | `key_add`, `sortkeys`, `genh`, the text of `signup`, `check_signup`, `static-api.c` | one action per turn of their loops, then one call |
| `ToolCommands` | `signup`, `genc`, `sha256sum.c` | both processes and the pipes |
| `Get` | `tzplatform_get.c` | one action per option, key and line of output |
| `Admin` | `isadmin.c` | one action per question asked of the system |
| `Components` | | `Heap` and eleven modules that share nothing with the threads of `Context`, one of them per behaviour |
| `MC*` | | instances for TLC |
| `ContextProofs`, `PasswdCursorProofs`, `NameTableProofs`, `ScratchProofs`, `EvaluationProofs`, `ConfParserProofs` | | theorems about the module named |
| `ComponentsProofs` | | theorems about the parts of `Components`, `Heap` among them: one section for each |
| `SequenceFacts` | | induction over the naturals and over sequences, recursive functions, concatenations: what the proofs about texts rest on |

### State and actions against the code

**Context.** `mutex`, `state`, `user`, `heap`, `values` are the fields of `struct
tzplatform_context`; a context whose memory is not allocated is in state
"absent". A heap is an address; `live` is the set of mapped ones and `arena` what
they hold, which is abstracted to the version of the file and the user it was
evaluated for. A value is a pointer to the heap it is in. `pc` goes through a call:
`Call` is the entry of a public function, `Lock` and `Unlock` are the mutex,
`GetLock` and `Fetch` are `get_lock` around `initialize()`, which is
`InitOpen`, `InitHeap`, `InitParse`, `InitPublish`; `InitFails` is its early
returns. `ReadValue` stands for every getter of strings: the value is read under the
lock, and the concatenation may lack memory. `ReadName` and `LookupName` are getuid
and getgid. `SetUser`, `CheckUser`, `SwitchUser` are `tzplatform_context_set_user`
around its lookup of passwd; reset_user is set_user of (uid_t)-1. passwd.c appears
as an interval: a lookup is exact when no other thread was inside (`pwRaced`),
which is what `PasswdCursor` shows, and may return anything otherwise; and when the file
cannot be opened (`unread`) it finds nobody. With no user set, an evaluation is for the uid the process has at that moment. `floor`, `uids`
and `passwds` are history variables: the oldest version of the file, and the uids of the
process, since the values of a context were last dropped (`Dropped`), and all that passwd
has listed. `Create`, `Destroy`,
`Environment` (the file, passwd and, by `SetProcessUid`, the uid change) complete it.

**PasswdCursor.** `buffer`, `pos`, `starts` are the statics; a region is a mapped
copy of the file. `oppw` is `Rewind` then `Open`, `rdpw` is `NextRow`, `SetName`,
`SetUid`, the comparison and the answer are `Match` and `Take`, `clpw` is `Close`.
`LockOf` says which mutex a thread holds: the same one when the callers use one
context, different ones when they do not.

**NameTable.** `names` is `var_names`; `Assoc` is the generated `namassoc`, in the
order of gperf, with its holes.

**Scratch, ScratchCat.** The set of results, with lengths and hash codes, stands
for the strings in the first; in the second a character is a slash or another one.
The growth of the area appears in both: as the capacity it must have, and
character by character.

**ConfParser.** A label of the C function is a label here; `head` is an index,
`data` the buffer with its limit, `q`, `acc`, `overflow` the flags. A step is one
turn of a label. `whole` is a history variable: the value without limit or escapes;
`before` is what the parser had put when `Again` gave it its own output to read.
The callbacks are constants: what error answers, what get answers; `Normal` is the
get of `pretty`, which answers `${name}`.

**Evaluation.** The parser's events feed both readers: `Text` (a character that is
kept), `Refer` (a variable is used), `Define` (a value ends), `SyntaxError`. The
toolbox keeps `keys` (with `dependant`), the `cache` of normal forms (list `vars`)
and `errcount`; the library keeps `offsets`, `dynvars`, `errs`, `stopped`. `known` is
the set of names the library was built with. A value has a `Size`: a reference that
the toolbox leaves counts for one, what the library puts in its place may count for
more, and a value above `Capacity` is refused by the parser (`ToolRefuses`, which goes
on, and `RunStops`, which does not). `lost` and `excused` are history variables: what
the library could not allocate or look up, and the errors this explains.

**Heap.** `bytes` is what is at each offset, `fields` the offsets kept of the user.
`Put` is putcb, `DupUser` and `DupHome` are `pw_get` for one item, `Resolve` and `Copy`
are a value that getcb returns and the parser copies, `Publish` is the protection at
the end.

**LineInfo.** `pos` and the offsets `begin`, `end` are those of the C function; a byte is
the first of a character, a later one, or an end of line.

**Buffer.** `path` is what the name leads to and `file` what the descriptor leads to:
another process extends the first (which changes the second while they are the same)
or replaces it. `was` is a history variable: all that the open file contained.

**Generators.** `keys` and `next` are the linked list, `array` and `index` belong to
`sortkeys`. Four runs of the toolbox (`job`) make the header and the signup of the
library and those of its client, of two files; then the client makes one call.

**ToolCommands.** The toolbox (`pc`) and its child (`child`), two pipes, what was sent,
hashed, answered and printed. The sum of a text, and what gperf makes of it, is the
text. For `c` the child writes straight to the output of the toolbox.

**Get.** `argv` is what remains of the command line, `sel` the ids, `current` the user of
the context. The library below is a table of names, and a value is its name with the
user it is evaluated for.

**Admin.** `gidOf`, `primary` and `others` are the groups and users of the system, as
`getgrnam_r`, `getpwuid_r` and `getgrouplist` show them; `seen` is a history variable.

## 3. The runs

| run | shows |
|---|---|
| `ContextOne` | two threads, one context, changing file, passwd and uid: `TypeOK`, `NoUseAfterUnmap`, `UserCoherent`, `FreshAnswer`, `SetUserVerdict`, and `Context` implements `ConfigService` |
| `ContextCalls` | every mutex that a call takes is released (`LocksReleased`) |
| `ContextTwo` | two contexts created and destroyed: `HeapsOwned`, `ValuesStable` |
| `PasswdTwoLocks` | *violation*: with the locks of two contexts a lookup misses a uid that its file lists (`ValidUidFound`) |
| `NameTableRace` | *violation*: a valid id may be given NULL (`NameOfValidId`) |
| `Parser` | every short text and value, rendered well-formed files, and files rewritten by `pretty` |
| `ParserBlanks` | *violation*: quoted blanks are not escaped (`EscapedReads`) |
| `Evaluation` | the tool and the library agree on every small file, sizes included |
| `Components` | `Heap`, `ToolCommands`, `ScratchCat`, `PasswdRows`, `NameTable`, `Generators`, `LineInfo`, `Buffer`, `Get`, `Admin`, each with its property; `Scratch`, under collisions and failures, and that it implements `Interner`; `PasswdCursor` under one lock, with the file edited meanwhile |
| `AdminGroup` | *violation*: a member of the group "system" is not told so (`MemberOfSystem`) |
| `AdminUnknown` | *violation*: the call for an unknown user does not answer (`EveryCallAnswers`) |
| `ScratchPath` | *violation*: a path has a slash in front that its strings do not have (`BetweenOnly`) |

`NoUseAfterUnmap`, `UserCoherent`, `FreshAnswer` relate the value in the hands of one
thread to what the others did since; `SetUserVerdict` relates an answer to all that
passwd listed; `LookupRight` compares an answer with the file as
it was at the opening; `SettledTable`, `ChainsSound`, `ValuesStable` say that what one
thread relies on is not disturbed by another one; `SignupFixesIds`, `CheckedFileReads`,
`SameEvaluation`, `PrettyKeeps` relate two programs that run apart.

### Bounds

* Two threads: each race needs two; the mutexes serialise the rest. Two heaps are
  one more than one context can own, so that a heap is reused; with two contexts
  they can also run out.
* `MaxEdits` = 1: a version before and one after a reset. Version 1 defines a
  variable that version 0 lacks, so that a value left over would show.
* Two passwd files, one of which loses a user, edited any number of times, and a lookup that
  may fail to open the file each time; `ContextCalls` and `ContextTwo`, whose properties do
  not look at passwd, have one. `PasswdCursor`: two files, one of which lists a name twice.
  Its two regions are what two lookups can map at once.
* `NameTable`: two threads, three ids, entry 0 the second of five cells, two of them holes.
* `Scratch`: three strings, two with equal length and hash code, the third in
  their slot and needing two doublings of the area; two slots.
* `Parser`: all texts of up to 4 of 13 character classes, and all values of that
  length, with data buffers of 2 characters (so that they overflow) and 9.
  `ParserBlanks` needs values of 3.
* `Evaluation`: three names (a chain through two variables), three definitions, three
  tokens, HOME and USER, two rows of passwd or none. A value holds 2, and the fields of
  one row fill it: a file that fits for the tool overflows in the library at the
  second token, or one variable later. The constraint `Promising` stops a behaviour
  once both readers met an error, when every property of the run is void.
* `Heap`: words of 2, pages of 4, 12 bytes at most, strings of up to 4: several
  strings per page and over its end, and a failure of growth.
* `ToolCommands`: pipes that hold 3 of the 5 or 6 texts that are sent.
* `ScratchCat`: up to two strings of up to three characters, or three of up to two, which
  has every arrangement of slashes at the ends and of empty strings between; an area of 2
  that doubles several times. `PasswdRows`: every text of 9 characters, rows of three fields instead of
  seven (the code differs in that constant only).
* `Generators`: two files, each of up to three of the names a, ab, bc and c: two
  different files would have the same text without separators, and a name is the start
  of another one.
* `LineInfo`: files of up to 6 bytes and every place, one past the end included.
  `Buffer`: pieces of 2, files of up to 4: several reads, and files that are an exact
  multiple of the piece.
* `Get`: up to 4 arguments (an option, a user with its option, a key) in any order; two
  names, so that one is asked and the other not; a user that passwd does not list.
* `Admin`: three groups, one change of the system at any place of the call.

Symmetry is used for threads and heaps, addresses, and keys, and in no run that checks
a liveness property.

### Fairness

`Context!FairSpec` has weak fairness of what a thread does between its lock and its
unlock: none of these steps blocks, and a scheduled thread takes them. Nothing is
assumed about entering a call or obtaining a lock, and `LocksReleased` needs neither.
`ConfParser!FairSpec`: the parser is one loop that runs. `ToolCommands`, in
`Components`: both processes run; nothing makes the child die, nor the write end be
closed by anyone but the code. That every thread gets its lock is not checked: a mutex
of pthread promises no order, so no fairness of the code would justify it.

Deadlock is not checked where the modelled program ends (a parse, an evaluation,
the parts of `Components`) or, in `PasswdTwoLocks`, has read unmapped memory.

## 4. What is proved

Everything below is for all values of the constants of a module, under its named
assumption, which gives types to the constants, says that NULL is none of the values
it stands beside, and little more:

* `HeapAssumption`: the mapping may reach one page, which is what `heap_create` asks
  for first; words and pages have any size.
* `ScratchOK`, `CursorOK`, `TableOK`: the hypotheses of the theorems of `ScratchProofs`,
  `PasswdCursorProofs` and `NameTableProofs`. There is a slot and some room; a length and a
  hash code are naturals; a thread holds one lock, and a file is a sequence of rows; for the
  table see below. `Components` assumes them of its constants.
* `ParserAssumption`: what the parser is given, and what the callback answers, are
  texts over the characters of the module, and the buffer holds a character.
* `EvaluationAssumption`: a key is not a foreign name: the toolbox refuses to define one
  (`toolbox.c:389`), so that no library knows it.
* `ComponentsAssumption`: the texts of the toolbox are sequences, a piece of a file is
  not empty, `Scr!ScratchOK`, `Pw!CursorOK`, and `Table!TableOK`: what gperf generates has each id, and ids and holes only.
  `CatConstants`: no string holds its own end, and the area is created with some room.
  `RowConstants`: a row has at least one field. `GenConstants`: a file defines a name once,
  since `key_add` refuses a second time, and a name is any sequence of characters that are
  not its end.

TLC evaluates all of them for the constants of the runs.

### Context

| theorem | says |
|---|---|
| `TypeCorrect` | `Spec => []TypeOK` |
| `NoUseAfterUnmapAlways` | `Spec => []NoUseAfterUnmap` |
| `HeapsOwnedAlways` | `Spec => []HeapsOwned` |
| `FreshAnswerAlways` | `Spec => []FreshAnswer` |
| `ValuesStableAlways` | `Spec => ValuesStable` |
| `OneContextNeverRaces` | `OneContext /\ Spec => []NoRace` |
| `UserCoherentUnlessRaced` | `Spec /\ []NoRace => []UserCoherent` |
| `UserCoherentAlways` | `OneContext /\ Spec => []UserCoherent` |
| `VerdictUnlessRaced` | `Spec /\ []NoRace => []SetUserVerdict` |
| `VerdictAlways` | `OneContext /\ Spec => []SetUserVerdict` |
| `ServiceUnlessRaced`, `ServiceAlways` | `ServiceSpec`, that is, `Context` implements `ConfigService`, under the same conditions |

The first five assume nothing of passwd.c: they hold with lookups that race. None of the
invariants is inductive alone. The inductive one is

    IInv == TypeInv /\ LockInv /\ CtrlInv /\ HeapInv /\ FreshInv

`TypeInv` adds to the types that the argument of a call fits its operation at each
place of it. `LockInv`: the mutex of a context is held exactly by the thread that is
between the lock and the unlock of a call on it, and calls are on contexts that
exist; mutual exclusion (`Exclusion`) follows. `CtrlInv`: the place of the thread
tells the state of its context, and values of a valid context point into its heap.
`HeapInv` is `HeapsOwned` element by element: without exclusion two evaluations could
share a context, and without `CtrlInv` `initialize()` could overwrite the heap of a
valid one. `FreshInv`: the version that is read, stored or answered is not older than
the last drop.

The argument is thread-modular. `WorkInside` says that all steps between lock and
unlock keep to the context and the locals of their thread; `CtrlOthers`, `OwnsInside`,
`ArenaInside` and `FreshOthers` conclude that each conjunct is preserved for everyone
else, so that the proof of each step (`LockStep`, `CtrlStep`, `HeapStep`,
`FreshStep`) only looks at its own thread and context.

What depends on the user depends on passwd, and passwd.c is not safe between two
contexts (finding 1). `NoRace` (no thread inside of a lookup was joined there by another
one) is therefore the condition, and no theorem hides it: in each behaviour in which
it holds, with any number of contexts, the values, the answers of set_user and the whole
service are right. `OneContext` (the program uses the global context, as every client of
the functions without a context argument does) implies it, since then one mutex covers
all lookups. The verdict needs no condition on passwd: it compares an answer with what the
file has listed, never or always, since the administrator may remove the user after the
lookup; and a lookup that could not open the file is part of the statement (`unread`).
`UserInv` and `VerdictInv` extend
`IInv` by the user for which the thing read, stored or answered was evaluated, and by what
set_user still has to answer.

The refinement maps `state`, `user` and what the heap holds to the abstract entry
(`Held`). `ServiceStep` shows that publishing, a failure, a change of user, a reset, a
creation and a destruction each are one step of `ConfigService`, that the answer is given
where the value is read, under the lock, and that everything else is a stutter.

### The statics that the locks of Context do not cover

`PasswdCursorProofs`: `OneLockNoWildRead`, `OneLockLookupRight`, `OneLockNothingLeaks`: with
one lock for all callers (`OneLock`), for any file and any edit of it, no unmapped memory is
read, a lookup gives what the file said when it was opened, and the file is closed on
every path. The inductive invariant has, for the thread inside (`LookupOf`), that the
buffer is the file it opened, that the rows it passed do not match, and that its fields
are those of the row it stands at; for all the others, that they are outside.
`ExactLookups` needs no hypothesis about locks: it adds to the specification the set of
the lookups that raced, exactly as `Context` computes `pwRaced`, and shows that a lookup
outside of this set is right, whatever others left behind. This is what lets `Context`
treat passwd.c as an interval. `CursorTypes` is the type invariant.

`NameTableProofs`: `NeverAnotherNameAlways`, `SettledTableAlways`, for a table as gperf makes it
(`TableOK`); `NameWhenAlone`: in the behaviours in which no two calls overlap (`Alone`), a
valid id has its name. The run `NameTableRace` refutes that one without `Alone`, so the
theorem says how far the finding goes. An entry holds nothing or its own name; a
thread that fills has stored all the entries it passed.

`ScratchProofs`: `ChainsSoundAlways`, for any number of slots, any hash and any failure; and
`PoolImplements`: `Scratch` implements `Interner`. The invariant has that a call under the
mutex looked at all the items before its place, so that a new item is no duplicate, and
that an allocated item is linked or about to be. The abstract table is computed from the
chains (`PoolTable`); the link of an item is the abstract insertion (`PoolStep`).
`AreaHoldsAlways`: the sizes that doubling goes through are a recursive function, which
after k turns is more than k (`DoublesGrow`), so that one of them has the room
(`GrownFits`); a failed realloc leaves the area at one of these sizes, and without a string.

### The rest

Induction over data is not a rule of the provers, and the induction theorems of the
library take an operator. `SequenceFacts` states it with sets instead: a set of naturals that
is not empty has a least element, by the theorem on well-founded relations, so a set that
holds 0 and each successor is all of them (`Induction`), and the same for sequences from
their end (`SeqInduction`). From it come the values of a recursive function (`Recursion`) and
what `FlattenSeq` does at the end of a sequence (`FlattenAppend`). Each proof about a text
below goes on by one character, field, line, definition or string, as the code does.

`EvaluationProofs`: `OneUserAlways`, `CheckedFileReadsAlways`, `DependantExactAlways`,
`MacrosRightAlways`, for files of any number of definitions, any names and sizes. The
two fields kept of the user are written together, from one row, each time that one of them is
missing (`KeptInv`), also when passwd was edited since the last time; a value has fields of
another row only after one was lost (`RowInv`), and so the values of an evaluation without a
loss are those of one user. The two
readers are related event by event: `NamesInv` (the tool knows each name once), `ReadsInv` (a
name known to the tool has a value in the library, or was lost for lack of memory),
`QuietInv` (without an error nothing was lost), `MarksInv` (a mark of the tool is a field in
the text that the library evaluated) and `RpmInv` (a text without mark is the evaluated
one). Each is needed by the next: a mark is copied through names, and a name is looked up
through values. TLC checked these invariants on the run before they were proved.
`SameEvaluationAlways` then compares the texts: the library's value of a name is the
expansion of the tool's, token by token, also where the tool had a cached value, and one that
is too big loses that name and the later ones only.

`ConfParserProofs`: `StopsAtFirstErrorAlways`, for any text and callback;
`NeverTruncatedAlways`; and `InBoundsAlways`, for a request and for what `pretty` has
printed, which is a text again because each definition is one (`FlattenAppend`).
`PrettyKeepsAlways` is about any file without blanks in its values. It needs two invariants,
one for each parse, and what is between them:
* `FirstInv`: from the end of a value to the next key there are only blanks and comments, all
  closed (`Gapped`); each key is a word; and each escaped value splits into pieces (`Readable`):
  a character that is kept, a backslash and any character, or `${name}`. A prefix would not
  do as the invariant: what ends in a backslash is read as another value.
* `LaidIs`: the printed text has its gaps, keys and values at the places where their lengths
  put them (`Laid`), the places being given by induction over the definitions (`PlacesExist`).
* `SecondInv`: on such a text the second parse is always at a place of the first one's
  definitions, in a gap, a key, between two pieces or in a name (`Second`), and makes no error.
  It is there that blanks matter: the end of a value is told from its pieces because no
  piece that stands for itself is one.

`ComponentsProofs`, of the specification of the run `Components` for every value of its
constants: `LayoutAlways`, `StringsKeptAlways`, `NoFaultAlways` (any word, page and mapping),
`AdminVerdictAlways` (any users, groups and number of changes), `BufferWholeAlways` (any size
of a piece, any length), `InfoRightAlways` (any file; the line for any place, the column for
those where a character begins or the line ends), `OutputOfAllNamesAlways` (any pipe and
names, wherever the child dies), `GetPrintsAlways` (any names and arguments),
`ConcatRightAlways` (any strings and first capacity), `RowsRightAlways` (any text and number
of fields), `SignupFixesIdsAlways` (any names, files and orders). `NeverAnotherNameHere`,
`SettledTableHere`, `ChainsSoundHere`, `AreaHoldsHere` and `PoolImplementsHere`, and, with
one lock (`OneLock`), `NoWildReadHere`, `LookupRightHere` and `NothingLeaksHere`, follow
from `NameTableProofs`, `ScratchProofs` and `PasswdCursorProofs`: `SameTable`, `SameScratch` and
`SameCursor` say that these are about the same parts. Each part is proved alone first;
`PartStep` says that a step of the whole is a step or a stutter of each part. The invariants:

* heap (`HInv`): each string has its nul inside of the used part, and the offsets kept
  between two steps are those of strings: a move would otherwise leave `DupHome` or `Copy`
  with an address of before;
* isadmin: each thing the call holds was seen in the system;
* buffer: what was read is the beginning of the open file, up to the offset;
* messages: the counters are those of the characters passed;
* child: what it read, and what the pipe holds, are together what was sent;
* tzplatform-get: the lines printed are those of the ids passed;
* concatenation (`CatInv`): the area holds the join of the strings before the current one, and
  of what is read of it, in which the slash that is due shows in the last character;
* rows (`Inside`): the lines before the current one gave the rows, and the fields recorded
  are the closed pieces of the current one, up to its last separator. `TakenSkip` is the
  long line: what follows only adds pieces (`SplitGrows`), so it is no row either way;
* generators (`GenInv`): after `sortkeys` the list is the sorted arrangement of the names of
  its file. An order that is total has one such arrangement, so that files of the same
  names have the same enumeration; and a text in which each name ends with a character that
  no name has tells the names (`SameText`), so that equal signups mean the same names.

### Only model-checked

* Liveness (`LocksReleased`, `Ends`, `CommandEnds`) and ENABLED, which are out of reach of the
  prover.
* `ReadsBack`, which is about the files that the instance for TLC writes: it is a test of the
  parser against a second description of the syntax, on a set of files that it enumerates.

No module has a RECURSIVE operator. `TypeOK` of `PasswdCursor`, `NameTable` and `Scratch` is
in no run; the first is proved (`CursorTypes`), and the invariants of the proofs have the
types that they need of the other two.

## 5. Findings

Six runs end in a violation, each of a sentence of the headers:

1. `PasswdTwoLocks`: the passwd cursor is static, and the mutexes belong to the
   contexts. Two threads with two contexts share the cursor: one records the columns of a
   row of its own between the scan and the comparison of the other, which then misses a uid
   that its file lists, so that set_user answers -1. The same interleavings read unmapped
   memory.
2. `NameTableRace`: `keyname` tests entry 0 only, while another thread may still be
   filling the other entries: NULL for a valid id.
3. `ParserBlanks`: with `should_escape`, blanks inside quotes are put unescaped,
   although `parser.h` says that \ is inserted where needed.
4. `AdminGroup`: `isadmin.c:62` looks up a group by the name of the variable
   `TZ_SYS_ADMIN_GROUP`, not by its value, although `tzplatform_config.h:386` says that
   the group is named "system".
5. `AdminUnknown`: `isadmin.c:81` uses the entry of the user without looking whether it was
   found, and crashes for a user that the system does not know, although
   `tzplatform_config.h:388` promises -1 in case of error.
6. `ScratchPath`: the separator also goes in front of the first string (`scratch.c:177`),
   although `scratch.h:30` says between the strings, and the example of `scratch.h:44` has
   none there. `ConcatRight` is about the rest, with the slash as the code puts it.

Differences seen in reading, for which no run is kept:

* the error callback of `init.c` says "continue to parse" and returns 0, which stops
  (`init.c:273`, `parser.h:70`);
* set_user answers -1 for a valid uid when `/etc/passwd` cannot be opened (`passwd.c:137`),
  although `tzplatform_config.h:72` says "-1 if not valid"; `SetUserVerdict` has this case
  apart;
* when an allocation for HOME or USER fails, the next use reads passwd again; if it was
  edited meanwhile, the values of before keep a field of the older row, and no error is
  counted (`init.c:148`, `passwd.c:118`); `OneUser` says how far this goes;
* for a place inside a character of several bytes the column is that of the next character,
  where `parser.h:99` says the column of the position; the toolbox meets such places, since
  it reports each byte of a character that begins no key (`parser.c:100`, `toolbox.c:377`);
  `InfoRight` says nothing of them;
* `process()` ignores what its generators return, so the exit status is 0 for an output
  that failed (`toolbox.c:773`), and `genc` forgets an error of a write when gperf still ends
  with 0 (`toolbox.c:650`); no document promises a status;
* a value may fit for the tool, where variables stay `${name}`, and be too big for the
  library, which expands them and then loses the variables that follow (`parser.c:223`;
  `SameEvaluation` says how far the damage goes);
* an empty text after `--user` is the uid 0 (`tzplatform_get.c:180`); a uid field that is
  not a number is read as 0 (`passwd.c:139`).

## 6. What is not modelled

* `hashid`, the code that gperf generates, and the contents of the generated files: they
  are not in the repository. `Generators` has the ids, `NameTable` the table.
* `foreign()`: a fixed table, taken as membership of `Foreign`.
* Code that nothing calls: `sha256sum_add_file`, `sha256sum_destroy`, `heap_read_write`,
  and the `TEST` mains.
* Variants that are not compiled: `NOT_MULTI_THREAD_SAFE`, `NOT_PASSWD_ONLY`, the
  foreign variables other than HOME and USER (`foreign.h:35`).
* `arguments()` of the toolbox (one word and a file name), `--export` and `--space` of
  `tzplatform-get` (layout), and the wording of messages.
* A file that is edited in place while it is mapped: the evaluation would see a mix.
  `Buffer` lets a file grow or be replaced.
* In `Context`, a heap that cannot grow during the parse: a variable then lacks
  its value. `Heap` and `Evaluation` have that failure.
* Concurrent calls on a context that is being destroyed: the header forbids them, and
  `Destroy` has that as its guard.
* Build files and packaging.

## 7. Plan

Done, in this order: `Context` with its abstract service and its proofs, since every
client goes through it; the three static states its locks do not cover
(`PasswdCursor`, `NameTable`, `Scratch`); the parser; the agreement of the two readers,
with sizes; the sequential parts; the generators and the stubs; the commands.

Then the proofs of section 4: the invariants of `Context` and its refinement, the static
states under one lock or without, the interner, the heap, the two readers, the parser,
and the parts of `Components`.

All invariants of the runs that hold are proved but `ReadsBack`. What could come next is
`ReadsBack` for every well-formed file, by an invariant like `SecondInv`, and the failures
of the heap in `Context`.
