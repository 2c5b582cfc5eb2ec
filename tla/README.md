# Verification of CTFTimeParserBot-C

TLA+ modules, TLC configurations and TLAPS proofs for the two cron-driven binaries of this repository,
`parser` (CTFTime API to MySQL) and `publisher` (MySQL to a Telegram topic). Paths below are relative to
the repository root (`src/parser_main.c`); `PROJECT.json` gives for every definition the lines it models.

## 1. Inventory

| Component | State it keeps | Operations | Talks to | What is hard | What makes it correct |
|---|---|---|---|---|---|
| **parser** `parser_main.c` | locals of one run: `ids`, `pending`, `event_id`, `ev` | one run: lock, connect, fetch ids, fill the buffer, drop known ids, loop over a snapshot (fetch, sanitize, insert, delete, pause), release | db, lock, log, ctftime client, content security | overlapping runs; death or a lost reply between two statements; ignored results of the deletes; the snapshot gets stale | one run at a time; no id lost from the buffer; nothing fetched twice; verdict and content belong together; runs end, the buffer drains |
| **publisher** `publisher_main.c` | locals of one run: `events`, loop index | one run: lock, connect, weekday; Monday digest in parts, other days one message per event and `posted_at` | db, lock, log, formatter, telegram client | message sent but not recorded; overlap with the parser and the operator; snapshot | nothing withheld is shown; every message accounted for; every safe event gets posted |
| **database layer** `db.c`, `schema.sql` | tables `parser_buffer`, `ctf_events` (on the server) | nine statements, one autocommit each | MySQL | a reply may be lost, a statement may outlive its client; upsert rewrites some columns only | effect of each statement on the rows |
| **lock file** `lock.c` | name, inode, descriptor, `flock` | `lock_acquire`, `lock_release` | kernel | any interleaving of system calls, half-way failures, death, unlink races | it is a mutex, non-blocking, never stale |
| **log file** `log.c` | `log_file`, `.old` | `log_msg` with rotation | kernel | several writers; rotation is outside the lock; short writes | lines stay whole; growth bounded; every writer returns |
| **telegram client** `telegram_bot.c` | `attempt`, `retry_after` | `telegram_send_message` | http, json | reply lost after acceptance; 429 with any `retry_after` | at most one copy per call; bounded delay; rate limit window kept |
| **ctftime client** `ctftime_client.c` | none | id list, event detail | http, json | ids of any integer value are cast to `unsigned int` | ids that reach the buffer are in range |
| **content security** `content_security.c` | compiled patterns | `content_security_sanitize` | util, json | texts change between the check and the display; where the host of a url ends; dates with offsets | the verdict covers what is shown; what is stored is what was served, clean; urls lead to public hosts; times are the UTC times |
| **formatter** `formatter.c` | none | message, digest split into parts | util | packing at the 4096 limit; escaping and cutting in the right order | every event in exactly one part; the message says what is stored |
| **http** `http.c` | response buffer | GET, POST | libcurl | cap and doubling | size bounded, NUL inside capacity |
| **json** `json.c` | tree | parse, get | none | depth bound, number conversion, surrogates | total, bounded recursion; strings decoded without loss |
| **util** `util.c` | `strbuf_t` | strings, UTF-8, hosts, time | none | overflow, calendar, ranges of bytes and addresses | capacity covers content; UTF-8, hosts and times judged exactly |
| **config** `config.c` | `app_config_t` | load, clamp | files | negative and zero values | clamped ranges |
| **event record** `event.c` | one event | init, free | none | fixed buffers | the columns take what the buffers hold |
| **tests, build** | none | | | sequential only | not modelled |

The binaries never call each other. They meet in three places: the tables (parser inserts, publisher reads
and sets `posted_at`, an operator sets `is_safe`), their lock files (one per binary, so a parser and a
publisher run may overlap at any statement) and, when configured so, a log file. There are no threads: all
concurrency is between processes, and everything an action of one process reads may be changed by another
before its next action.

`PROJECT.json` lists the hazards at their lines with the properties that watch them; a hazard without a
property says why.

## 2. Modules

| Module | Models | Composes |
|---|---|---|
| `Mutex` | abstract: what the callers need of a lock | |
| `LockFile` | `lock.c`, one action per system call | implements `Mutex` |
| `LogFile` | `log.c`, one action per system call | |
| `Database` | tables and statements of `db.c` as operators; the operator's review | |
| `Parser` | `parser_main.c` with `ctftime_client.c`, one action per call of `main` | extends `Database`, uses `Mutex` |
| `Publisher` | `publisher_main.c`, one action per call of `main` | extends `Database`, uses `Mutex` |
| `SendOnce` | abstract: what the publisher needs of a send | |
| `TelegramSend` | `telegram_bot.c`, one action per request, reply or sleep | implements `SendOnce` |
| `Pipeline` | both binaries and the operator over the same tables | instances of `Parser` and `Publisher`; implements both |
| `Digest` | the packing of `formatter_digest` (`formatter.c`) | |
| `Json` | `json_parse` (`json.c`), one action per step of the descent; `JsonGrammar` is what it is measured against | |
| `StrBuf` | the growable string of `util.c`, in a `size_t` that wraps | |
| `Response` | one request of `http.c` and its buffer | |
| `Config` | `config_load` (`config.c`) | |
| `Event` | the record `ctf_event_t`, and what an absent field holds (`event.h`, `event.c`) | extends `Text` |
| `Text`, `Calendar`, `Url` | pure functions: the text helpers and time functions of `util.c`, the url checks of `content_security.c` | |
| `ContentSecurity` | pure functions: the patterns, the verdict and `content_security_sanitize`; the getters of `json.c` | extends `Url`, `Calendar`, `Event` |
| `Formatter` | pure functions: what `formatter_event` and `formatter_digest` show of an event | extends `Event`, `Calendar` |
| `Content` | one event on its way: fetched, sanitized, inserted, read back, formatted | extends `ContentSecurity`, `Formatter` |
| `JsonString` | `parse_string` (`json.c`) piece by piece; `json_escape_alloc` (`util.c`) | extends `Characters` |
| `Characters` | pure functions on bytes: counting, cutting and encoding UTF-8; table 3-7 of the Unicode standard | |
| `Utf8` | `utf8_valid` byte by byte | extends `Characters` |
| `Host` | `is_internal_host` (`util.c`) | |
| `Library` | the parts from `Digest` on, called one after the other by one thread | instances of them |
| `*Proofs` | theorems | extend the module they are about |
| `MC*` | small instances | extend the module they check |

In every module a process has a program counter that names **the call it makes next**; an action is that
call with the code up to the next one. Each ends at a point where another process may act.
Correspondence of state:

- `Parser`: `parser_pc`, `ids`, `pending`, `event_id`, `event` are the locals of `main`, per process.
  `pending` holds what the loop has left, `NextEvent` takes the smallest id (`ORDER BY event_id`).
  `late` are INSERTs the server still holds though their client has given them up. `rested` is history.
- `Publisher`: `events` is what is left of the array, `sending` is `events[i]`. `feed`, `delivered`,
  `unrecorded`, `alarmed` are history: the topic, messages per event, those never recorded, ids logged
  with "it WILL be re-sent".
- `Database`: a row is `[content, is_safe, posted_at]`. `content` is *the raw details* CTFTime served;
  `SafeContent` are those for which `content_security_sanitize` says safe, which it decides from the raw
  details alone. `posted_at` is a Boolean (NULL or not).
- A detail in `Refused` is one that a column does not take (a url that is no UTF-8): its INSERT always fails.
- A statement has an `Outcome`: `ok`, `failed` (not executed) or `lost` (executed, reported as an error).
  The code cannot tell the last two apart, which is where most of the interesting behaviour comes from.
- `LockFile`, `LogFile`: names lead to inodes, descriptors are open on inodes, `flock` belongs to an inode.
- `TelegramSend`: `now` counts seconds slept, `closed_until` is when the server accepts requests again.
- `Digest`: a text is the events it shows and its length. `Json`: a frame is a call of `parse_array` or
  `parse_object` under way; the text is chosen token by token as the parser looks at it; blocks of memory
  are counted, and every allocation may fail. `StrBuf` and `Response` have the locals of the C functions.
  `Config` has the numeric fields and whether `[db] name` is set.
- `Content`: `detail` has under each key what the getters find there, `ev` is the `ctf_event_t`; a field that
  is absent is the empty text, `NoTime` or `NoWeight`, which is what `has_url` and the like say. A text is a
  sequence of characters, and words that only matter as a whole (`union`, `ctftime.org`, an entity's name)
  are one character; `wide` has four bytes, `stray` is a byte that is part of no character. A time in a
  string is its six numbers and its zone. `message` is a list of lines, each with its kind and what it shows.
- `Utf8` chooses the text byte by byte as the loop looks at it, with the C function's locals; `JsonString`
  piece by piece (a byte, an escape, a code unit). `Host` takes a host as `inet_pton` leaves it.
- `Pipeline`: the variables of both binaries and the tables, shared by name.

Operators marked with a short comment at the right margin (`LockIgnored`, `UnlockAndUnlink`, ...) are
plausible *wrong* versions of the definition after them. No action uses them; they serve to check that a
property notices the difference (`PROJECT.json`, "mutants").

## 3. Runs and what they show

| Run | Instance | Shows |
|---|---|---|
| `lockfile` | 3 processes, 3 inodes | `MutualExclusion`, `HolderOwnsTheName` (why `lock_release` must not unlink), `PidNamesHolder`, `NoStaleLock`, `AcquireReturns`, and `ImplementsMutex` |
| `log` | 2 writers, 3 inodes, limit of 2 units, lines of 2 units, 1 fault | `LinesStayWhole`, `GrowthBounded`, `LogReturns` |
| `log_rotate` | as `log`, no faults | **violated**: `RotatesFullFilesOnly` |
| `parser` | 2 runs, ids 1..2, three details (one unsafe, one that a column refuses), 2 faults | `OneRun`, `NoRefetch`, `VerdictStands`, `LeavesBufferForAReason` |
| `parser_late` | the same with 1 fault and late INSERTs, two safe details, one of which a column refuses | `PostedStays`, `RunEnds`, `BufferDrains` |
| `parser_pause` | the same | **violated**: `PausesBetweenRequests` |
| `publisher` | 2 runs, 2 ids, 2 details, 2 faults | `Withheld`, `Ledger`, `SafeEventsGetPosted` |
| `publisher_duplicate` | the same with 2 faults | **violated**: `DuplicatesAreLogged` |
| `telegram` | code's limits (1 retry, 300 s), `retry_after` on each side of both ends of the clamp | `WaitsAsAsked` (the rate limit window is kept, and the delay bounded), `CallReturns`, `ImplementsSendOnce` |
| `library` | messages of 10 characters and 5 events; texts of 9 tokens nested 2 deep; `size_t` of 4 bits; responses of 12 bytes; 4 of the 7 numeric fields; columns of 2 to 4 characters | `DigestPacked`; `ParsesJson`, `NothingLeaks`; `BuffersHold`, `AppendReturns`; `StringsExact`, `Utf8Exact`; `StoredAsServed`, `VerdictCoversShown`, `HostsJudged`, `ShownAsStored`; and in `LibraryTypeOK` that a loaded configuration is in range |
| `pipeline` | one run of each binary at a time, 2 ids, 3 details, 1 fault each | `PostedAsStored`; `EachView`: the modules of both binaries are implemented by the whole, and through it `Withheld` of `publisher` |
| `pipeline_late` | the same, 1 id, late INSERTs | **violated**: `Withheld` |

**Bounds.** The bounds in the specifications are the number of faults (`MaxParserFaults`,
`MaxPublisherFaults`, `MaxFaults`), of events in a digest (`MaxEvents`) and of tokens in a JSON text
(`MaxTokens`); runs and calls start without limit. Nine tokens hold an object of two members or an array of
four, and `VectorCap = 1` makes the second element meet the growth of the vectors that the code meets at the
fifth. In a `size_t` of 4 bits every sum and product of `strbuf_reserve` that can wrap around does.
For the texts, every sequence of up to 4 to 6 characters over an alphabet that has each character the code looks
for is tried in each field: long enough for a bracket pair with a tag between, for three white space characters
with a tag between, and for a text longer than its column (titles and descriptions of 4 characters, a preview of
3). `UrlMax = 12` and `HostMax = 4` cut urls and hosts of which some are longer. What is not counted up keeps its
size: years run from 1999 to 2100 with both ends of February, leap seconds and offsets of up to twelve hours; a code point
has its 21 bits; bytes, code units and octets are those at both ends of each range the code (or the standard it is
measured against) distinguishes, with a neighbour on each side. Three bytes before the last character
(`MaxBytes`) let a character follow any other and be cut short by it; three pieces before the quote (`MaxPieces`) hold two
high surrogates and a low one.
Two processes suffice to overlap, three in
`LockFile` so that a holder, a process that opened the file before and one that opens it afterwards
coexist. Inodes: in `MCLogFile` a file is only created when the path leads nowhere, and then `.old` and
the other writer's descriptor take two of the three. Two ids are needed for a snapshot of which one
event is at hand and one is left, and for an id to be stored while another is worked on; two details (safe
and unsafe) for a detail that changes between two fetches. Two faults allow a failure during the recovery
from another; in `log`, where nothing is retried, one is enough. `UIntRange = 3` stands for 2^32, so
that raw ids 3 and 4 wrap around to 0 and 1. `LogFile` counts sizes in units: a limit of two units is one
line, and rotation is then met on every second call.

**Fairness.** cron starts every binary again and again (`WF(CronStarts)`), and a run goes on
(`WF(RunStep)`): curl has timeouts, `sleep` ends, and the MySQL client is *assumed* to return (the code sets
no read timeout). Not every day is a Monday: `SF(IsNotMonday)`. The lock holder in `LockFile` is under no
fairness at all. A call of `strbuf_append` goes on (`WF(InStrBuf)`). In `LogFile` the kernel serves the waiters of `flock` in turn (`SF(Flock)`). Faults are
never fair and end with their bound, which is how "failures do not go on for ever" is said. A detail that a column
refuses (`Refused`) is not a fault and has no bound: `db_insert_event` fails on it in every run, for as long as the API serves it.
So `BufferDrains` says of an id that it leaves the buffer, or that a run has just had its detail refused.

## 4. Disagreements between text and code

1. `parser_main.c:164` "pause between requests, except after the last one": the `continue` paths skip the
   pause (`parser_pause`).
2. `publisher_main.c:128` calls the failed update "the one failure mode that silently produces a duplicate
   notification" and logs it: a reply lost after Telegram accepted the message, or a death before the
   update, also does, without that line (`publisher_duplicate`). `Ledger` is what does hold.
3. `include/log.h:7` "Rotates the file ... if it has grown past 5 MB": the second of two writers that saw the
   full file moves the fresh one over the full `.old` (`log_rotate`). `GrowthBounded` and `LinesStayWhole`
   are what does hold.
4. `README.md:480` unsafe events are "held back from publication": when an INSERT outlives its client and
   the retry fetched other details, `ON DUPLICATE KEY UPDATE` (`db.c:173`) replaces the content and keeps the
   old `is_safe` (`pipeline_late`). Without such INSERTs `Withheld` holds, which is proved.

Smaller ones, stated in the properties where they matter:

5. `formatter.c:322` "<=4096-char Telegram message parts", `README.md:674`, and the test of the split
   (`tests/test_formatter.c:114`): a block that by itself exceeds the limit is sent as it is. A title and a place of 255
   characters and a link of 512 grow up to sixfold when they are escaped, and the escaped characters are counted; the run
   `library` meets it with a message of 13 characters for a limit of 10. `MessagesPacked` is what does hold: only a message
   that shows one event, for which there is no room under its header, is longer.
6. `include/util.h:56` "Hostnames that are not literal IP addresses ... always return 0": numbers that `inet_pton` does not take,
   and hexadecimal ones, return 1. The comment at `util.c:486` and the test (`tests/test_util.c:51`) mean it so, and
   `HostsJudged` has it.
7. `include/event.h:17` "URLs are validated ASCII-only": `sanitize_url` lets every byte above 127 pass. A url that
   is no UTF-8 is then refused by its column, and the event stays in the buffer and is fetched by every run (`StoredClean` has
   it as the only reason a column refuses an event; in `Parser` such a detail is in `Refused`, and `BufferDrains` says what becomes of its id).
8. `util.c:514` fields out of range are rejected because `timegm()` would "silently *normalize*" them: February 30
   and the like still are (`DatesKept` says to what). An offset of hours only ("+05") is read as UTC.
9. `include/util.h` says of `sanitize_string_alloc` "never NULL"; it is when an allocation fails.
10. A low surrogate that stands alone, or behind two high ones, leaves bytes that are no UTF-8, so that the title
   becomes empty and the event is dropped (`StringsDecoded`); one high surrogate takes the escape behind it along.
11. The format is shown and not part of the verdict; and a preview may end where a word of the whole text goes on.
   `VerdictCoversShown` is therefore about templates in title, place and preview.
12. The digest's dates have no year: an event that ends exactly a year later shows one day (`ShownAsStored`).

## 5. Proofs

All constants are arbitrary: any number of processes, inodes, ids, contents and faults.

- **`LockFileProofs`.** One inductive invariant says for each process which descriptor and which `flock` go
  with its program counter, that a lock's owner has that inode open, and that every open inode is the one
  the name leads to. The last part is why `MutualExclusion` is not inductive as it stands: two processes
  that hold two inodes each hold "the" lock. From it follow type correctness, the four safety properties and
  the refinement of `Mutex`, step by step.
- **`DatabaseProofs`.** Lemmas on what an upsert, `db_mark_as_posted` and the review do to each column;
  the other proofs never look into a row update.
- **`ParserProofs`.** `TypeInv` adds to `ParserTypeOK` that a run about to insert has an id other than 0
  and a detail. `SafeInv` adds `OneRun` and that a run deletes as stored only what is stored:
  gives `NoEventIsDropped`. `DedupInv` adds that the buffer is free of stored ids when the snapshot is
  taken (`Cleaned`); it needs `~LateInserts` and gives `NoEventIsRefetched` and `VerdictsStand`.
  `PostedForGood` needs no assumption.
- **`PublisherProofs`.** `LedgerInv` adds to `Ledger` that runs past the lock are alone and that what a run
  has still to send is stored, not posted, and has one message per id (`LoopInv`): without it an update
  could set `posted_at` a second time and the sum would not balance. `WithheldInv` adds `VerdictStands` and
  that all snapshots are clear; it needs `~LateInserts`.

- **`TelegramSendProofs`.** `IInv` adds to `WaitsAsAsked` what the attempts that are left may still sleep, and that
  each copy in the topic came from a request of this call: it gives the delay's bound and the refinement of `SendOnce`.
- **`LogFileProofs`.** Whoever has a line begun in a file, or is about to rotate it, has its `flock`: so the lines are
  whole. `RoomLeft` counts for each file what is in it, what writers that passed the size check may still put there,
  and the `rename()`s that failed unnoticed; only this sum is inductive, `GrowthBounded` by itself is not. The writers are
  assumed to be finitely many.
- **`PipelineProofs`.** The modules of both binaries are instances over the same variables. A step of the whole is a
  step of one binary and, for the other, one of the steps it allows its environment (`ViewInv` says what has to hold
  on both sides for that); so the whole implements each (`EachView`), and the theorems about the parts hold end to end:
  `Withheld`, and with `PostedShown` of `PublisherProofs` that what `posted_at` marks was shown as it is stored.
- **`LibraryProofs`.** Each part has an inductive invariant of its own. `StrBufInv`: what the checks before
  the growth let through does not wrap, from there on the code computes in the integers. `ResponseInv`: the buffer holds
  what has arrived. `JsonInv`: which calls are under way at each program counter, and that the blocks allocated are those of the
  open containers and of the value at hand (running sums along the stack, `AddsUp`, instead of a recursive sum).
  `DigestInv`: the messages closed and the body under way show the items so far, and no message could have taken the first
  item of the next; one that is too long shows one item that does not fit under the header it has (`HeaderOf`). `Utf8Inv`: the text so far is split where the standard splits it, `UnderWay` is what the loop
  knows of the character it is in, `Counted` and `Whole` say where characters begin and where the text is cut. The
  functions of the reference (`Chars`, the flattening) are recursive; that each has a value and goes by the bytes seen
  is shown by induction, which is taken (`Least`, `InductionUpTo`) from the well-foundedness of `<`. For hosts,
  quotients and remainders are named, after which each mask and each range, of four octets as of the first group of an IPv6 address, is a comparison.
  `StringInv`: what `parse_string` has written are the characters of what it has read (`Decodes`, with the pieces' codes
  as a function of their number), its last piece is a high surrogate while the second half is looked for and only
  then (`Pending`), unless one was taken along by another. That `json_escape_alloc` is undone goes byte by byte, each with
  the pieces it is written as. `ConfigInv`: every default is in its field's range, so what is clamped is. `Utf8Types`:
  the fewer bytes are to follow, the more bits a code point may have (`RoomFor`), which is why four bytes never exceed 21.
  `EventInv`: an event that was judged is what `content_security_sanitize` makes of the detail at hand, and the message what the
  formatter makes of it. `VerdictCoversShown` follows: in a template found in what is read two brackets stand side by side
  or around other characters, and neither a cut, an ellipsis nor white space that is squeezed puts them there.
  `ShownAsStored` follows from it too: the text read is the one escaped, one character after the other (`QuotedIsRead`); what is
  stored does not begin with white space (`Unindented`), so trimming it again takes only from its end; and `timegm` undoes
  `gmtime` (`GmtimeIs`: each day has its year and month), dates being in the order of their days (`DateOrder`).

`~LateInserts` is an assumption of the theorems that say so and no axiom: the runs with late INSERTs show what is lost
without it. The inductive invariants were checked by TLC on the instances of the runs before they were proved (all but
`JsonInv`, whose running sums are functions into `Nat`, and `Utf8Inv` and `StringInv`, where `Counted` quantifies over `Nat`; what TLC
checks there are the properties they give; `EventInv` was checked with shorter texts).
What the proofs assume of the constants is in `LibraryAssumption`: of strings that a piece is a byte 1..255, a code unit or
an escape (`StringConstants`); of contents that a detail says of each key whether it is absent, that its strings are
sequences, of any characters, and that its times have numbers for a year and an offset (`DetailConstants`); of the window
of dates that it ends before 2243 (`ContentConstants`), up to where the years the model's `gmtime` tries are enough.
`StringsDecoded` speaks of strings whose bytes are ASCII, with escapes of any kind: other bytes
are copied as they are, and whether they are UTF-8 is `utf8_valid`'s to say.

Only model-checked: liveness, which rests on `ENABLED`; and of `library` the grammar (`ParsesJson`, but for the depth)
and how the texts, urls and dates of an event are stored (`StoredAsServed`), whose references are folds over texts and days
(an HTML reader, RFC 3986, a calendar day by day): what such a fold computes for every input is an induction over data.

## 6. Not modelled, and the plan

Left out on purpose: icons, wording and layout of messages and log lines, building the two URLs of the API,
failing allocations outside of `Json`, `StrBuf` and `Response` (the text helpers return `NULL`, which most of the
formatter does not check), the digits inside a JSON number, `inet_pton`, the text fields of the configuration, the
windows of time in SQL (`NOW()` is the server's), and the tests and the build.
`Url` leaves out `authority[600]`, which no url of `URL_MAX` bytes fills, and `scheme[16]`, which is
longer than the two schemes that are accepted. Patterns are modelled as what they match, not as the library's
matcher. Of the statements that outlive their clients only the INSERTs into `ctf_events` are modelled (`LateInsertLands`): a DELETE
from the buffer or an UPDATE of `posted_at` that lands late is not. `LinesStayWhole` does not speak of the half line that a `write()`
leaves behind when it fails for good. The ranges of `Config` keep times out from zero and the negative numbers; a large positive pause is
taken as it is, by the code too.

Plan, in order; 1 to 9 are done, but for what is said there:

1. `Mutex`, `LockFile` and its proofs.
2. `Database`, `Parser`, `Publisher`, their runs and proofs.
3. `SendOnce`, `TelegramSend`; `Pipeline` with both views as refinements.
4. `LogFile`.
5. `Digest`, `StrBuf`, `Response`, `Json`, `Config` in `Library`.
6. The run `library` over all of them.
7. The way of an event's content: `Text`, `Url`, `Calendar`, `ContentSecurity`, `Formatter`, `Content`, and the pure
   algorithms against reference definitions: `Characters`, `Utf8` (table 3-7 of the Unicode standard), `JsonString` (UTF-16),
   `Host` (the ranges in the code's comments), the calendar (day by day).
8. Proofs about the library: `Digest` (`DigestPacked`), `StrBuf` (`WritesFit`, from a lemma that sums below
   `SizeMax` do not wrap), `Response` (`BodyKept`), `Json` (`DepthIsNesting`, `NothingLeaks`), `Host` (masks against
   ranges), `Utf8` (`Utf8Exact`), `JsonString` (`StringsExact`), and the types of all parts with the range of the configuration
   (`LibraryTypeOK`), `Content` (`VerdictCoversShown`, `ShownAsStored`). Left: how `Content` stores what was
   served (`StoredAsServed`) and the grammar of `Json` (`ParsesJson`); their references would first have to be written as recursive
   functions, about which one can reason as in `Utf8` and `JsonString`, with `InductionUpTo`.
9. Proofs: `LogFile` (`LinesStayWhole`, `GrowthBounded`), `TelegramSend` (`WaitsAsAsked`, refinement), and
   `Pipeline` (both views by step simulation, then `Withheld` end to end from the theorems on the parts).
