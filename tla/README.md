# TLA+ specifications of the interoperable cellular IoT demonstrator

This directory specifies the programs of this repository in TLA+, checks them
with TLC on small instances and proves the most important results with TLAPS for
every instance. Line numbers refer to the files under `src/`.

## 1. The system

Utility meters report readings to a oneM2M server (OM2M), and a web application
subscribes to the readings, stores them and shows them.

    BG96 meter (client_c)  --create AE, containers, readings-->  OM2M server
    C++ meter (client)     --create AE, containers, readings-->  OM2M server
    C++ meter              <--notification of a ping-----------  OM2M server
    web application        --list, create, subscribe, delete-->  OM2M server
    web application        <--notification of a reading--------  OM2M server
    browser                --subscribe, delete, ping, history->  web application

| Component | State | Operations | What is hard |
|---|---|---|---|
| BG96 main loop (`client_c/src/MeterMain.c` 399-693, 814-885) | `op_state`, `no_data_call`, `done_report`, `myMeterValue`, the event flags | set up the data call, connect, provision, report, sleep; `dss_event_cb`, `http_client_cb` | callbacks of two libraries against a main thread that waits without limit on event flags; retries after lost answers; reboots; resources deleted behind its back |
| BG96 onboarding (`MeterMain.c` 241-310, 743-773, `http_utils.c`) | files in flash, the secure store, `file_buffer` | read, import, delete | partial failure, power loss between two deletions, names used after they were freed, a buffer that is shared |
| C++ meter (`client/src/MeterMain.cpp` 71-293, 515-558) | `um`, `respObj`, position in the set-up and the loop | set up, report, answer a ping | two threads, no lock |
| C++ meter's configuration (`MeterMain.cpp` 304-508, `Arguments.cpp`, `ValidityCheck.cpp`) | `settings.config`, ten globals | read, override by flags, write, encode the password | precedence, conversions, a kill while writing |
| Web application: reception and storing (`webapp/app.js` 49-116, `routes/api/monitor.js`, `downloadResource.js`) | one `data.json` per meter, a database | `/monitor`, `saveDataToJSON`, download | asynchronous read-modify-write, files that are being rewritten, exceptions in callbacks that end the process |
| Web application: history (`monitor.js` 19-24, `app.js` 65-69, `getResource.js`, `requestDataByDate.js`) | documents with a date | save, query by date | dates that run over |
| Web application: subscriptions (`postSubscribe.js`, `postDelete.js`, `app.js` 126-151, `onem2m.js`) | `AE_NAMES`; at the server: AEs, containers, subscriptions | subscribe, delete | calls that overlap between two requests to the server, failures that are swallowed |
| Web application: login and sessions (`routes/login.js`, `logout.js`, `modals/User.js`, `app.js` 118-124) | accounts in a database, sessions in memory | register, login, logout | asynchronous look-ups and saves, errors thrown in callbacks, sessions that are lost with the process |
| Web application: page of readings (`public/js/script.js`, `routes/data.js`) | the chosen date, the interval, the chart | poll, choose a date, set the range | polls that overlap, are answered out of order or not at all, and go on after a logout |
| OM2M server | resources | create, delete, notify | external |

What makes each of them correct:

* BG96: the main thread never takes an answer for another request's; no wait is
  for ever; `op_state` is never ahead of the server; what is acknowledged is
  stored; the stored readings are in order, with a bounded number of copies;
  main knows what became of its data call, and sets it up again when it is lost.
* Onboarding: no credential is lost; the onboarding file goes exactly when all
  it names has been stored.
* C++ meter: reports form a feed; pings are answered, with a reading that is
  current; every response object has one owner and is deleted once.
* Configuration: what is saved is read back; a password never comes out of the
  file as another one.
* Storing: a reading that was received is in the file and stays there; the file
  is sound and readable; the process stays up.
* History: the answer for a day and a resource is that day's and that
  resource's, as far as the saved dates tell days apart.
* Page: the chart shows the last readings of the chosen date, and only what the
  user was logged in for.
* The whole way of a reading: one that a meter reports while the page lists the
  meter ends up in the records.
* Subscriptions: "success" means subscribed, "deleted" means gone, and every
  call is answered.

## 2. Modules

| Module | What it is |
|---|---|
| `Cse` | the OM2M server as the BG96 meter meets it: which resources a create needs and makes, and the status it is answered with (external; from `http_request_using_state` and `http_client_cb`) |
| `Bg96Client` | the BG96 meter: main thread, two callbacks, modem, transport, server, faults. Extends `Cse` |
| `MeterFeed` | abstract: the DATA container of a meter as a feed of readings. Implemented by `Bg96Client` and by `CppMeter` |
| `Onboarding` | onboarding and configuration of the BG96 meter |
| `WebappStore` | `/monitor`, `saveDataToJSON` and the download |
| `ReadingLog` | abstract: a log per meter, each reading once. Implemented by the files of `WebappStore` as long as they are `Intact`: no two notifications of the meter have crossed and no write of its file was cut off |
| `WebappHistory` | the date a reading is saved under and the query by date |
| `WebappSession` | accounts, and the session of one browser |
| `DataPage` | the page of readings in a browser. Extends `WebappHistory`, composes it with `WebappSession` |
| `WebappSubscribe` | subscribe and delete |
| `ReadingPath` | meters, server, subscriptions and storing as one system. Extends `WebappStore`, composes it with `WebappSubscribe` |
| `CppMeter` | the C++ meter: main thread, callback thread, pings |
| `PasswordCrypt` | the encoding of the password in `settings.config`, as functions on sequences of character codes |
| `ClientConfig` | the C++ meter's settings over many runs of the program: `readConfig`, `Arguments`, `writeConfig`. Extends `PasswordCrypt` |
| `MC...` | values of the constants for TLC |
| `...Proofs` | theorems and their proofs |

Every specification is parameterised by `CONSTANTS` with one named assumption,
`ConstantsAssumption`. An operator `X_Y` with a comment "Mutated:" is a version
of the operator `X` next to it with a plausible mistake in it; no specification
uses them. They show that each property is sensitive to the code.

### Bg96Client

`pc` names the place of the main thread in `run_ae`; one action is the stretch
of code between two points where something else can happen: `CheckCall` 825-845,
`StartDataCall` 467-478, `WaitCall` 480-487, `ConfigureDns` 488-516 (with the
retry of 538-551 in `CallFailed`), `HttpConnect` 553-565, `NextRequest` 857-864,
`HttpRequest` 584-681, `WaitHttp` 681-691 with the test of the inner loop
(867) and the disconnect (868), `WakeUp` 873-885. `dss_event_cb` and
`http_client_cb` are actions of their own: they run in threads of the
libraries and speak to main only through `flags`. `Boot` is everything before
the main loop as one step that may end in the endless sleep (`Stopped`).

The environment: the modem settles a call that is being started (`CallUp`,
`CallRefused`) and may drop it (`CallDrop`); the library carries a request to
the server (`CseServe`), which may fail (`CseError`), or gives it up
(`TransportFails`), whether or not the server gets to see it. A request given up
is in `late` and may be served any time later (`CseServeLate`); `Disconnect`
drops those that are in flight unless `ServesClosed` says that the server serves
requests of closed connections too. `DeleteAE` is the web application's delete.
Faults are counted by `Budget`.

A reading is the record of boot number, report number and kWH. The program
sends only the kWH; the other two tell readings of equal value apart.

### Onboarding

One action per file system or store operation. A name that is used after
`json_value_free` may have become garbage (`Overwrite`): what the freed memory
holds is not defined, and the model lets it be the old name or no file's.
`OnboardFile` is what is read under the name of the onboarding file: the file, or
one whose root is no JSON object, which is left alone (266-270). A
failing read may leave part of the file in `file_buffer`. `ReadConfig` does not
look at the status, like 743, and parses the buffer.

### WebappStore

Node runs one callback at a time, so one action is one callback plus, for
`OpenFile` and `WriteFile`, the two moments of `fs.writeFile` that others can see:
the file is empty, the file is written. Two writers may both have opened the
file; if the one that is finished last wrote less than is there, the rest of the
other's text stays and the file does not parse (`Garbled`). A callback that throws
(`JSON.parse`, app.js 87, downloadResource.js 15) ends the process (`Die`); a
download needs the meter's folder only (`HasFolder`), and ends it too when there is
no file in it. Nothing keeps notifications of a meter apart: `Monitor` is enabled
whatever is under way, as in monitor.js 7-33. `crossed` is not in the code: it
remembers the notifications that were under way together with another of their
meter. Nor is the distinction between `lost` and `cut`: a handler that was given up
before, or after, `writeFile` had emptied the file. A file is `Intact` as long as no
notification of its meter is `crossed` or `cut`.

### WebappHistory

Dates are records. `JsDate` is the constructor of JavaScript, month index and
overrun included. Days have no time: the two conversions to a locale string
are in one time zone. `at` numbers the documents in the order in which they were
saved, which is the one the database gives them back in.

### WebappSession and DataPage

A session is marked (`isAuth`) by a login and unmarked by a logout; it is kept in
the memory of the process (`express-session` without a store) and is lost with it.
`LoginEnds` is both callbacks of the strategy: nothing that may happen between
them changes what the second finds, as accounts are only ever added and the found
one is handed on. Passwords are compared as themselves: bcrypt has no state. No
name is unique, and the look-up takes any account of that name.

`polls` are the requests of `getJSON` under way. `Tick` is the interval of three
seconds, which may come round before an answer. `/api/get` is two steps on the
server: `Admit` is the login check (app.js 118-124), which looks at the session as
it is when the request arrives, and `Query` is what the database calls back later
(getResource.js 12-28), when the session may be gone and more readings stored.
`Callback` is `success` or `error`. An answer the script can do nothing
with - the login page, a message, an error, a reset connection - is "useless": the callback
throws or reports it and the chart stays. Loading the page again aborts its polls. `today` is
the clock of both sides, which are taken to share time zone and locale: the
browser sends what its `toLocaleDateString` makes of the chosen date, and the
server compares that with what its own made of the date of the reading.
`overlap`, `current`, `entitled` and `seen` are not in the code; the properties need
them: `entitled` are the polls the browser was waiting for when the session was last
logged in, and `seen` is how much was stored when it was, or when the last of those
was answered.

### WebappSubscribe

One action per callback; a request to the server is performed in the
action in which its answer is handled, and every other call may run before it.
`overlap` is not in the code: it records that two calls have been under way at once,
which the properties distinguish. When something throws in the loop over the list
(postSubscribe.js 34-56) the call is refused, and the chains begun before that go on
without it (`GoesOn`).
`chain` is the chain of promises of `subscribeToServer`, one per AE. An `Errors`
request fails before the server saw it. A killed web application keeps nothing
(`AE_NAMES`); the server keeps everything.

### ReadingPath

The meters of `WebappStore` are the application entities of `WebappSubscribe`, and the
two are one process: whatever ends it (`Ended`: a kill, a handler or a download that
throws) ends both, and the list and all calls under way are lost with it (`Besides`).
`MeterReports` stores a reading in a container and notifies whoever is subscribed at
that moment (`Notify`), once; `Arrive` is the notification at `/monitor`, in any
order, whatever the handlers before it are at, and also while nobody listens;
`Store` is what `saveDataToJSON` still has to do; `Browse` is a download of a listed
meter. `promised` and `harmed` are not in the
code: the first remembers the readings made while the page listed their meter, no
subscribe or delete was under way and no request had failed; the second those of them
after which the process has ended or an I/O operation has failed. Every step of it is a step of one of its components,
which is proved (`PathIsStore`, `PathIsSubscribe`).

### CppMeter

Two threads, `main` and `callback`. `Setup` is the sequence of requests before the
first report (157-252): no result is looked at, so a failed one changes nothing
but what exists at the server. The assignment `respObj = ...` is three steps:
the new object arrives, the old pointer is loaded, the new one is stored and the
old one deleted (`Load`, `StoreAndDelete`), because `unique_ptr` is not atomic.
A new object may get any address that is free, that of a deleted one included
(`NewAddresses`). An object deleted twice leaves the heap corrupt; from then on a new
object may get the address of one that is alive, and the program may abort or go on.
`raced` is not in the code: it remembers that two assignments have overlapped.
Main's waiting by `clock()` is not modelled: a report may be due at any time.
`countCalc` is computed as main does from the minutes to run and the seconds
between reports, with the truncation; a delay of 0, of which the conversion is
undefined, is excluded by `ConstantsAssumption`.

### PasswordCrypt and ClientConfig

A password is the sequence of its character codes; everything else is a text or
a number, and a text a check refuses is `BadText`, whatever is wrong with it. An
argument is a record of the setting a flag stands for and the value that follows
it; `Setting` says which argument a setting comes from, as later flags override
earlier ones and parsing ends at the first that is refused. `passFlag` is not
initialised by the program: `PassFlag` takes either value unless a valid `-p` has
set it. `hex` in `crypt_to_string` has no room for a NUL and `stoi` may read on; the
model reads two digits, which is what the build of `ClientBuild.sh` does.
`OpenConfig` empties the file and `WriteConfig` writes it, a `Stop` may come between the
two. The ten lines are one write: they fit the buffer of the stream.

## 3. What is checked

| Run | Bounds | What it shows |
|---|---|---|
| `Bg96Transport` | 2 HTTP and 2 data-call attempts, 2 readings, increments 0 and 1; a refused call, a drop, two lost requests or answers, a server error, a deletion, a reboot | `NoStaleAnswer`, `WaitsEnd`, `ProvisionedInOrder`, `AcknowledgedIsStored`, `ReadingsInOrder`, `CopiesBounded`, `OnlyRacesForget`; implements `MeterFeed` |
| `Bg96Setup` | 2 HTTP attempts and 1 data-call attempt, 2 readings, a server that serves closed connections; a refused call, failing DNS, two failing connects, a lost answer, a deletion, a reboot, no drop of an established call (with one `DataCallRetried` fails, see the next run) | `IInv` (the invariant of the proofs, the type included), `DataCallRetried`, `ReprovisionedAfterReboot`, `ReadingsArrive` |
| `Bg96NotRetried` | a drop and two refused calls | `DataCallRetried` violated, see 5 |
| `OnboardFaults` | two credentials, each fault twice, freed memory once | type; `CredentialsKept`, `DeletedWhenDone`, `DeletedAfterProcessing` for boots that find every file and meet with no fault |
| `DataPage` | January 31, February 3 and March 3, the first two of which are saved with one date; 2 readings, 2 polls at a time, ranges of 1 and 2, an account, one error or end of the process | `MixedOnlyAtMonthEnds`, `ChartIsOfChosenDate`, `OnlyLoggedInSee`, `ChartCatchesUp` |
| `ReadingPath` | a meter with 2 readings whose notifications may cross, 2 subscribes and a delete, a download, a kill | `PromisedIsKept`, `ShownIsRecorded` |
| `StoreOverlap` | 2 meters, 3 notifications of one of them at once and 1 of the other, a kill, an I/O error, a download | `FileIsSound`, `FileStaysReadable`, `RecordIsKept`; implements `ReadingLog` while `Intact` |
| `StoreLostUpdate` | 3 notifications of a meter | `RecordedStays` violated |
| `Subscribe` | 2 AEs, 2 subscribes and a delete, two at once, an error, a kill | type; `SuccessIsSubscribed` and `DeletedIsGone` of calls that did not overlap, `ListedIsSubscribed` of all, `EveryCallIsAnswered` |
| `Cpp` | container DATA, a runtime of 60 seconds and a delay of 61, which makes 2 reports, a ping, an error, a restart | `ReportsCoverRuntime`, `ReplyIsFresh`, `OnlyRacesBreakTheHeap`, `PingsAreAnswered`; implements `MeterFeed` |
| `ClientConfig` | 7 passwords of 0 to 40 characters, 7 other arguments, command lines of up to 3, any number of runs | type; `SavedIsReadBack`, `PasswordIsKnown`, `BufferFits` |
| `ClientSettings` | the same | `LoadedIsUsed` violated, see 5 |

Why the bounds are enough to be of interest: every kind of fault occurs at
least once in a passing run and those that have to combine twice (two lost
answers exhaust an inner loop of 2 attempts; a kill leaves an empty file, and the next handler meets it after the restart); two
readings make an order, two calls, threads or writers a race, three writers a
race over a file that is already there. In `ReadingPath` two notifications suffice: a
third adds to the races over the file, which `StoreOverlap` has, and nothing to those
with the subscription; I/O errors are in `StoreOverlap`, where they end the process as
the kill of `ReadingPath` does, or leave a handler `lost` or `cut`; calls that overlap
and requests that fail are in `Subscribe`. `PromisesAreKept` (section 4) covers all of
them together. The days of `DataPage` are those on which the saved dates run over. The passwords are the longest that is sure to be
readable, the first that may not be, one beyond the last that may be, and one
beyond the buffer; a command line of three has one flag after a refused one. The proofs of section 4 do not depend on
them. `StoreOverlap` takes the three readings of a meter for symmetric: the specification
names none of them, and the run checks no liveness. `CHECK_DEADLOCK FALSE` stands in the runs of `WebappStore`,
`WebappSubscribe`, `ReadingPath` and `CppMeter`: their notifications, calls and
reports are finite in number and the system is idle afterwards; and in that of
`DataPage`, where the process may end for good. `Bg96Client` and `Onboarding` never
stop (an endless sleep is a step) and `ClientConfig` may always be started again;
there deadlock is checked.

### Fairness

* `Bg96Client`: main and the two callbacks are threads of an RTOS: weak fairness.
  The modem and the transport settle what they were asked, one way or the other
  (both have time limits of their own). No fault is fair, and `Boot` may stop.
* `ReadingPath`: the server delivers the notification of each reading and node's
  event loop gets round to every callback of an I/O operation under way. Nobody
  has to subscribe and no meter has to report.
* `DataPage`: the interval of a page that plays comes round, the process gets
  round to a request and the browser to its answer. Users, meters, errors and
  restarts are not fair; `ChartCatchesUp` is about a page that is left alone.
* `WebappSubscribe`: every request ends in an answer or an error, and node gets
  round to its callback. Calls, kills and the meters are not fair.
* `CppMeter`: only the callback thread: its notification is taken up and its
  request ends. Main is not fair: it may wait for its next report for ever, and
  a ping is answered nevertheless.
* `WebappStore`, `Onboarding` and `ClientConfig` are run without fairness.

## 4. What is proved

TLAPS proves these for all values of the constants that satisfy
`ConstantsAssumption`; no other assumption is made but those named.

`Bg96ClientProofs`
: The properties about the handshake are not inductive: that no answer is stale
  when the next request is sent needs that there is one request or one flag at a
  time and that the request is main's current one (`RequestIsCurrent`); that
  `op_state` is not ahead of the server needs that a success under way is true
  (`SuccessIsTrue`), which in turn needs that a report is sent exactly in a cycle
  that took a reading (`ReportIsDone`). `IInv` is their conjunction with the
  type, and is inductive for every server and every budget (`Invariance`).
  `TypeCorrect`, `NoAnswerIsStale`, `NoWaitIsForever`, `ProvisioningIsInOrder`
  and `AcknowledgementIsTrue` follow. `CopiesAreBounded` needs
  `AttemptsAreCounted`: the attempt number of a stored copy is below
  `HTTP_ATTEMPTS` and no two copies share one, so the copies map one-to-one into
  `0..HTTP_ATTEMPTS-1`. `DataIsInOrder` and `ImplementsFeed` assume
  `~ ServesClosed` and use `OrderInv`: what is stored or late is not newer
  than the current reading, and what is late is the current one. With
  `ServesClosed` both are false: a reading that was given up may arrive after the
  next one.
  `OnlyDeletionMisleads` is about what becomes of a meter whose AE was deleted:
  the part of `IInv` that `Deleted` switches off, `Honest`, is restored by every
  restart and kept by every step but a deletion.
  `OnlyRacesMakeItForget` says when main loses sight of its data call. `CallIsKnown`
  says, for each place main may be at, what it and the events still to be delivered
  know of the call; a restart restores it, and the only steps that can end it are
  those of findings 1 and 6: a set-up that fails while main still believes in the call
  that was lost before it (`SetupFails`), and a drop before main believes in the call
  it is setting up (`DropUnseen`). `LossIsRemembered` is the consequence for
  behaviours without those steps (`Calm`, which drops of an established call are
  part of): main goes on to HTTP only over a call that is up or whose loss it will
  see in the next cycle.

`OnboardingProofs`
: `IInv` adds to `CredentialsKept` that a name is known exactly when the onboarding
  file has it and that main is about to delete a file, or has `success` left,
  only when the store has the credential. `TypeCorrect`, `NoCredentialIsLost` and
  `OnboardFileIsKept` follow. `ProcessedIsDeleted` needs `FaultlessSucceeds`
  besides: without a fault, each file an import still needs is there and each
  import so far has succeeded.

`WebappHistoryProofs`
: `AnswersMixOnlyAtMonthEnds` holds for any `Days` of the calendar: two days that
  `SavedDate` maps to one date are a 29th to 31st that the month after does not have
  and one of the first three days of that month (`SameDate`, by cases on the lengths
  of the months). `PageIsHistory`: every step of `DataPage` is one of
  `WebappHistory` or leaves it alone, so this holds under the page
  (`PageAnswersMixOnlyAtMonthEnds`). `OnlyTheLoggedInSee` needs that an answer
  that is on its way holds no document newer than `seen` either, that a poll whose
  query is still to come was waited for when the session was last logged in (`entitled`),
  and that documents are numbered as they are counted. `TheChartIsOfTheChosenDate` needs that
  without overlap there is one poll at a time, that it is of the chosen date
  once the chart is, and that an answer is of the date it was asked for.

`WebappStoreProofs`
: `IInv` says of the arrays that handlers are going to write what `FileIsSound`
  says of the files, and that a notification whose handler has not read yet is in
  none of them; `TypeCorrect` and `FilesAreSound` follow, for any number of
  meters, notifications, overlaps, kills and errors. The others hold for all of these
  too. Notifications that have not crossed are not under way together (`Apart`), so
  while a file is `Intact` the array its handler is going to write is the file with
  one more reading (`InOrder`): `FilesStayReadable` and `FilesAreLogs`, the refinement
  of `ReadingLog` by the files that are `Intact`, follow. When a file stops being
  `Intact`, its log leaves the abstraction (`Spoil`). `RecordsStay` is about all
  files: a reading written while no other of its meter was under way is in the file, and
  in every array that has been read since (`Kept`), so whichever of the later
  writers wins, it is kept. It is what remains of the promise `StoreLostUpdate`
  finds broken. `PoisonedForGood`: a file that was left unreadable with no writer under
  way stays unreadable.

`WebappSubscribeProofs`
: Subscribing is a chain of four requests per meter that other calls may cross.
  `IInv` says what each link finds at the server (`OnItsWay`). `ListedInv` holds
  however calls overlap: what is listed is subscribed to, or has a chain on its way, or
  a delete has removed it that is about to take it off the list.
  `SuccessInv` and `GoneInv` are about calls that do not overlap, and need that there is
  one at a time (`Alone`). `TypeCorrect`, `WhatIsListedIsSubscribed`, `SuccessIsTrue` and
  `WhatIsDeletedIsGone` follow, for any number of meters and calls.

`ReadingPathProofs`
: `PathIsStore` and `PathIsSubscribe` are the two refinements of the composition by
  its components; `PathFilesAreSound` and `PathFilesAreLogs` follow from the first
  and the theorems about `WebappStore`, `PathListedIsSubscribed` and
  `PathDeletedIsGone` from the second and those about `WebappSubscribe`, whose
  proofs are instantiated with the meters as its entities (`PathAssumption`: what
  `WebappSubscribe` assumes of its constants holds of the path's).
  `PromisesAreKept` needs both halves: a promised reading is notified because its meter
  was subscribed to when it was made, and what becomes of its handler later is the
  store's; `RecordsStay` gives the part about the file. Its invariant also says that while
  the process is down nothing is under way or listed (`Down`), so what arrives then is
  `harmed`. It holds for all kills, errors, downloads and crossing notifications.
  `ShownIsRecorded` is its live counterpart and stays with TLC.

`CppMeterProofs`
: `Inv` says that a ping's answer and a posted reply are past the ping, that the
  reports counted are those main has made, and, as long as no two assignments have
  overlapped, that the objects alive are those `respObj` and the two threads hold,
  each held once, and what a thread is about to delete is what `respObj` owns.
  `TypeCorrect`, `OnlyRacesBreakIt`, `RepliesAreFresh` and `RuntimeIsCovered`
  follow, for any runtime, delay, number of pings, errors and restarts.
  `ImplementsFeed` is the refinement of `MeterFeed` by the container the reports go to. With
  `-c DATA` the replies to pings go there too: to the feed they are `Strangers`, which
  `Intrude` admits, and only then. It needs that the report under way is the
  current one and newer than every one in the container (`PostsAreNew`), and that
  no reply is taken for a report (`RepliesAreNoReadings`).

`ClientConfigProofs`
: Of the encoding: `RoundTrip`, decoding undoes it whenever the result fits the
  buffer; `ShortIsValid` and `ValidIsShort`, as the n-th character is the digit
  moved by 20 less its position, so up to 36 of them stay printable whatever the
  password, and by the 47th one has left the printable characters.
  Of the settings: `IInv` adds to the type that a run starts with exactly what it has loaded.
  `LoadedIsSaved`: a setting that is read from the file is the one written or
  none, as a line that does not come out as it went in is refused and ends the
  reading. From it follow `PasswordIsKnownHolds`, `SavedIsReadBackHolds` for
  settings that are `Simple`, and with `ValidIsShort` `BufferFitsHolds`.

Only model-checked: everything under fairness (`DataCallRetried`, `ReadingsArrive`,
`ReprovisionedAfterReboot`, `ShownIsRecorded`, `ChartCatchesUp`, `EveryCallIsAnswered`,
`PingsAreAnswered`), which is out of the prover's reach.

## 5. Where code and documentation disagree

Three are runs that TLC finds violated, with the line they contradict in
`PROJECT.json`.

1. After a reported loss of the data call, a failing set-up is never tried again
   (`MeterMain.c` 838; `Bg96NotRetried`).
2. Two notifications at once lose a reading (`app.js` 83; `StoreLostUpdate`).
3. The settings that are loaded from `settings.config` are overwritten by the
   arguments' defaults, the password excepted (`MeterMain.cpp` 97-108;
   `ClientSettings`, where a container name that was saved and loaded gives way to the
   default) against "it will automatically load the values stored"
   (`client/src/README.txt` 26).

The others are behaviours of the modules, and the passing runs include them,
but no run is kept for what they contradict:

4. Power loss between two deletions leaves an onboarding file for ever
   (`MeterMain.c` 285), as its credential file cannot be imported again:
   `DeletedAfterProcessing` excepts such boots.
5. Readings are saved under a date a month ahead (`monitor.js` 21) and not found under
   today (`getResource.js` 16): `SavedDate(today)` is never `today`. January 31 and
   February 3 are saved as one day: `MixedOnlyAtMonthEnds` says that only such days are.
6. A call that drops before main has seen it come up is taken for a call: the wait
   with `TX_OR_CLEAR` (`MeterMain.c` 481) clears both flags and looks at one.
   This is the step `DropUnseen` of `OnlyRacesForget`, by which it and 1 are all that can
   make the meter lose sight of its call.
7. The data of one resource is answered with those of all (`getResource.js` 15)
   against "Gets the JSON Data for that paticular resource" (`docs/webapp.md` 27).
8. A download while the file is being rewritten ends the process
   (`downloadResource.js` 15): `running` becomes FALSE without a kill. So does one of
   a meter whose folder has no file in it.
9. "success" without a subscription: of two browsers at once the second
   subscription is refused as its name exists (`app.js` 147, `onem2m.js` 84-90);
   or a request fails and the failure is swallowed (`app.js` 148).
   `SuccessIsSubscribed` without its two conditions fails.
10. A subscribe under way undoes a delete (`postSubscribe.js` 32): it goes on with
    the list it has got before. `DeletedIsGone` without its condition fails.
11. A reply to a ping may end up behind a newer report (`MeterMain.cpp` 540, 551), is
    sent to the fixed container DATA whatever `-c` says (551), and is not
    repeated when its request fails.
12. What `respObj` owns may be deleted twice by the two threads (278, 551): `heap`
    becomes "corrupt". `OnlyRacesBreakTheHeap` says that only overlapping assignments
    do that.
13. An invalid password is answered with "Exiting..." and the program goes on
    (`Arguments.cpp` 167-169), without the flags after it, `-s` included.
14. A password of 19 characters or more may be saved in a form that cannot be
    read back, and the settings after it in the file are lost with it
    (`MeterMain.cpp` 478); so may those after a delay of a million seconds or more,
    which is printed with an exponent (442).
15. `passFlag` is used without having been set (`Arguments.cpp` 244): whether the saved
    password or the default "admin" is used without `-p` is left to chance.

Noted only: the comment of `UtilityMeter::updateMeterValueRand`
("adds a random integer value ... to the current meterValue", 144-147) against its
assignment of a running value (151); `GET /status` uses a name that is not
defined (`status.js` 6); the comment "from 0-20" of `incrementMyMeterValue`
(575) against `rand() %20`; a meter whose AE is deleted while it reports goes on
being answered 4004 until it reboots (`MeterMain.c` 639), and is provisioned anew
only then; a reading that is stored while a subscribe is between its
`deleteSubscription` and its `sendSubscription` (`app.js` 146-147) is notified to nobody; a
reading whose notification arrives while the web application is down, or whose
handler is ended by a kill or an error, is lost, as the server was answered before it
was stored (`monitor.js` 32); a poll that passed the login check is answered after a
logout (`app.js` 119), with what was stored until then; with
two polls under way the answer for the date that was chosen before may come
back over the newer one until the next poll (`script.js` 101).

## 6. What is not modelled

* Power saving mode and the log of the BG96 meter: the request for PSM is not
  waited for and its status not used; the rest is output.
* Earlier versions of the BG96 meter (`MeterMainPrototype.c`,
  `MeterMain_c_libcurl.c`, `http_config.c`): not part of the program.
* The index page and its forms: it is rendered from `AE_NAMES`, and the forms call
  `/api/subscribe` and `/api/delete`. `createUsers.js` makes an empty collection for a test.
* Operations of the C++ meter's class that no program calls (`setMeterValue`,
  `resetMeterValue`, the power status): the unit test of the class covers them.
* The OM2M server itself: an external binary; modelled as far as its clients use it.
* The XSD headers under `client/lib`: code of the XSD compiler's distribution, which the
  C++ meter only compiles against. They are three quarters of the lines of
  the repository; the meter meets them through `UtilityMeter`, and what it
  could observe of them is a resource that was built or an exception.
* Build, installation and test scripts.

## 7. Plan

Written in this order, most important first: `Bg96Client` with `Cse` and
`MeterFeed`, its proofs, `Onboarding`, `WebappStore` with `ReadingLog`,
`WebappHistory`, `WebappSubscribe`, `CppMeter`, `PasswordCrypt`, `ClientConfig`, then the
compositions `ReadingPath` and `DataPage` with `WebappSession`, and the proofs of
`ReadingLog`, `CppMeter`, `WebappSubscribe` and the compositions, and last those of
`OnlyRacesForget`, `RecordIsKept`, `PromisedIsKept` and the feed of `CppMeter`. What could follow:

1. `PingSystem`: web application, server and C++ meter composed: what a ping looks
   like from the browser, and the disagreements of 11 as properties of the whole.
2. Proofs: how many readings crossing notifications can cost at most, and what a
   subscribe that overlaps with a delete leaves behind.
