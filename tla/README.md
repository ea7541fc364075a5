# CameraAlerts: verification project

CameraAlerts watches cameras and sensors and raises alerts: it mails pictures, writes videos,
sends Telegram messages, speaks, and serves its images and sensor values to other instances of
itself and to browsers. This directory holds TLA+ modules translated from its source, the TLC
configurations that check them on small instances, and theorems about eight of the modules that
hold for every value of their constants, checked by TLAPS. Paths below are relative to the
repository's root.

    tlc -workers 2 -config MCFrameBuffer.cfg MCFrameBuffer      # a model-checking run
    tlapm FrameBufferProofs.tla                                 # the proofs about a module

## 1. Inventory

### Threads

| thread | what it runs |
| --- | --- |
| `main` | reads the configuration, makes buffers, captures, clients and algorithms, starts the camera threads, then becomes the event loop |
| Qt event loop | network clients and servers, MJPEG connections, serial ports, web downloads, timers, text conditions and expressions |
| camera threads | one `loopOne` for each camera or file (`src/main/CMainApplication.cpp:61`) |
| passes | one detached `doAlgoAsync` for each frame; at most one of a camera works, the others fail to lock its mutex and drop the frame |
| mail and Telegram senders | one detached thread for each message, with a copy of the buffers |
| Telegram bot | `botLoop`, which executes commands |

State is shared without messages: the image buffers and the text buffer are singletons, frames are
shared pointers with a use counter of their own, notifiers are shared by the threads of a camera or
by all, and `mRunStatus` is read and written by everybody without a lock.

### Components

| component | state | operations | what makes it correct | module |
| --- | --- | --- | --- | --- |
| Configuration: `CXMLParser`, `CMainFunctions::parseParams` | inputs, notifiers, detectors, lists | read a token, apply options | an element means what it means in the whole document, wherever its base and section are | `Configuration` |
| Start-up, capture, camera threads: `main`, `CVideoCapture`, `CClient` | buffers, captures, clients, algorithms | make each, open, next frame | the number of a buffer is the number of its input for everyone | `Program` |
| MJPEG server: `CImageServerMJPEG`, `CClientConnectionMJPEG` | connection, request, timer | read a chunk, timer, close | a viewer gets frames of what it asked for, in order, after a header (written again for each chunk of a request that comes later) | `MjpegClient`, `Program` |
| Image buffer: `CRingBuffer`, `CMatWithTimeStampImpl` | ring, long list, identifiers, use counters, raw and JPEG images | push, clear, lock, unlock, read | the newest frames are raw, the others compressed, no counter is lost, the video of both lists is chronological and dense | `FrameBuffer`, `FrameHistory` |
| Passes: `doAlgo`, `doAlgoAsync` | mutex of a camera, copy of its ring | begin, ask a detector, alert, reply, end | an alert is missed only by a pass that was overtaken; passes never stop | `FrameBuffer`, `MotionPass` |
| Detectors: `CAbstractAlertAlgorighm` and its classes | skip counter, positive frames | `hasAlertWithSkip` | a lasting movement is noticed; a face must be seen on more than one frame | `MotionPass` |
| Notifiers: `CCommonAlert`, `CSMTPAlert`, `CTelegramAlertNotification` | times of sending, first-time flag, replies | alert, reply, forced mail | distances and numbers of messages, despite shared notifiers | `AlertSchedule` |
| Mail threads: `CSMTPAlert`, `CZipCreator` | files, archives, directories | save, pack, send, delete | complete mails, nothing left behind | `EmailSend` |
| Alert video: `CFinalVideoWriter` | last identifier written, frames after the alert | alert, reply call, writing | the alert and the frames around it, in order, not again and again | `FinalVideo` |
| Network client: `CImageReceiverWorker`, `CTCPClient` | five timers, errors, socket | eight handlers | never silent, recovers | `NetReceiver` |
| Framing: `CNetBase`, `CHashFunctions` | `mBuffer`, `mSize` | read a chunk | whole messages, delivered once | `Framing` |
| UDP: `CUDPServer`, `CUDPClient`, `CImageSenderWorker`, `CSerializer`, `CDeSerializer` | queue of senders, last identifier | request, answer, timeout, restart | each gets its own answers, no frame twice, no flood of requests | `UdpImages` |
| Text: `CTextBuffer`, `doTextConditions`, `CConditionExpression`, `CTextToSpeech` | histories, script variables, speech | line, fetch, evaluation | the history follows the sensor, an edge runs its command once | `TextAlert` |
| Telegram bot | home status, switches | commands | nothing but the running pass alerts after the switching off | `MotionPass`, `TextAlert` |
| Serial reader, web downloads, logging, encryption, database, GUI, tools, sketches | | | | not modelled (section 5) |

Interactions: the configuration gives a list of inputs; `main` walks over it several times, and
every part takes the next number of a buffer in turn. A camera thread (or a network client) pushes
a frame and starts a pass; the pass locks frames, asks detectors and calls the notifiers; these
start threads that take the newest frame of their copy and lock it again. Servers lock the newest
frame to answer a request. A sensor line or a fetched text enters the text buffer, is judged by
thresholds and expressions, and calls the same notifiers from the event loop.

The hard parts are the interleavings of passes, camera, senders and bot; five timers of one client
that restart one another; messages cut by TCP or lost, doubled and delayed by UDP; requests of
viewers that come in pieces; copies of the buffer that are older than the buffer; restarts of a
remote program whose identifiers start again; threads that use the same files; and documents whose
meaning depends on the order of their elements. `PROJECT.json` lists each hazard at its line.

## 2. Modules and their correspondence to the code

Names of variables and of constants are those of the source where there is one (`mList`,
`mRefCounter`, `mErrorNumber`); an action is named for its handler, or for what the thread does
between two points where others can interfere. `PROJECT.json`, "map", gives the lines of every
definition. A definition whose comment begins with "Mutant of" is a plausible bug of that
definition: put in its place, it breaks the property it is listed with. The `MC` modules only give
values to constants.

**FrameBuffer** (the core). A frame is its serial number. `PushBack` is one step, since
`CRingBuffer::push_back` runs under the mutex: append, evict the oldest into the long list if its
turn has come, decrease the counter of the evicted frame and of the one that leaves the
uncompressed window. A pass copies the ring (`BeginPass`), locks two or three frames one by one, reads
their gray images and unlocks them; each lock is a step of its own because the camera does not
wait. Viewers are servers and senders that hold a pointer before they lock. **FrameHistory** is the
abstract promise: a window without holes over everything recorded, and a sparse sample before it.
The refinement mapping is `History == INSTANCE FrameHistory WITH ...` in FrameBuffer.

**MotionPass**. The same passes seen from their control: the try_lock, the copy of the switch, the
turn of each detector, the counters that survive a pass, the alert that ends it. An image is a set
of pixels and a face. A detector may throw at any look, which `hasAlertWithSkip` turns into no alert. It assumes that a pass is not overtaken by the camera, FrameBuffer's subject.
The variables `lateAlerts`, `unnoticed`, `threw`, `fresh` and `faceFrames` are history only.

**AlertSchedule**. A pass calls the notifiers of its list. Deciding and sending are two steps because
notifiers have no lock; only the time of the forced mail has a mutex, taken after the decision. The
clock counts seconds, and at most `MaxStall` of them pass between the two.

**EmailSend**. What a mail thread does on the disk, one file per step, with the directory named
after the newest image only. An alert of a camera is about its buffer, one of a text pattern about
several; a pass may start an alert and a forced mail together.

**FinalVideo**. An alert brings a copy of the buffer: the pass has one for its whole work, and
`CCommonAlert::onAlert` makes one for the text handler, so copies of different age meet in the writer,
and a newer one moves `mLastImageId` past an older. Warnings and reply calls of the text handler read
the live buffer, and the camera pushes between their reads: a warning takes its newest frame
(`WriteBegin`, `src/alerts/private/CFinalVideoWriter.cpp:52`), the ring (`WriteOpen`, line 164) and the
long list (`WriteFrames`, line 186) in three steps with `video.open` in between, a reply call counts,
locks and writes, and marks (line 145). The count of frames after an alert is read and written without
the mutex (`ReplyBegin`, `ReplyCount`), so two threads may lose one; `raced` remembers what was
overtaken: a warning, a reply call, or the count. Frames carry the identifier of their source, which
`RemoteRestart` sets back to 0; `PushBack` refuses an image with the identifier of the last one
(`src/client/private/CDeSerializer.cpp:51`).

**NetReceiver**. A client over TCP with its timers counted in ticks; one handler is one step, as in
the event loop. The network misbehaves a bounded number of times and is prompt otherwise.

**Framing**. A stream of units cut anywhere into chunks; `mBuffer` and `mSize` survive restarts.

**UdpImages**. Clients and a server that share one queue of senders, over bags of datagrams. Of the
timers only the order is kept, NetReceiver has their times. A client that restarted its socket k
times hands each datagram to its worker k + 1 times, because `start` connects the slot again. When a
datagram was handed over already, the next call takes the message that is still in `mBuffer`.

**TextAlert**. Sensor lines, the history that keeps values which differ enough, thresholds,
expressions over a value and the one before it, speech, and another instance that fetches the
buffer. `Fires` is the evaluation of an expression: a name without a value is a script error, and
`evaluate(...).toBool()` makes it true. `edges`, `blind` and `fired` are history only.

**Configuration**. The reader takes one token of the document after the other and writes fields at
once. A document grows while it is read: `StartElement` takes any tag of one vocabulary,
`EndElement` closes the section or the document, `Break` is input that QXmlStreamReader refuses, or
the end of a file that was cut off. The value of an attribute is the position of the element that
gave it, so that a copied base can be told from an own value. `EndDocument` applies the options of
the command line. The operators `InputsOf`, `EntriesOf`, `NotifierEntries`, `AlertOf` and
`MoverOf` are the reference: they say what a document means as a whole, without reading it in order. A
list is described by the set of its entries (an element and a number each) and by the order they stand in
(`Precedes`; for inputs `InputPrecedes`, with the network inputs last in their section).

**MjpegClient** and **Program**. Program is `main` after the configuration. It walks over
`mInputList` once for the captures, then for the clients and algorithms, and then runs the event
loop beside one thread for each local input (`ProcessNextFrame`); files appear and disappear
(`FileChanges`). It extends MjpegClient, whose connections read its buffers: a chunk of a request is
one `ReadClient`, which goes through all its GET lines and writes one reply, as
`slotReadClient` does; the timer writes the newest frame at every interval, also one it has written
before. Buffer b of the
code is b + 1 here. `asked` and `written` are history only.

Every module has one type invariant, `TypeOK` (`MailTypeOK`, `UdpTypeOK` and `ReaderTypeOK` where one
module of proofs extends two). It is the first conjunct of one safety property of
the module (in FrameBuffer, of `MissedOnlyIfOvertaken`).

## 3. Runs

| run | module | states | what it shows |
| --- | --- | --- | --- |
| frames | MCFrameBuffer | 0.9 M | compression exactly when it should be, balanced counters, recoverable images, a chronological video, the refinement of FrameHistory |
| motion | MCMotionPass | 2.1 M | five detectors, waiting threads and the bot: a lasting movement is noticed, one frame is not two, quiet after the switching off, passes go on |
| alerts | MCAlertSchedule | 1.5 M | distances and numbers of alerts, replies and forced mails with shared notifiers |
| mail | MCEmailSend | 3.0 M | what is mailed and what is left of three threads in shared directories, for one buffer and for two |
| video | MCFinalVideo | 8.3 M | order, completeness and end of the alert video |
| video_restart | MCFinalVideo | | violation, see section 6 |
| receiver | MCNetReceiver | 87 k | never silent, recovers, timeouts lead somewhere |
| framing | MCFraming | 0.2 M | whole deliveries, once, never backwards |
| udp | MCUdpImages | 1.0 M | own answers, no frame twice, order without timeouts, no pile of requests |
| text | MCTextAlert | 1.2 M | the history follows the sensor, commands run at edges and while a name has no value, another instance judges nearly the same |
| configuration | MCConfiguration | 0.5 M | reading in order means what the document means, no sending when none is wanted, the reader ends |
| program | MCProgram | 23 k | one number for an input everywhere, the right frames in the right order for a viewer, files and viewers are served |

### Properties

- *frames*. `NewestUncompressed`: no user and no order of unlocking releases a frame the detectors
  need. `CountersBalanced`: the counter without its lockers is 1, 0 or -1 by the place of the frame.
  `OldFramesCompressed`: memory is freed, but for the first frame of a session, which is never
  aged. `FullImageRecoverable`. `MissedOnlyIfOvertaken`: a pass meets a released frame only if the
  camera pushed enough frames meanwhile. `LockKeepsFrameInRing` (a step property).
  `VideoChronological`, `RecordsHistory` (refinement).
- *motion*. `MotionNoticed`: movement in as many consecutive passes as the move detector skips is
  alerted by it or by a detector before it, unless the move detector throws. `FaceInTwoFrames`: holds as long as more positive frames
  are required than threads can wait; otherwise a queue of passes counts one frame several times.
  `QuietAfterOff`. `PassesGoOn` (liveness).
- *alerts*. `AlertsSpaced`, `ForcedSpaced`: no thread sends twice within the interval, although
  others update the same notifier between its decision and its sending; nothing is sent in the
  first seconds; a thread repeats its own alert only after the time to reply. `RepliesBounded` is
  weaker than the configured number: each further thread sharing the notifier may add one.
- *mail*. `MailsComplete`: a mail shows the names of its thread, and with at most two threads in a
  directory all images of one of its buffers at least, none of them in part; so a mail of one
  buffer is complete. A mail of two buffers may show only one when another thread removed the directory
  between them. `CleanedUp`: only a mail of several buffers, which has a directory for each and
  removes the last, leaves one behind.
- *video*. `VideoInOrder`, until a warning on the live buffer is overtaken or the source restarts (after a
  restart frames may be written again). `AtMostThrice`: the three reads of an overtaken warning show a
  frame from both lists, and the next writing once more; never again. `WindowRecorded`: the window that
  an alert asks for is in the video, except for frames that a newer copy or a reply call has passed
  over; an alert is left out only if a frame as new as its own is in the video (this is all the code
  gives when a text alert's newer copy comes first: the older pass's alert gets no frames of its own);
  and the frames after an alert are fewer than `FrameAfter` and one for each thread. An overtaken reply
  call marks a frame it has not written, and two threads that raise the count together may lose one;
  the property speaks of what comes before these.
- *receiver*. `NeverSilent` is an invariant on the timers. `Recovers`, `ScheduledRestartHappens` and
  `TimeoutsEnd` are liveness properties, for settings that are `Paced`: the error of a timeout is
  counted before the next one (2 SleepTime < TimeOut), and a scheduled restart comes
  before the errors are exhausted once more (ErrorTimeOut < TimeOut + (MaxErrors - 1) (TimeOut + 2
  SleepTime)). The code accepts other settings; section 6 says what happens then.
- *framing*. `DeliveriesWhole`: without reconnections a delivery is one message from beginning to end; a
  message that is alone on the stream is delivered once, whatever an earlier connection left.
  `NeverBackwards` (a step property).
- *udp*. `AnswersMatch` and `RequestsDoNotPileUp` hold whatever is lost, doubled or restarted.
  `NoFrameTwice`: no image twice in a row; in order only without timeouts, because a late answer after a
  repeated request does put frames out of order, and the client only logs it.
- *text*. `SavedCloseToSensor`: compared with what was saved, not with the last value, so a slow
  drift is recorded, and another instance judges a value near the current one. `CommandsMatchEdges`: an
  expression on a value and the one before it runs its command once for each rise, whatever other lines
  are evaluated in between, and, because a script error becomes true, at every evaluation before its
  sensor has two values. That a say is ignored while the engine speaks is modelled; nothing is claimed
  of the texts that are lost.
- *configuration*. After every token the fields are what the reference makes of the document read so
  far: `ListsMeanDocument` for inputs and lists, `LatestElementCounts` for the fields that the latest
  element of a name decides. `SilentWhenAsked`. `ReadingEnds` (liveness): also for a document cut off
  inside a section, whose loops do not ask for the end.
- *program*. `BuffersMatchInputs`: buffer, capture, client, algorithm and thread of one number are
  of one input. `FramesOfRequest`: also when a chunk holds two requests or a request comes while
  frames are sent. `StreamWellFormed` (a step property). `FilesGetRead` and `ViewerFollows` (liveness).

### Bounds, and why they are enough

- *frames*: a ring of 5 is longer than the window of 3 by the two positions where ageing and
  eviction differ; 9 frames fill ring and long list (2, each second frame) and evict from both;
  two viewers and a pass can hold the same frame.
- *motion*: a ring of 4, one more than the window, so that all images are replaced while a pass
  works; two waiting threads against three positive frames; skips with different periods,
  so that the turns of two detectors meet and part; three images, two of them different only in the face.
- *alerts*: intervals of one and two seconds on a clock of 6 pass the first-time skip, an alert,
  its replies and the next alert; a stall of one second lets another thread in between decision
  and sending.
- *mail*: three threads, alerts of buffer 1 and of buffers 0 and 1, alone or with a forced mail,
  two images of each buffer: directories shared by two and by three threads, and mails whose newest
  images differ.
- *video*: a ring of 2 with a long list of 2 is shorter than the window before an alert (5), so
  it reaches into the long list; two frames after an alert; six frames, one less for each fault, and one
  fault: a restart or a failure to open. A frame can then be evicted between the two lists a warning
  reads, and two copies of different age alert with frames between them.
- *video_restart*: one thread, whose video has frames with positive identifiers before the restart.
- *receiver*: three ticks of timeout against a sleep of one, three errors, five faults: enough for
  two restarts in a row and the clearing of the buffer.
- *framing*: five messages of four different lengths and two reconnections.
- *udp*: two clients, two images of each camera, three faults. A fault is a timeout, a doubled datagram or
  a restart of the server; losses are free. Two timeouts restart a client, the third is left for the
  new connection. Four faults give 7 M states and the same result. Since timeouts are bounded, a
  behaviour ends when everything is lost: deadlock is not checked.
- *text*: four values around the two thresholds and the distance of 2, five readings of two
  sensors, a history of two entries.
- *configuration*: what affects one another is read together: inputs, alerts, detectors, or commands
  and lists. Five start tags allow a section between two bases and an element in it and after it;
  six give the same result.
- *program*: a file, a camera and two network inputs; one viewer that connects twice and sends three
  chunks (a good or bad buffer or image type, the page, no login, two requests at once); two frames of
  each input. Viewers share nothing but the buffers they read, two give the same result in minutes.

Deadlock is not checked in *mail* (all threads end), *framing* (all messages are sent),
*configuration* (the document has been read) and *udp* (above). It is checked everywhere else.

### Fairness

Safety properties assume none. *receiver*: each timer handler, the reading and writing of the socket, the
server's answers, successful connections and the clock are weakly fair. The Qt event loop delivers the events it
has; the clock cannot stop; the network's loss is the bounded fault, so after the faults it
connects and answers. *motion*: the camera, the threads that were started and the steps of the pass
are weakly fair, because the operating system runs a thread that can run; nothing is assumed of the
bot. `PassesGoOn` assumes that the switch stays on, not that any particular thread gets the mutex.
*program*: `main`, each camera thread and the timer of each connection are weakly fair, for the same
reasons; nothing is assumed of files, remote cameras and viewers. *configuration*: one thread, which
goes on.

## 4. Proofs

TLC checks the instances above. The theorems below hold for every value of the constants that
satisfies the named assumptions; the bounds (`MaxFrames`, `MaxTime`, `MaxReconnects`, ...) are any
natural numbers.

| module | theorem | states |
| --- | --- | --- |
| FrameBufferProofs | `InductiveInvariant` | `Spec => []IInv` |
| | `TypeCorrect` | `Spec => []TypeOK` |
| | `NewestAreUncompressed` | `Spec => []NewestUncompressed` |
| | `CountersStayBalanced` | `Spec => []CountersBalanced` |
| | `OldFramesAreCompressed` | `Spec => []OldFramesCompressed` |
| | `ImagesStayRecoverable` | `Spec => []FullImageRecoverable` |
| | `LocksAreKept` | `Spec => LockKeepsFrameInRing` |
| | `OnlyOvertakenMiss` | `Spec => []MissedOnlyIfOvertaken` |
| | `VideoStaysChronological` | `Spec => []VideoChronological` |
| | `BufferRecordsHistory` | `Spec => RecordsHistory`: FrameBuffer implements FrameHistory |
| AlertProofs | `RepliesAreBounded` | `Spec => []RepliesBounded` |
| | `AlertsAreSpaced` | `Spec => AlertsSpaced` |
| | `ForcedMailsSpaced` | `Spec => ForcedSpaced` |
| | `NothingLeft` | `MailSpec => []CleanedUp` |
| | `MailsSentWhole` | `MailSpec => []MailsComplete` |
| ProgramProofs | `BuffersMatch` | `Spec => []BuffersMatchInputs` |
| | `FramesRequested` | `Spec => []FramesOfRequest` |
| | `StreamsWellFormed` | `Spec => StreamWellFormed` |
| | `LatestElement` | `ReaderSpec => []LatestElementCounts` |
| | `NothingSent` | `ReaderSpec => []SilentWhenAsked` |
| | `ListsMeant` | `ReaderSpec => []ListsMeanDocument` |
| TextAlertProofs | `SavedStaysClose` | `Spec => []SavedCloseToSensor` |
| | `CommandsRunForEdges` | `Spec => []CommandsMatchEdges` |
| NetReceiverProofs | `ClientStaysAwake` | `Spec => []NeverSilent` |
| MotionPassProofs | `OneAlertAfterOff` | `Spec => []QuietAfterOff` |
| | `MovementIsNoticed` | `Spec => []MotionNoticed` |
| | `FaceSeenTwice` | `Spec => FaceInTwoFrames` |
| NetworkProofs | `ImagesNeverBackwards` | `Spec => NeverBackwards` |
| | `MessagesDeliveredWhole` | `Spec => []DeliveriesWhole` |
| | `OnlyWhatWasAsked` | `UdpSpec => []AnswersMatch` |
| | `NewImagesOnly` | `UdpSpec => []NoFrameTwice` |
| | `NoPileOfRequests` | `UdpSpec => []RequestsDoNotPileUp` |
| FinalVideoProofs | `AlwaysInOrder` | `Spec => []VideoInOrder` |
| | `NeverFourTimes` | `Spec => []AtMostThrice` |
| | `AlwaysRecorded` | `Spec => WindowRecorded`, for a ring of more than one frame |

Hardly any of these properties is inductive. Each module has an inductive invariant; its proof
is one lemma for the initial state and one for each action or group of actions, and the theorems follow from it.

**FrameBufferProofs** (every size of ring, long list and window, every depth of locking, every finite
set of viewers: `SizesAssumption`, `ViewersAssumption`). That a newest frame is raw depends on its
counter, which depends on what lockers and pushes did to it before, which depends on where it was
in the ring. `IInv` adds to the types:

- `RingConsecutive`: the ring holds consecutive serial numbers that end at the last pushed. So the
  place of a frame in the ring is determined by its number, and the frame that ages at a push is
  never the one evicted, nor one that has aged before;
- `PointersKnown`: passes and viewers point to frames that were pushed, and the long list is older
  than the ring. So a new frame starts without users;
- `SharesKnown`: the counter of a frame less its lockers is 1 in the uncompressed window, 0 behind
  it, 0 or 1 for the oldest of the ring, and at most 0 in the long list;
- `RawCounted`: a frame that is raw has a positive counter, and the frames of the window are raw.

Lockers of a frame are counted with a cardinality; lemmas say how each locking or unlocking step
changes it, and how each of the steps changes the shares. `Clear` is the delicate case: it
forgets frames without touching their counters, so `OldFramesCompressed` speaks of frames that are
still in a list. `MissedOnlyIfOvertaken` needs more (`PassInv`): a ring that can hold the window
never evicts a frame of it, so that the newest frames keep their share and image also over a clear
(`NewestKept`); the copy of a pass is consecutive (`SnapConsecutive`); and a pass reads only its window
(`ReadsWindow`).

The same module shows that FrameBuffer implements FrameHistory. `HInv` adds to `IInv` that the long list is ordered and sized, and that its
neighbours, and its last frame and the ring, are no further apart than the sampling period: the
distance to the ring is one more than the remainder of `mLongId`, the count that decides whose turn it
is. From it each step of FrameBuffer is shown to be a step of FrameHistory or to leave it alone.

**AlertProofs** extends both modules about the notifiers; the names of EmailSend's specification
(`MailSpec`, `MailInit`, `MailTypeOK`, ...) are different from AlertSchedule's for that.

*AlertSchedule* (any finite set of threads, any lists of notifiers, any intervals with
`MinIntervalRepeatSend + MaxStall <= ForceSendInterval`, `ConfigAssumption`: the code sets the time of
the forced mail back by the former, and a thread between decision and sending must still see it
as recent). `Thread` says what a thread may rely on between its decision and its sending, `Known` that
the shared times are never older than what any thread has sent, but for the holder of the mutex,
`Counted` that the replies sent and decided together respect the bound.

*EmailSend* (any finite set of mail threads, any lists of buffers and kinds of passes,
`BuffersAssumption`). `MailInv` says where each thread is in its job (`Place`), that it has saved each
image it has passed at most once, in the directory of its buffer (`Saved`), and that every file is
owned by a thread that has not deleted it yet, and every directory by one that will try to remove it
(`Owned`). The last is what `CleanedUp` rests on: a thread whose directory is not empty when it comes to
remove it leaves it to the owner of what is in it. For `MailsComplete`, `WholeInv` adds the fate of a
mail with at most one other thread in its directories (`Fate`): what was saved is all of some buffers
and the part of the present one that was passed (`Whole`), or a file is missing that nobody will save
again, because the other thread is past its saving (`Doomed`), or was missing when its turn came
(`Missed`); the last two keep `ZipFile` from sending the mail. A directory that is gone while the thread saves
its images means that the other thread is done, so that it stays away until the buffer has been passed, and either
nothing of this buffer was saved or what was saved is missing. The threads that share a directory
never get fewer (`SharingGrows`), and what another thread does leaves the fate as it is
(`Undisturbed`).

**ProgramProofs**, Program (every list of inputs with the local ones first, any viewers and chunks). `Counted`
relates the number of buffers, captures and clients to the entry that `main` looks at; `Numbered` says
that whoever pushes into a buffer has the entry of its number; `Served` that a connection with a running
timer has been accepted, that its fields are those of its last request, and that the frame it has is
of that buffer and not newer than its newest.

**ProgramProofs**, Configuration (any elements with any attributes, documents of any length, any command
lines: `ElementsAssumption`). The reader forgets what it has read, the reference looks at the whole
document, so `ReaderInv` relates the two:

- `Sectioned`: an element stands in the section that was open, and the section that is open reaches to
  the end of what was read;
- `BaseHolds`: the local `baseAlertConfig` is what the latest BaseAlert gave, and inside a section that
  element is before the section. So a notifier that is read now takes the base its section has in the
  reference;
- `Shaped`: every field is of its kind, which the options rely on when they clear parts of one.

`Writes` says what one element changes, by its name and place; `LatestKept`, `ValuesKept` and
`InheritedKept` what the reference makes of a document with one more element. That a set of positions
has a latest one (`LatestIn`) is shown with the theorem about the well-founded `<` again.

The lists have an invariant of their own, `ListsInv`. Besides the lists it relates `inputUrlList`, the network
inputs that wait for the end of their section, to the elements of the section that is open
(`UrlPending`), the local `configBase` to the latest BaseInput (`InputBaseHolds`), and every element
behind the start of the open section to it (`SectionHolds`), from which follows that what waits is put
behind everything else of its section and of those before (`InputsPlaced`). `Appends` says what one
element adds; `Concatenated`, `ListsGrow` and `InputsGrow` what joining two lists does to their entries
and order; `InputsKept` and `EntriesKept` that an entry already read means the same in a longer document.

**TextAlertProofs**. `Followed`: the last entry of a history and the variables of the script know
the newest value, and the script has a former value only of what it has seen; `Judged`: what was fetched was
close when it was fetched; with `Followed` the commands match the edges line by line. **NetReceiverProofs**
(positive intervals): `Watched`, the periodic timer runs or nothing was asked and a timer of the reconnection
runs. **MotionPassProofs** (any list of different detectors and any skips): `Last`, an alert after
the switching off belongs to the pass that asks no more detectors; `Covered`, the passes with movement that went
unnoticed are those the move detector has skipped since it looked.
`Looks`: a frame that counted one face is looked at again only by threads that were waiting when it
was new, so its looks, made and to come, are no more than the threads.

**NetworkProofs**, Framing (any messages with a header and a payload, any chunks, any reconnections). `Ahead`: the
stream is ordered and newer than the first unit of `mBuffer`, which is not older than the last image. For
`DeliveriesWhole`, `WholeInv` adds what the receiver cannot see but relies on: a message whose first
unit is on its way is on its way as a whole (`MessagesWhole`); while `mSize` waits for a message, its
payload begins `mBuffer` continued by the stream (`Started`: between two reads the boundary may lie
anywhere, so it is stated of both together, `Pending`); and of a message that is alone an end is on its
way, and what has gone is in `mBuffer` (`AloneStream`, `Expected`).

**NetworkProofs**, UdpImages (any finite set of buffers of the server, any clients, any number of faults:
`UdpAssumption`). `UdpInv` is the types, among them that the queue of the worker is empty between
events, and

- `Answered`: every answer on its way is for what its client wants, and its image has an identifier;
- `Reopened`: a client reopens its socket only after a timeout;
- `Pushed`: the last image in a client's buffer is the last one of `mLastId`. So an answer that is handed
  over again, by the network or by the slots that were connected again, is refused
  (`ClientReadsFacts`).

That images come in order needs `ChainInv`: a client without timeouts, as long as nothing is
duplicated and the server is not restarted, has one request, one answer or one running timer that will
send a request (`OneChain`), and the answer is between its last image and the newest of the camera
(`Ordered`). Three lemmas say what adding to and taking from a bag of datagrams does; what a step
leaves alone of a client is one lemma (`ChainKept`).

`RequestsDoNotPileUp` counts copies: those of the answers to a client are a finite set of pairs
(`ComingTo`), so that the theorems about cardinalities apply where a sum over a bag would need induction.
It rests on `PileInv`: a client restarts its connection only after two timeouts in a row at least, so
twice its restarts and the errors it counts are no more than its timeouts (`Patient`; this is why
`UdpAssumption` wants `MaxNetworkErrorNumber` greater than one), and no request on its way is to
a socket the client has not opened yet, so the new socket starts with no requests.

**FinalVideoProofs** (any size of ring, long list and windows, none, one or both threads, any number of
pushes, restarts and failures). Which frames a writing adds depends on `mLastImageId`, which is compared
with identifiers the source gave, and on two lists read at different times. `IInv` is the types,
`Filled` (who works on a buffer found it full; who writes has the mutex), and, until the source
restarts, `Session`:

- `Numbered`: identifiers are serial numbers, the ring is consecutive and the long list ordered and older
  than the ring, in the live buffer and in every copy, whatever its age;
- `Writing`: a thread about to write saw a frame newer than `mLastImageId`, which nobody else moves
  meanwhile, and the list it has read is consecutive and not older than that frame (`HeldRun`);
- `Chronological`, until a warning is overtaken: the video ascends and ends at or before `Marked`, the last
  image written (what ReplyMark will store, while a thread is between writing and storing it);
- `Repeated`, also afterwards: nothing four times; what is there three times is at or before `Marked`, and
  what is there twice is so or was evicted from the ring. What is shown twice and not marked is then only in
  the long list, where the next writing finds it once, and what was shown once may come from both
  lists; either writing saw a newer frame, and marks it.

Lemmas say that `Before`, the window before an alert, is ascending and lies between `mLastImageId` and
the newest frame where its two parts are of one age (`BetweenJoined`), and how often a number is in what
is joined to a video (`Occ`, `OccJoined`, `OccBetween`). The frames of a list that are newer than
`mLastImageId` are written by their ascending positions (`Ascending`); that a finite set of numbers can
be enumerated in this way (`AscendingExists`) is shown by a smallest counterexample: the theorem that
`<` is well-founded on numbers names no operator parameter, unlike the induction theorems of the library.

`AlwaysRecorded` adds the invariant `Recorded`:

- `Counted`, until two threads raise the count together: the frames written after the last alert, and those
  of threads that are counted and wait for the mutex (`Waiting`), are fewer than the calls counted so
  far and the threads. An alert starts the count again while any other thread may have been counted
  before;
- `Noted`, until the source restarts, a file fails or a reply call is overtaken: the last image
  written, or a newer one, is in the video of an open file (`Reached`), and who counts a frame has a file
  open or about to be opened (`Alerted`), so that the frame it marks is written.

A frame of the window is then newer than `mLastImageId`, and `Before` covers all of those of the list that was
read (`BeforeCovers`: an ascending enumeration of a finite set leaves out nothing, by counting), or it is not,
and the last image written, or a newer one, is what the property allows. An alert that is left out is not
newer than that (`AlertShown`). The hypothesis `RingSize > 1` is needed. With a ring of one frame
(BufferSize = 1, which the parser accepts; the default is 5, `src/common/private/CXMLParser.cpp:352`) an
alert on the frame with identifier 0 starts the count without opening a file; the reply call for frame 1
then writes nothing but marks it, and an alert on frame 1 is left out.

Only model-checked: all liveness properties (`Recovers`, `ScheduledRestartHappens`, `TimeoutsEnd`,
`PassesGoOn`, `ReadingEnds`, `FilesGetRead`, `ViewerFollows`). Out of the prover's reach are
liveness under fairness, ENABLED, and what a recursively defined function computes for every input. Every
invariant and every action property of the runs that TLC finds true is stated by a theorem. No module uses a RECURSIVE operator.

## 5. Not modelled

- Serial port reader (`src/serial/private/CSerialPortReader.cpp`): lines are inputs of TextAlert. The
  handler of an error only closes the port (line 64); `handleTimeout` opens it again, 5 s after the last
  reading (lines 53-59), and each opening connects the signals once more (lines 15-17). Whether closing in
  the handler recurses depends on the signals QSerialPort emits meanwhile, which this source does not
  determine (line 63 says "crash here").
- The alert video: the picture of the mask that may follow the alert (`mIsWriteMaskToFinalVideo`),
  exceptions of the codec in the middle of a writing, and several paths or buffers of one writer.
- An exception of the face detector, whose own `hasAlertWithSkip` has no catch: it ends the program.
- Web downloads and external commands: one call each. Database: inserts that nothing reads back.
- Logging, clocks, printers, memory statistics: output only. The options of the debug windows.
- Encryption: stateless per call; payloads are opaque. A failing encryption of an answer leaves the sender in
  the UDP queue; the models encrypt without failure.
- Configuration: the parsing of single values and addresses.
- Image processing: OpenCV is abstracted to sets of pixels (MotionPass) or left out; the background
  subtractor is modelled as it is, never alerting (section 6).
- Text and masks drawn into frames: drawing brings back matrices of compressed frames outside the
  use counter, which FrameBuffer does not show.
- SMTP, Telegram API, SQL, HTTP: external, one call each. The video attached to a mail. The page of the MJPEG
  server and its sockets after they are closed (they are never deleted).
- Data races on containers (`mFinalVideoMap`) and, but for the count of frames after an alert (FinalVideo), on
  plain fields: the models read and write a field in one step.
- The loop without servers (`loop`, another build). The desktop GUI, tools, test programs and
  Arduino sketches: separate programs.

## 6. Disagreements between the code and what is said of it

Shown by the run *video_restart*, whose property TLC refutes: the identifier of the last frame written
is never set back (`src/alerts/private/CFinalVideoWriter.cpp:53`), so after a restart of the remote
program its alerts are not saved until its identifiers pass the old ones, against `src/README.md:6` and 7.
The trace writes a video whose last frame has a positive identifier, restarts the source, fills the
ring with frames of the new count, and leaves out an alert on them. The client notices the restart and
only logs it (`src/client/private/CImageReceiverWorker.cpp:64`).

Seen while modelling, without a run:

**Network**

- `timerTimeout` starts the single-shot timer that counts the error anew each time
  (`src/client/private/CImageReceiverWorker.cpp:205`). When twice the sleep time is not less than the
  timeout, the count never grows and a silent server is never given up, against
  `src/Net/CNetValues.hpp:17`; `Paced` excludes this;
- the errors that restart the connection keep the old buffer until the eleventh time
  (`CImageReceiverWorker.cpp:162`), `CNetValues.hpp:17` says that it is cleared;
- a reader of texts is answered with an error while camera 0 has no image
  (`src/ImageServer/private/CSerializer.cpp:84`); an answer too large for a datagram is dropped
  without telling the client (`src/Net/private/CUDPNetObject.cpp:44`); a request that cannot be
  loaded is answered with uninitialised fields (`src/ImageServer/private/CImageSenderWorker.cpp:35`);
- a viewer without login is told so and disconnected, but the handler of its request goes on, and the closed
  sockets of viewers are never deleted (`src/MJPEGServer/private/CClientConnectionMJPEG.cpp`);
- a second instance judges the value saved last instead of the current one
  (`src/common/private/CMainFunctions.cpp:287`).

**Alerts**

- the alert and the forced mail of the same pass work on the same files
  (`src/alerts/private/CSMTPAlert.cpp:253`); the first to finish deletes them and the other may not be
  mailed, against `src/README.md:8`;
- a mail of several buffers leaves its other directories behind (`CSMTPAlert.cpp:161`), and may show only one of
  its buffers when another thread removed the directory;
- mails of a camera index its images by position in the list instead of the buffer's number
  (`CSMTPAlert.cpp:236`), and lock the newest frame without asking whether there is one (line 350);
- frames of the long list that the window before an alert reaches are not all written
  (`src/alerts/private/CFinalVideoWriter.cpp:189`, against its comment at line 185 and `src/README.md:11`);
- the age of the alert flag is computed with its operands reversed, so that it never expires
  (`src/Image/private/CImageBuffer.cpp:146`);
- an overtaken reply call of the text handler marks a frame it has not written
  (`CFinalVideoWriter.cpp:145`), and a text alert's newer copy leaves an older pass's alert without frames;
- a script error in an expression becomes true: `toBool()` is applied before the error is asked for
  (`src/conditions/private/CConditionExpression.cpp:96`), so the warning "error in expression" at line 100
  is never logged, and a condition that names a value not yet read runs its command at every line;
- the background subtractor compares its empty average with the image before it computes one, and never alerts;
- the first exception ends the Telegram bot (`src/alerts/private/CTelegramAlertNotification.cpp:308`).

**Start-up**

- a camera that has closed is never opened again, the condition is inverted
  (`src/Image/videoInput/private/CVideoCapture.cpp:66`);
- without a local input `buffers[0].join()` reads an empty vector (`src/main/CMainApplication.cpp:184`);
- the `TimeOut` of a network input is replaced by that of the connection
  (`src/client/private/CClient.cpp:22`).

**Configuration** (`src/common/private/CXMLParser.cpp`)

- `src/configExample.xml` has CameraInput, Telegram, FinalVideo, AlertSound and smtp at top level, where the
  reader ignores them: it looks for them inside Input and CommonAlert;
- two Input sections put local inputs behind network inputs (lines 849, 941), which breaks the numbering that
  Program relies on (`InputsAssumption`);
- AlertReplyCountCoef is written into `mAlertMinIntervalRepeatSendCoef` and overwritten (lines 805, 806);
- fields of the base are indeterminate when there is no BaseInput, BaseAlert or moveDetectBase; smtp
  does not override the base with its own alert attributes;
- the options debugMode and noSend dereference the notifiers of a document that has none (lines 1057 to 1067).

## 7. Plan

Done, in this order: FrameBuffer with FrameHistory, AlertSchedule, NetReceiver, FinalVideo, TextAlert,
Framing, EmailSend, MotionPass, UdpImages, Configuration, MjpegClient, Program; the proofs of
FrameBuffer, of its refinement of FrameHistory, and of AlertSchedule, EmailSend, Program, TextAlert,
NetReceiver, MotionPass, Framing, UdpImages, FinalVideo and Configuration.

Left:

1. `SerialLines`: lines cut into pieces by the port, composed with TextAlert; web downloads as a
   second source.
2. The video attached to a mail (EmailSend), which another thread may still be writing.
