# WindowCaster: TLA+ models, checks and proofs

WindowCaster shows pictures and video on a window of another computer. A Rust
client connects to a C++ server over TCP and sends protobuf messages; the
server lists its desktop's windows, or draws a picture it was sent on one of
them. This directory models the server, the clients and the pixels they
exchange in TLA+, model-checks the models with TLC and proves the properties
with TLAPS. Source paths are relative to the repository (`src/Server/...` is
`Server/...` in it).

## 1. Inventory

| component | state | operations | interacts with |
|---|---|---|---|
| Framing (`client/src/network.rs`, `Server/network_server.cpp`) | the listener's `pending` | write a length prefix and a body; cut messages out of `pending` | client and listener, over TCP |
| NetworkServer (`Server/network_server.cpp`) | `running`, `serverSocket`, `clientSocket`, `listenThread`; locals `newClient`, `pending` | `Start`, `ListenThread`, `SendMessage`, `Stop` (also from the destructor), `Cleanup` | called by main; calls the message handler; Winsock |
| main (`Server/Server.cpp` 166-201) | `gSignalStatus` | start, wait for Ctrl+C, stop, shut protobuf down | NetworkServer |
| WindowCasterServer (`Server/Server.cpp` 22-164) | owns the three parts below it | `HandleMessage`, `HandleGetWindowList`, `HandleRenderCommand`, `HandleStopRender`, `ValidateAndInitialize` | called on the listener thread; calls WindowManager, Renderer, `SendMessage` |
| WindowManager (`Server/window_manager.cpp`) | `windowList` | `EnumerateWindows`, `EnumWindowsProc`, `IsWindowValid` | the desktop, which changes under it |
| Renderer (`Server/renderer.cpp`) | `targetWindow`, `windowDC`, `memoryDC`, `bitmap`, `currentWidth`, `currentHeight` | `Initialize`, `CreateCompatibleBitmap`, `RenderImageFrame`, `Clear`, `Cleanup` | the desktop and GDI |
| client NetworkClient (`client/src/network.rs`) | `stream` | `connect` (5 s timeout), `send_message`, `receive_message` (no timeout) | server |
| client commands (`client/src/main.rs`) | how far the command has got | list and image: one request and its reply | NetworkClient |
| client VideoRenderer (`client/src/video.rs`) | the packets still in the file, the frames still in the decoder | a request and a reply per frame, then an empty last frame whose reply is not read | NetworkClient, FFmpeg |
| pictures (`client/src/proto.rs`, `client/src/video.rs`, `Server/renderer.cpp`) | the bytes of a picture | lay rows and colours out; read them with `SetDIBits` | client and Renderer |
| command line and window list of the client (`cli.rs`, `window.rs`) | none | parse arguments, filter and print | |
| generated protobuf code, vendored protobuf and abseil, build files | | | not modelled |

There are no tests. What is hard in this program:

- **two threads without a lock**: main's `Stop` and the listener read and write
  `running`, `serverSocket` and `clientSocket`, and both close the client's
  socket. The project file builds with optimisation disabled for x64, so an
  access is a single load or store, but every order of them is possible;
- **blocking calls**: `accept` and `recv` return only because `Stop` closes the
  sockets they block on, and `join` waits for them;
- **a byte stream cut anywhere**, by clients that die at any moment, with a
  buffer that is carried from one `recv` to the next;
- **replies sent on a member** instead of on the connection the request came
  from, in two `send` calls, and **replies that name no request**: a client
  takes the next frame on its stream for the answer to what it asked last;
- **no timeout after connecting**: a client waits for its reply as long as the
  server serves somebody else, and each side could wait for the other;
- **a request nobody waits for**: the video client exits without reading the
  last reply, which resets its connection while the server still works;
- **a desktop that changes between any two Win32 calls**, and GDI objects that
  must be given back whatever fails;
- **rows of pixels of three different lengths**: packed by the image client,
  padded by FFmpeg, and aligned to four bytes by GDI.

What makes each component correct is said by the properties in section 4. The
hazards, line by line, are in `PROJECT.json`.

## 2. Modules

| module | what it is |
|---|---|
| `Framing` | the length prefix and the parse loop's tests and cuts, as operators |
| `NetworkServer` | the two threads, the sockets, and clients that send well-formed messages at any pace and hang up or die at any moment; the properties and the inductive invariants; extends `Framing` |
| `SerialService` | abstract: what the server promises: one client at a time, its requests performed once each and in order, nothing after the service is down |
| `Client` | the client program, any number of times, against `NetworkServer`, which it extends |
| `RemoteCalls` | abstract: what a client program may believe of its calls |
| `Desktop` | external: windows that other processes change, GDI objects, what is drawn |
| `WindowManager` | `IsWindowValid` and `EnumerateWindows`; extends `Desktop` |
| `Renderer` | `Initialize`, `RenderImageFrame`, `Clear`, `Cleanup`; extends `Desktop` |
| `WindowCasterServer` | the message dispatcher, composed of the three modules above; the properties and the inductive invariants |
| `DrawingService` | abstract: what the handler promises: one request at a time, drawn at most once and on the window it names, answered once and truthfully |
| `Pixels` | where a picture's colours are in what the client sends, and where `SetDIBits` looks for them |
| `MCNetworkServer`, `MCClient`, `MCWindowCasterServer`, `MCPixels` | constants for TLC |
| `FramingProofs` | arithmetic of the prefix, what the parse loop cuts off, and which bodies its size test can bear |
| `NetworkServerProofs` | the control invariant `IInv` and the properties it implies |
| `StreamProofs` | the stream invariant `StreamInv` and what follows from it: `FramesIntact`, `TypeOK`, and what the listener leaves behind when it waits, when its client is gone and while `Stop` joins it |
| `RepliesProofs` | the reply invariant `RepliesInv` and the properties it implies |
| `ServiceProofs` | `NetworkServer` implements `SerialService` |
| `ClientProofs` | the composition is a run of the server; `CallInv`; a client reads its own replies; no mutual wait; a last frame that nobody waits for survives its client; commands get nearer to their end; clients and server implement `RemoteCalls` |
| `WindowCasterServerProofs` | the invariants `RequestInv` and `AnswerInv`, and the properties they imply; a request gets nearer to its answer; the handler implements `DrawingService` |
| `PixelsProofs` | what `SetDIBits` has copied, for every size and every alignment |

## 3. How the model corresponds to the code

**Framing.** A byte is a number below `Base` (256 in the program, 2 for TLC:
four prefix bytes of two values each make `uint32_t` wrap at 16). `Complete`
keeps the `uint32_t` sum `4 + msgLen` of the size test. The assumption `Fits`
bounds a body so that this sum does not wrap; protobuf refuses to build a
message of 2^31 bytes, so every message of a client of this repository fits.
`FitsIsExact` says that no weaker assumption would do.

**NetworkServer.** One action per shared-memory access or blocking call:

| listener (`ListenThread`) | main (`main`, `Start`, `Stop`) |
|---|---|
| `WhileRunning` 102 | `Start`, `StartThreadFails`, `StartFails` 25-74 |
| `AcceptClient`, `AcceptFails` 106-112 | `Serve` (Server.cpp 188-192) |
| `AssignClient` 115-118 | `StopRunning` 77 |
| `InnerWhile` 122 | `StopServerSocket` 79-82 |
| `RecvBytes`, `RecvEnds` 123-164 | `StopCheckClient`, `StopLoadClient`, `StopCloseClient`, `StopResetClient` 84-87 |
| `ParseMessage`, `ParseWaits` 129-154 | `StopJoin` 89-91 |
| `HandleMessage` (Server.cpp 56-84) | `StopCleanup` 93 |
| `SendPrefix`, `SendBody` 173-198 | `ShutdownProtobuf` (Server.cpp 193) |
| `CloseClient`, `ForgetClient` 167-169 | |

`lpc` and `mpc` are the two threads' program counters. Clients and Winsock are
the environment: connections come, write a prefix and a body in two steps,
hang up or are reset at any moment; a listening socket that is closed resets
its backlog. The history variables `sent`, `accepted`, `handled` and `out`
record what the properties speak about; no guard of the program reads them, except
`handled`, which is also how the model names the message being handled, and
`out`, which in `Client` is what there is to be read.
Handles are not reused by the model: `StopClosesItsClient` is the property that
makes this harmless, because it says that no handle can be reused between the
moment `Stop` reads it and the moment `Stop` closes it.

Assumptions on the environment: `accept` returns connections in order and fails
for a reset one or a closed listening socket; `send` on a blocking socket takes
everything or fails; `closesocket` unblocks a `recv` on the same socket, and
closing `INVALID_SOCKET` or a closed socket does nothing; `WSACleanup` without a
matching `WSAStartup` fails without effect. The handler always returns.

**Client.** `NetworkServer` with every connection owned by a client process.
The environment's actions become guarded steps of that process, and `CastNext`
is the server's threads, the clients, and what a client does not decide. A
client runs one command; `cpc` is its program counter:

| action | code |
|---|---|
| `ConnectClient` | `NetworkClient::connect`, network.rs 24-36 |
| `RunCommand` | `match cli.command`, main.rs 30-93 |
| `GiveUp` | no connection within five seconds; every `?` between two messages: main.rs 62-68, video.rs 24-78 |
| `DecodePacket`, `ReceiveFrame`, `SendFinalFrame` | the loops over packets and frames, video.rs 75-92, and 114-122 |
| `SendMessagePrefix`, `SendMessageBody` | the two `write_all` of `send_message`, network.rs 38-52 |
| `ReceiveMessage` | the two `read_exact` of `receive_message`, network.rs 54-69 |
| `ReturnOk`, `Exit` | the end of main, main.rs 93-103, and the drop of `stream` |
| `Kill`, `LateReply`, `NetworkFails` | external |

`asked` counts the messages whose prefix the socket took, `got` the parts of
replies read; `packets` and `held` are the file and the decoder, which gives a
frame back when it chooses to. When the server has closed the connection, or it
is reset, a write may succeed into the socket's buffer or fail, and a read first
finds what the server had sent, unless the reset has discarded it. A client that
ends with replies unread resets its connection (`CloseStream`); one whose reply
was still on its way has it reset when that arrives (`LateReply`).

A `connect` that times out is `GiveUp` at `connect`, which leaves nothing with
the server. In the code the connection may be in the backlog by then. In the
model that is a client that connects and gives up, or is killed, before its
first message (`GiveUp` at `run`, `Kill`): what the server finds is the same.

**WindowCasterServer.** One action per Win32 call whose outcome depends on the
desktop or that changes it, and one per step of a handler between them; the
other processes move between any two of these.

| dispatcher (`Server.cpp`) | `WindowManager` | `Renderer` |
|---|---|---|
| `Receive` 56-78 | `CallIsWindowValid`, `IsWindowValid` 28-51 | `CallInitialize`, `InitializeChecks` 36-39 |
| `SendWindowList` 86-104 | `CallEnumerateWindows`, `NextWindow`, `EndEnumeration` 9-13 | `InitializeCleansUp` 41-42 with `Cleanup` 183-202 |
| `Validate`, `InitializeFailed` 42-54 | `EnumWindowsProc` 53-75 | `InitializeGetsDC`, `InitializeCreatesDC` 44-58 |
| `Dispatch`, `FinishRender` 106-145 | | `InitializeAttaches`, `InitializeRestores`, `InitializeRaises`, `InitializeLowers`, `InitializeDetaches` 60-85 |
| `Dispatch`, `FinishStop` 147-158 | | `RenderFrameCreatesBitmap` 88-128, `RenderFrameSetsBits` 130-142, `RenderFrameBlts` 144-168 |
| `Destroyed` (`renderer.cpp` 26-33) | | `Clear` 175-181 |

`pc`, `wpc` and `rpc` say where the three are; a call stores its arguments
(`hwnd`, `param`, `frame`) and its result is the value of `wpc` or `rpc` it ends
with. A picture is a value of its own for each request; `Garbage` is what
SetDIBits reads when nothing was sent. A window is the set of conditions that
hold of it. `changed` and `failed` are history that only properties read: what
other processes changed, and whether a GDI call failed, since the request came.
`NetworkServer` and this module meet at `NetworkServer!HandleMessage`: there a
request is handled in one step among the listener's others, here the listener
is in `HandleMessage` and the network is out of sight.

Assumptions on Win32: any GDI call may fail; a bitmap deleted while selected
goes with its memory DC at the latest (Windows defers the deletion; the
documentation of `DeleteObject` only says that it returns zero, in which case
`NothingLost` would fail after every picture); the system takes back the DCs of a
window that is destroyed, and StretchBlt on such a DC fails or draws nothing;
`SetWindowPos` succeeds on every window that exists; `ReleaseDC` from another
thread than `GetDC`'s may do nothing; `SetDIBits` accepts a selected bitmap or
fails; a window shows what is drawn on it while it is visible and restored. The
system does not give a destroyed window's handle to a new one, and no window is
created: a new one is to a running request as one that was there.

**Pixels.** A byte the client sends is named after the colour of the pixel it
holds. The client's rows are 3w bytes for an image (`to_rgb8().into_raw()`,
proto.rs 19-30) and padded to `Align` pixels for a frame (`data(0).to_vec()`,
video.rs 84; FFmpeg's allocator pads to 32 pixels, external). The final frame of a video
(`kind = "end"`) has a size and no data (video.rs 116-122; `DataRows`). `CopyRow` is
SetDIBits copying one row as `BITMAPINFO` asks (renderer.cpp 130-142): top-down,
from an offset that is a multiple of four bytes, blue before green before red.
A size of zero is left out: such a picture has no pixel to place.

## 4. Properties and runs

| run | bounds | what it shows |
|---|---|---|
| `stop` | 2 connections, 2 messages in all (empty or one byte) | `Stop` against the listener at every pair of steps. `OneClient`: one connection at a time. `StopClosesItsClient`: the handle `Stop` closes cannot have become another connection's. `StopIsClean`: after `join`, no socket is open, wherever `Stop` hit the listener. `LibrariesOutliveListener`: Winsock and protobuf are only shut down without a listener, and Winsock's count is balanced even after failed starts and two stops. `ListenerAlive`: no failing `accept` ends the thread. `StopUnblocks`: when `Stop` joins, neither blocking call of the listener can hold it. `ListenerNearer`: from then on each of its steps brings it nearer to its end. `ImplementsService`: all of it is a run of `SerialService`. `StopTerminates`: after Ctrl+C the program exits. `MessagesHandled`: bytes that arrived are handled or the connection closes. `IInv`: the invariant of the proofs. |
| `streams` | 2 connections, 3 messages in all, bodies empty or `<<1, 1>>`, which cut in the wrong place looks like a prefix; `recv` returns 1 to 7 bytes | `FramesIntact`: the handler gets exactly the client's messages. `RepliesFramed`: a prefix without its body is the last thing on a connection. `RepliesMatch`: the k-th reply answers the k-th parsable request of the same client. `AnswersAll`: nothing parsable is unanswered when the listener waits. `ReceivedIsHandled`: no whole message lies in `pending` then. `HangupLosesNothing`: whoever hangs up, what he wrote whole was handled before `recv` says so. `ConnectionInv`: the invariants of the proofs, `StreamInv` and `RepliesInv`. `IInv` and `ConnectionInv` contain `TypeOK`. |
| `takeover` | 2 connections, one empty message | refutes `NewClientTakesOver`: see section 6 |
| `clients` | 2 clients, each showing a picture or a video of at most one packet; one fault | `NoMutualWait`: the listener is never blocked in `recv` on a client that is blocked on the reply. `PostedSurvives`: the last frame of a video, to which nobody reads the reply, is handled or still on its way, whole, however soon its client is gone. `ImplementsCalls`: all of it is a run of `RemoteCalls`. |
| `clients_live` | 2 clients with any command, no fault | `ClientsFinish`: every client ends, though it has no timeout and others are served before it. `PostedIsHandled`: the last frame of a video is handled although its client is gone by then. |
| `client_alone` | 1 client with any command, a video of at most two packets, three faults | `ReadsOwnReply`: what a client reads is the next part of the reply to its latest request. `CommandNearer`: each step of a client brings its command nearer to its end and nothing else moves it. `ClientsFinish`, with faults. `CastInv`: types and `CallInv`, the invariant of the proof. |
| `each_frame` | 1 client, at most two packets | refutes `EachFrameProcessed`: see section 6 |
| `requests` | 2 windows, 2 requests of any kind for any handle, 2 changes by other processes, 2 handles of each kind, 2 sizes | `NothingLost`: whatever fails, every live GDI object is one the renderer knows, and none survives it but a DC that cannot be released from another thread. `LeavesNoTrace`: no window stays topmost and no input queue attached. `SuccessIsDrawn`: a picture is drawn if and only if the answer says so, on the right window, unless somebody changed that window. `ServesUndisturbed`: without failing calls and changes by others, a picture is drawn, whatever the previous request left behind. `ListExact`: a list is exact for windows nobody changed. `OnlyTargetDrawn`: nothing else is drawn on. `RequestNearer`: each step of the program brings the answer nearer, and no other process puts it off. `ImplementsDrawing`: all of it is a run of `DrawingService`. `HandlerInv`: the invariants of the proofs, `RequestInv` and `AnswerInv`, and with them `TypeOK`: types, and the renderer's handles are live. |
| `requests_live` | 1 handle of each kind, 1 size, 1 change | `AllAnswered`: every request is answered |
| `end_of_video` | 1 window, 1 request, no changes by others | refutes `EndOfVideoNotDrawn`: see section 6 |
| `rows` | every picture of 1 to 18 by 1 to 4 pixels, as an image, a frame and a final frame; `Align = 8` | `RowsPlaced`: where client and server agree on where rows begin (`Agreed`), and in the first row always, each pixel that is drawn is made of its own three bytes, in whatever order. `NothingBeyond`: `SetDIBits` stays inside the data, except in images of other widths and in the final frame. |
| `rgb24` | one picture of 3 by 2 pixels | refutes `PictureDrawn`: see section 6 |

**Server.** Why the bounds are enough: the two threads have fixed program
counters; a second client is what a leftover buffer, a stale handle or a
takeover needs, and a third one behaves as the second; a second message is what
a wrong cut needs to show, and one `recv` can return less than a prefix, one
frame, or parts of two. Symmetry permutes the connections, which no definition
tells apart. `Base = 2` is why bodies are below 12 bytes; the proofs have no
such bound. Deadlock checking is on everywhere: the only states a system stops
in are `Exited`, `AllExited`, `Gone` once the renderer is destroyed, and `Drawn`.

**Clients.** A video of one packet already sends a frame and a final frame; a
second packet is what a decoder that holds frames back needs. `MaxFaults` counts
clients killed, connections broken and Ctrl+C while clients run; once every
client has ended Ctrl+C is always possible, so that every run can end. Every
client may in addition find the server not there, give up, or close with
replies unread. `MaxSent = 4` is never reached: two videos of one packet are
four messages. `clients` leaves the list command out (`Commands`), which is a
picture's request with fewer ways to give up; the other runs have it.

**Dispatcher.** A second request is what a stale member, bitmap or list needs,
and a second window what a stale target needs; two changes of the desktop are
one more than it takes to invalidate a window after it was checked, so that a
change can also be undone (hidden and shown, minimised and restored); a second
handle of each kind lets one leak while the next is in use, and a second size
makes a kept bitmap wrong. Windows, handles and sizes are interchangeable in
every definition, hence the symmetry of `requests`. The branches of
`CreateCompatibleBitmap` that return early (89-91, 94-96) can never be taken,
because `Initialize` always cleans up first and `RenderImageFrame` tests the
same members: the runs visit the test and never the branch.

**Pixels.** Rows behave alike when widths agree modulo 4 and modulo `Align`: 18
is two paddings of 8 and two pixels more, and four rows are enough for the data
to end before the last one does. FFmpeg's `Align` is 32; the theorems hold for
every multiple of four. For `rgb24` one small picture is enough, and shows both
of what it finds in one trace.

**Fairness.** `NetworkServer!FairSpec` is weak fairness of each thread, because
the operating system schedules both and a blocking call returns once it can.
Nothing is assumed of the connections, of Ctrl+C or of how many bytes `recv`
returns. `FairCastSpec` adds weak fairness of each client's program: its process
is scheduled, a `read_exact` returns once the bytes are there, and so does a
`connect` that nobody accepts, after five seconds. A file has finitely many packets,
each of which gives at most one frame. Nothing is assumed of `Kill`,
`NetworkFails`, `LateReply` or Ctrl+C, and a connection that fails is reset at
both ends: a host that vanishes silently is listed as a hazard without a
property. `WindowCasterServer!FairSpec` is weak fairness of
`HandleMessage`: the listener thread is scheduled and Win32 calls return. The
second half is an assumption: a window whose thread hangs can hold
`SetWindowPos` up. Nothing is assumed of the other processes.

## 5. Proofs

Every safety property a passing run checks, the three refinements included, is
proved for every value of the constants: every set of connections and messages,
every `Base` above 1, every bound, every set of windows, handles and sizes,
every picture and every alignment that is a multiple of four. The assumptions
are the named ones: `BaseAssumption` (`Framing`); `SocketAssumption`,
`MessageAssumption`, `BoundAssumption` (`NetworkServer`); `ClientAssumption`
(`Client`: no client asks what the server cannot parse, and a final frame is no
other request); `WindowsAssumption` (the desktop's windows are finitely many, which only the
count of the steps of an enumeration needs), `NoWindowAssumption`,
`NoHandleAssumption`, `NoSizeAssumption`,
`ChangesAssumption`, `RequestsAssumption` (the dispatcher); `AlignAssumption`,
`SizesAssumption` (`Pixels`).

- `IInv` (`NetworkServerProofs`, one step per action) says where the two
  threads can be with respect to each other. The properties alone are not
  inductive. `OneClient` needs `ListenerInv`: `clientSocket` is the listener's
  newest client or nothing, and nothing else is open. `StopIsClean` needs
  `StopInv`: once `Stop` has tested `clientSocket`, the listener is past
  `accept` or will see `running = FALSE`; in particular, when `Stop` read
  `INVALID_SOCKET` after its test succeeded, the listener is at `while` or gone.
- `StreamInv` (`StreamProofs`) says where each message's frame lies on the
  wire, and that `pending` is exactly the stretch between the last handled frame
  and the last received byte, and empty whenever no client is served. With
  `FrameTaken`, which rests on the arithmetic of `PrefixRoundTrip`, each
  `ParseMessage` then hands over the next message. `MessageAssumption` is where
  `Fits` enters. `TypeCorrect` needs `StreamInv`: only through it does `handled`
  hold byte strings.
- `RepliesInv` (`RepliesProofs`) adds how much of the replies is out at each
  point of the listener, as long as its client can be reached: two parts for
  each parsable message it is done with, one more between the two sends.
  `RepliesMatch` and `AnswersAll` are not inductive without it. The proof keeps
  it as `RepliesParts`, whose conjuncts name the client and the message by bound
  variables.
- `ImplementsServiceSafe` (`ServiceProofs`) maps each step to one of
  `SerialService` or to none: accepting to `Admit`, `ParseMessage` to `Perform`,
  the first closing of the connection to `Disconnect`, `StopJoin` or a failed
  start to `Close`. It needs that no connection is accepted twice, and that the
  one served is the last one accepted.
- `CastIsServer` (`ClientProofs`): the clients do only what `NetworkServer` lets
  a connection do, so each theorem above holds of the composition. `CallInv`
  says how many parts of replies a client has read at each of its steps. With
  `RepliesMatch`, and because each request of these clients has its reply, part
  2k - 1 or 2k of what it reads is of the reply to its request k
  (`ReadsOwnReplySafe`), and each call is performed before it returns
  (`ImplementsCallsSafe`).
- `NoMutualWaitSafe`: a client that waits, on a connection that is not gone, has
  written the whole of its latest request (`AskedInv`); if the server has
  received all of it and answered all but that request, then `pending` is that
  request's frame, whole (`FrameComplete`); but the listener only goes to `recv`
  with no whole frame left (`Drained`).
- `RequestInv` (`WindowCasterServerProofs`, one lemma per component and one step
  per action) adds to `TypeOK`: which steps of `WindowManager` and `Renderer`
  each step of the dispatcher goes with (`CallInv`); that the window the request
  names is the one checked, taken hold of and drawn on (`TargetInv`); when a
  window may be topmost (`TraceInv`); and that no object is created where there
  still is one (`ObjectInv`). `NothingLost` alone is not inductive: `Cleanup`
  releases the window's DC only if there is a target, so the proof needs that a
  DC is never held without one, also after a failed `Initialize`. For
  `OnlyTargetDrawn` the DC must be that of `targetWindow`, and `targetWindow`
  the window of the request, from `InitializeCleansUp` on.
- `AnswerInv` (the same module) is what is known of windows nobody else has
  touched: that what `IsWindowValid` has found of a window so far still holds
  (`FoundInv`), which windows an enumeration has listed or has yet to visit
  (`ListInv`), who can show the request's picture (`ScreenInv`), and that each
  thing `Initialize` and `RenderImageFrame` have taken hold of is there and can
  be drawn on, so that a failure has a cause (`HoldInv`).
- `CopyInv` (`PixelsProofs`): each row copied is what lies at its offset. The
  properties then are arithmetic of rows: `4 * ((3w + 3) div 4)` is `3w` exactly
  when 4 divides w, and is the padded row exactly when the padding is below one
  pixel. That the widths of `Agreed` are all that work is `StridesAgree`.
- `FitsIsExact` (`FramingProofs`): a body for which `4 + msgLen` wraps is taken
  for a whole frame as soon as its prefix is there. So `Fits`, on which all of
  `StreamProofs` rests, is not only enough but needed.
- `HandlerImplementsDrawing` (`WindowCasterServerProofs`) maps `Receive` to
  `Take` or `Refuse`, a `StretchBlt` that succeeds and `Clear` to `Draw`, the
  end of a handler to `Answer`, and every other step, those of the other
  processes included, to none. It needs `TargetInv` for the window, and
  `CallInv` for an answer to come after the drawing it speaks of.

**Below the liveness properties.** A liveness property here comes true because
steps lead nearer to its goal, which the goal's distance bounds, and because
what fairness lets a thread do is possible when it must be. TLAPS cannot put
fairness to use, but much of the rest is safety, and is proved. It does not
replace the runs, which alone put the pieces together.

| liveness (TLC) | steps lead nearer | nothing stays blocked, nothing is lost |
|---|---|---|
| `StopTerminates` | `ListenerNearer`: each step of the listener lowers `Remaining`: the bytes of `pending`, enough for four steps per message, and the way out | `StopUnblocks` |
| `MessagesHandled` | not stated: each `recv` raises `rd`, which the bytes written bound | `ReceivedIsHandled`, `HangupLosesNothing` |
| `AllAnswered` | `RequestNearer`: `StepsLeft` goes down, by six for each window listed | none of its calls block in the model |
| `ClientsFinish` | `CommandNearer`: `ToGo` goes down, whatever is answered, because each packet is read once and gives one frame at most | `NoMutualWait`, `StopUnblocks` |
| `PostedIsHandled` | as for `MessagesHandled` | `PostedSurvives`, `HangupLosesNothing` |

- `StopUnblocks` needs `JoinInv` in `IInv`: a client accepted so late that `Stop`
  saw no handle may still be open when `Stop` joins, but then the listener is
  before the inner `while` or past the loop, and `running` keeps it out of
  `recv`; wherever else it serves a client, nothing is open.
- `ListenerNearer` needs `StreamInv`: `ParseMessage` lowers `Remaining` because
  it takes at least a prefix off `pending`, and the listener must not go back
  from `inner` to `recv`, or from `while` to `accept`, while `Stop` joins.
- `PostedSurvivesSafe` is about who may close or reset the connection of a
  client that has ended well. The server closes one it serves only when `recv`
  ends, and `HangupLosesNothing` covers that, or in `Stop`, and then main does
  not serve any more. The connection of a client that still runs is up, unless
  the network broke it. And the reset that `LateReply` stands for needs a reply
  nobody read, which is only sent when its request was handled: as each message
  of these clients but the last has had its reply read, that request is the
  last one (`PostInv`, `UnreadReply`).

Model-checked only: the liveness properties themselves, `StopTerminates`,
`MessagesHandled`, `AllAnswered`, `ClientsFinish` and `PostedIsHandled`, because
fairness is stated with ENABLED, which TLAPS 1.4.5 does not reason about, and
the four that are refuted. Nothing here needs induction over data or recursive
operators.

## 6. Findings

`takeover`: the comment at `Server/network_server.cpp:114` says "If there's an
existing client, close it first". The listener does not accept while it serves
a client, so the branch below the comment is never taken (`OneClient` proves
`clientSocket = NoSocket` there) and a second client waits in the backlog, with
no timeout on its side, until the first one leaves.

`end_of_video`: `client/src/video.rs:116` says "Send the final frame (an empty
frame) to signal the end of video". The frame has the video's width and height
and no data, and the server has no notion of an end: it draws the frame like
every other one, and `SetDIBits` reads width times height pixels that were not
sent. The run has one request, such a frame, and shows it answered with success
and the window left with such pixels.

`each_frame`: `client/src/video.rs:66` says "Read and process each frame". The
decoder may hold frames back, and after the last packet it is not told that
there are no more (`send_eof`): the frames it still holds are never sent, and
the client ends well. The run shows such an end.

`rgb24`, colours: `Server/renderer.cpp:130` says "Copy imageData to bitmap
(assuming imageData is in RGB24 format)", and RGB24 is what the clients send.
`SetDIBits` is told that it gets a 24-bit DIB, in which a pixel is blue, green,
red, and nothing converts: red and blue are exchanged in every picture. The run
shows it in the first row.

`rgb24`, rows: `client/src/cli.rs:58` says "Renders an image onto a specified
window." The rows of an image are packed, those of a DIB begin at multiples of
four bytes. Unless the width is a multiple of four, each row but the first is
drawn out of place, by one to three bytes more than the one above it, and at the
end `SetDIBits` reads behind the data. The run shows it in the second row of an
image three pixels wide. A video frame is out of place in the other direction,
unless FFmpeg pads its rows by nothing or by one pixel; a video's final frame,
which has no data, is read behind its end whatever its width.

## 7. What is not modelled

- **Contents of replies** in the client: `main.rs` prints a list or a status
  and returns `Ok` in each case, also after a status without success (35-82),
  so that nothing a client does depends on it.
- **`cli.rs` and `window.rs`**: arguments are parsed before anything else
  happens; the list is filtered and printed.
- **Titles and class names** and their conversion to UTF-8: printed only.
- **Extreme sizes**: `width` and `height` are `uint32_t` in the message and
  become `int` and `LONG` in `renderer.cpp` (105, 133). A picture the clients
  send has the size of a decoded image or video: at least one pixel each way,
  and far below 2^31.
- **GDI+ start-up and shutdown**: one call each, whose failure ends the program.
  **A second Ctrl+C**: the handler is reset to the default, which ends the
  process.
- **The decoder and the scaler** (FFmpeg) and the image library: what they
  return is chosen freely.
- **Generated code** (`windowcaster.pb.*`), **vendored protobuf and abseil**
  (`depend/`): third-party headers, used as a serialiser. They are more than
  99 % of the repository's lines; the program itself is about 1400 lines of C++
  and Rust, of which the modules model every file that keeps state. The share
  of the whole repository the models cover is therefore small and cannot grow.
- **A host that vanishes without a word**: neither side sets keep-alive, and
  both would wait for ever. The properties assume that a connection that fails
  is reset sometime.

What could still be added: a client that goes on after the server was restarted
is not in this code, and neither is a second server; a composition of
`NetworkServer` with the dispatcher's single steps would add only the product of
two models that share no variable but the request being handled.
