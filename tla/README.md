# Verification of remote-virtio-gpu

TLA+ models of remote-virtio-gpu (rvgpu), the TLC runs that check them on small
instances, and proofs, checked by TLAPS, that hold for every instance. All
paths are relative to the root of the repository.

## 1. The system

A guest's virtio-gpu driver talks to **rvgpu-proxy**, which stands in for the
device (through the virtio-lo kernel module) and sends the guest's commands to
one or more **rvgpu-renderer** processes over TCP. Each renderer runs the
commands with virglrenderer and shows the result through its **compositor**
process. Fences, data read back from resources and input events travel the
other way.

```
 guest ── virtqueues ── rvgpu-proxy ── TCP, COMMAND and RESOURCE ── render process ┐
 driver   eventfds      main loop      socket per renderer          (one per proxy)│ unix
                        resource thread                                            │ socket
                        input thread                                compositor ────┘
                        connection thread                           process ── wm, backends
```

| part | code | state | operations | hard behaviour | module |
|---|---|---|---|---|---|
| fence pipeline | `rvgpu-proxy/gpu/rvgpu-gpu-device.c`, `rvgpu-vqueue.c`, `rvgpu-renderer/virgl/rvgpu-virgl.c` | used and available ring, `async_cmds`, reference counts, `fence_pipe`, `recv_fence_ids`, `fence_received`/`fence_sent` | serve a kick, add a response, report a fence, merge fences, answer | two threads of the proxy and N renderers; answers must wait for the slowest renderer; counters wrap | `FenceSync` |
| command and resource stream | the same, `librvgpu/res/rvgpu-res.c` | resource tables of proxy and renderer, `curr_mem` | forward, execute, send patches, load, upload | framing is implied by two tables kept apart; refusals | `CommandStream` |
| patch cutting | `librvgpu/res/rvgpu-res.c` | the loop's position | `gpu_device_send_data`, `add_patch`, `write_patch` | boundaries, IOV limit | `PatchSplit` |
| touch slots | `rvgpu-proxy/gpu/rvgpu-input-device.c`, `rvgpu-renderer/renderer/rvgpu-input.c` | slots of each renderer, slot table of the proxy | `rvgpu_in_*`, `input_device_serve`, `touch_translate` | slots taken and freed out of order, cancelled frames, several sources | `TouchSlots` |
| input demultiplexer | `rvgpu-proxy/rvgpu-proxy.c`, `rvgpu-input-device.c` | poll sets | `input_thread_func`, `input_read` | packets arrive in pieces, and from several renderers | `InputDemux` |
| TCP relay | `librvgpu/tcp/rvgpu-tcp.c`, `librvgpu/rvgpu.c` | pipes and sockets of each renderer, poll entries, connection states | connect, relay in and out, close | a slow or lost renderer, partial writes, timeouts | `TcpRelay` |
| proxy shutdown | `rvgpu-proxy/rvgpu-proxy.c`, `rvgpu-gpu-device.c` | signal flag, threads, drain thread | terminate DRI users, flush, drain, free | joining threads that may be blocked; requests that arrive while draining | `ProxyShutdown` |
| connection acceptance | `rvgpu-renderer/rvgpu-renderer.c` | list of render processes, surface ids | `rvgpu_handle_connection`, `wait_for_child` | a signal in poll, zombies, pids that come back | `ProxyAccept` |
| shared buffers | `renderer/rvgpu-egl.c`, `compositor/rvgpu-compositor.c` | buffer ring, `composit_status`, requests, acknowledgements | `rvgpu_egl_draw`, `request_event_loop`, `compositor_render`, `swap_completed_loop` | buffer reuse against the compositor's reads, skipped frames | `SwapSync` |
| GL sync objects | `renderer/rvgpu-egl.c` | `glsyncobjs_state` | create, destroy, make current, draw | a table kept in step with virglrenderer's contexts | `GlSyncObjs` |
| clients of the compositor | `compositor/rvgpu-compositor.c`, `rvgpu-connection.c` | four sockets per client, descriptors, request threads, `rvgpu_surface_list` | register, add, draw, remove, stop | four kinds of threads, descriptors that are used again, clients that end without a word | `ClientLife` |
| layout handshake | `compositor/rvgpu-compositor.c` | `layout_status`, request pipe | `layout_event_loop`, a batch of `compositor_render` | a wait on a condition that is set by two threads | `LayoutSync` |
| layout list | the same, `rvgpu-json-helpers.c` | `rvgpu_layout_list`, `rvgpu_safety_areas` | the four layout commands, the walk over the areas in `compositor_render` | ids that move while a list is edited, a list that grows while it is walked | `LayoutList` |
| input focus | `renderer/rvgpu-input.c`, `rvgpu-compositor.c`, `backend/*.c` | focus of touch, pointer, keyboard; buttons; touch count | the callbacks of the backends | windows that move, hide or go while a button or finger is down | `InputFocus` |
| 2D drawing | `renderer/rvgpu-render2d.c`, `rvgpu-compositor.c` | a matrix | `draw_2d_texture_in` and its matrix functions, clipping | signs, orders of rotations, edges | `Render2D` |
| vsync (`VSYNC_ENABLE`), cursor queue | `rvgpu-gpu-device.c` | timer, waiting flush; second virtqueue | trigger, serve | lost timer expirations, double answers | not modelled |
| sanity checks, formats, iov copies | `rvgpu-sanity`, `include/librvgpu/rvgpu-virgl-format.h`, `rvgpu-iov.c` | none | pure functions | boundaries | not modelled |
| window system backends | `backend/*.c` | wayland, DRM and EGL objects | window system events | calls into libraries | only as sources of input |

Paths are under `src/`.

What makes each part correct, in short: a fenced request is answered once, only
after all renderers have passed its fence and after its data is in guest memory,
and is answered at last; the streams never lose their framing; a transfer sends
exactly the bytes it names; an open touch keeps its slot and no two touches
share one; a packet is never assembled from two renderers; nobody waits for a
thread that waits for him; a buffer is not drawn to while it is shown, and every
frame is acknowledged at last; a surface gets the
input the user means for it; a client that leaves takes nothing with it but its
surface. `PROJECT.json` lists, under "hazards", where in the code each of these can
go wrong.

## 2. Plan

1. *Done:* a model of every component above that keeps state, except the vsync
   build and the cursor queue.
2. *Done:* proofs about `FenceSync`, `CommandStream`, `PatchSplit`, `LayoutSync`,
   `SwapSync`, `TouchSlots`, `InputFocus`, `GlSyncObjs`, `ProxyAccept`,
   `ClientLife`, `ProxyShutdown`, `TcpRelay` and `InputDemux` (section 5).
3. Stays with TLC: the layout list (its edits are folds), and everything under fairness.

Each component has a module with its own CONSTANTS, state, actions and
properties. Components that run beside each other without sharing what either
model keeps are checked together: an `MC` module instantiates them, and a
variable `which` says which of them a behaviour moves. FenceSync and
CommandStream share the two sockets but not their state: the first abstracts
commands to their fences, the second abstracts fences away. What one needs of the
other is stated where it is used (`Reading` in CommandStream relies on
DataBeforeAnswer of FenceSync). SwapSync and ClientLife are two views of the same
connections of a client: the frames that go over them, and their life.

## 3. Modules

### FenceSync

The proxy's main loop, its resource thread and N renderers, in builds without
`VSYNC_ENABLE`. Requests are numbered in ring order and the number is the fence
id: the guest takes ids from one counter under the ring's lock.

| model | code |
|---|---|
| `Submit`, `Notify` | the guest driver and virtio-lo (external) |
| `Wake`, `ServeFence`, `FencesDrained`, `TakeSane`, `TakeInsane`, `Forward`, `Finish`, `EndServe` | epoll loop, `gpu_device_serve`, `gpu_device_serve_fences`, `gpu_device_serve_ctrl` |
| `async`, `refs`, `answers` | `async_cmds`, `vqueue_request.refcount`, elements of the used ring |
| `kick`, `told` | the local `kick` and what VIRTIO_LO_KICK has announced |
| `ReceiveFence`, `ReceiveData`, `recv`, `heard` | `resource_thread_func`, `resource_transfer`, `recv_fence_ids`, `recv_fence_flags` |
| `Dispatch`, `CreateFence`, `Retire` | `rvgpu_pr_dispatch`, `rvgpu_pr_readbuf` with `virgl_renderer_poll`, `virgl_write_fence` |

Fence ids are truncated on the wire (`FenceMod` stands for 2^32). When several
renderers share the smallest id, any of them may be the one whose flag is
looked at; the code takes the last, the model leaves it open. A renderer whose
`virgl_renderer_create_fence` fails only logs it (`FenceFails`). Blocking writes
are guards on channel capacities.

`FenceService` is the abstract specification: requests are issued, each is
completed at most once and for good, fenced ones only when every GPU has come
past them. FenceSync implements it (`ImplementsService`).

### CommandStream

One renderer's two streams. The proxy forwards a command and only then executes
it, sending one patch list per transfer whose resource has a backing in *its*
table; the renderer reads one list per transfer whose resource has a backing in
*its own*. `Create`, `Unref`, `Attach`, `Detach`, `Load`, `Store`, `SendPatch`
and `SendEnd` are the main loop, `Render` is a turn of `rvgpu_pr_dispatch`
(`Parse`, `Obey`, `ReadPatch`), `ReceiveData` is `resource_transfer`. A SUBMIT_3D
may name any resource in any of its transfers, since its buffer comes from a
guest process; the other commands come from the guest's kernel driver and respect
the life of a resource. `views` is a history variable: the state in which the
renderer should be when it reads a message.

### PatchSplit

The loop of `gpu_device_send_data` with `add_patch`, `init_patch` and
`write_patch` for one transfer. The backing is given by the edges of its pieces;
pieces of length 0 are allowed. Lengths are natural numbers: the code uses
`size_t` and asserts that offsets fit in 32 bits.

### LayoutSync

The layout thread and the main thread of a compositor started with `-l`; with
`UseLayoutSync` also with `-L`. `LAccept` to `LExit` are one turn of
`layout_event_loop` cut at every access to shared state: the edit under
`layout_list_mutex`, the LAYOUT event into the request pipe, the write of
`layout_status`, the check and wait under `layout_sync_mutex`, the answer.
`CEvent` and `CBatchEnds` are the inner loop of `compositor_render` that
collects a batch of events, `CDraw`, `CSwap` and `CTell` the frame that follows
it, `CJoin` its end. The layout list is the number of edits made to it, and a
frame is the number of edits it was drawn from. The layout clients are external,
and of the request threads only the events they send are kept, in the order in
which one surface sends them. When a client has hung up, the thread forgets
`rvgpu_layout_fd` but not the entry of its poll array (`EndedPolled`): the turn that
accepts the next client goes on to read it ("recv"), whether or not it has sent
anything and without a look at event_fd. An answer to a client that has hung up
raises SIGPIPE (`LKilled`).

### TouchSlots

Touches on their way through two tables of slots. `Down`, `Motion`, `Up`, `Frame`
and `Cancel` are the window system's callbacks with `add_slot`, `move_slot`,
`remove_slot` and `Sent`/`Cleared` (`rvgpu_in_send`, `rvgpu_in_clear`); `Read` and
`Translate` are `input_device_serve` and `touch_translate`, one event at a time;
`Guest` is the kernel's reading of ABS_MT_SLOT and ABS_MT_TRACKING_ID (external).
`aborted` is the assertion in `get_slot`. Every event carries the touch it is
about, which no action looks at. The window id is always 0 at this commit, so
ABS_MISC is left out, and BTN_TOUCH passes through unchanged. There is at least one
source: without `-n` the proxy connects to its default host
(`rvgpu-proxy/rvgpu-proxy.c:567`).

### InputDemux

The input thread and the pipes it reads. `SendHeader` and `SendEvent` are a
renderer's packet, a unit at a time; `Poll`, `RecvHeader`, `RecvEvent` and `Serve`
are `input_read` and `input_thread_func`. With one renderer a packet is read as one
piece whatever pieces it arrives in. With two it is not (see Findings).

### TcpRelay

One thread, `thread_conn_tcp`. `StartConnect` to `ConnectEnds` are
`connect_hosts` for the two stages; `Poll`, `SpliceOut`, `SpliceIn` and
`EventsDone` the loop over the poll entries with `in_out_events`, in its order
(`Turn`). `BeginSend` and `Write` are `rvgpu_ctx_send` of the main thread, which
writes to the pipe of every renderer in turn and blocks when one is full; `Read`
are the resource and input thread, the `Renderer` actions the other end. Bytes are
counted in units. `gpu_reset_state` and the reconnection timers are never set off
at this commit and left out. `GiveUp` is the limit of 10 s of `wait_scanouts_init`,
after which the relay ends without a signal; nothing makes it happen, and a relay that
has ended so (`GaveUp`) delivers nothing (section 6).

### ProxyShutdown and ProxyThreads

What happens between the signal and the end of `main`. The main thread's phases
are `Loop`, `Write`, `DrainTick`, `Cleanup`, `Join`, `Flush`, `StopInput`,
`StartDrainer`, `Release` and `Unload`: `terminate_dri_users`,
`drain_during_dri_cleanup`, `gpu_device_flush_pending`, the cancel and
join in `main`, `gpu_device_free` with `detach_drain_thread`. Clients wait in an
ioctl for an answer and act on SIGTERM only afterwards (`Return`, `Exit`,
`Cleaned`); the device is removed when nothing of it is unanswered (`Removed`).
Times are ticks of the drain loop. The resource thread is strongly fair: it is
turned off while it waits for the rest of a message, and messages go on arriving.

`ProxyThreads` is these three parts of the proxy side by side: an instance of TcpRelay
and one of InputDemux for the same number of renderers. They share no variable: what
the relay does to the input pipes is in InputDemux itself, where a renderer's units
arrive one by one, and the shutdown knows of the relay only whether it runs.

### ProxyAccept

`rvgpu_handle_connection` and the SIGCHLD handler. `Connect`, `SendId` and `Leave`
are the proxies; `Accept`, `ReadId` and `Refuse` the acceptor; `RenderEnds` and
`wait_for_child` the processes it forks, which are zombies until waited for.
`HasId` is the search of `proxy_list` with `kill(pid, 0)`, `Cleaned` the removal of
the entries of a pid that is gone. A proxy sends its id when both its connections are
made, so the acceptor's poll waits, and SIGCHLD interrupts it; proxies connect in any
order, end at any moment, pids come back, and a fork may fail (`ForkFails`; `NoPid`
is -1, for which `kill` finds a process always). What this does to others is the
reason that the properties have exceptions, each named by a history variable or by the
state it shows in: `mixed` and `reused` (section 6).

### SwapSync and FrameService

The ring of buffers between one render process and the compositor. `Begin`,
`Wait`, `Finish` and `Send` are `rvgpu_egl_draw`; `Create`, `Forward` and `Drop` the
request thread; `Receive`, `Drained`, `Skip`, `Compose` and `Acknowledge` a turn of
`compositor_render`; `Acked` `swap_completed_loop`; `Other` a request of another
surface or a layout. A picture is the number of its frame, 0 one that is being
drawn. `FrameService` is the abstract specification: at most as many frames as there are
buffers are ahead of the last one released, what is shown never goes back, and a
frame is released in its turn, the last one not before it is shown; `ServiceSpec` is
the refinement, while no other surface wakes the compositor.
With another surface (`MaxOthers`) a redraw may show a hardware buffer that was
given back; no document promises otherwise, so nothing is claimed there. Each buffer
may fall back to shared memory by itself, or not be made at all, after which the frame is given
up. A hardware buffer 0 beside buffers in shared memory is the only EGL image: its
picture is copied (`Single`), once for each frame of the compositor, and a DRAW that comes too
early is dropped without an acknowledgement (`Drop`, `lastCount`). GL calls
and `mmap` are taken to succeed.

### GlSyncObjs

The table of `rvgpu-egl.c`: `rvgpu_egl_create_context`, `_destroy_context`,
`_make_context_current` and `rvgpu_egl_draw`, with the growth and shrinking of the
arrays. virglrenderer calls them and draws into the context it made current last
(`Execute`, external). The loop of `rvgpu_decrement_glsyncobjs_size` that keeps the
entries of the other contexts in their order is `Without`, which is in the module
`Lists`, since `remove_jsonobj_with_int_key` of the acceptor does the same. The model
takes it that some context is current when one is destroyed. The arrays lose a place with
every context, also with one that has no entry, so that `size` may fall to `cnt` and
below it: `lacking` counts these ends since the last draw, `Access` is a use of a
number of entries, and a behaviour ends in the step that uses one too many
(`damaged`; section 6).

### RendererProcesses

SwapSync, GlSyncObjs, ProxyAccept and ClientLife beside each other, with the properties
of the last three that `renderer` checks and `RendererProofs` proves (DrawWaits,
Admitted, SurfacesKept). They share no state: the acceptor keeps only the pid of a
process it forked, and ClientLife has the frames of SwapSync as messages without
content.

### ClientLife

A client is a render process. `Connect`, `FailedToConnect`, `Answer`,
`AddScanout`, `Draw`, `Leave`, `Told`, `Crash` and `Alone` are its side of the four
connections (`compositor/rvgpu-connection.c`, `rvgpu-renderer/rvgpu-renderer.c`);
`Accept`, `Register` and `StopCommand` are `regislation_read_loop`; `Handle`,
`EndOfControl`, `Tell` and `CloseFds` a request thread; `Receive`, `Drained` and
`Compose` the main loop. `remove_jsonobj_with_str_key` is another user of the loop
`Without`. Descriptors are numbers that the lowest free one is taken
from, as the kernel does. A write to a connection whose other end is gone kills the
compositor (`Broken`, SIGPIPE: nothing ignores it). The four closes of
`CloseFds` are one step, and a group of sockets of two clients ends the
behaviour.

### LayoutList

`InitialLayout`, `ModifySurface`, `AddSurface` and `RemoveSurface` are the four
commands, each one step since they are made under `layout_list_mutex`;
`AppendArea` is the second half of `initial_layout`, one area at a time; `StartFrame`,
`CheckArea`, `RemoveArea`, `Checked` and `Mask` are the walk of a frame over the safety
areas. The layout thread appends under `safety_area_mutex`, the walk removes without it:
the areas appended during a removal (`met`) may all stay, or the first of them, or none, and
the last area may stand in the array twice afterwards; `raced` has those that were
at risk. A move of the whole array by an append, under a walk that is reading it,
is left out: what is read then is undefined. A command gives every surface an id of its
own. "visible" stands for the properties `modify_surface` may change.

### InputFocus

Each callback of `rvgpu-input.c` is one action: `touch_down_cb`, `touch_up_cb`,
`touch_motion_cb`, `touch_frame_cb`, `touch_cancel_cb`, `pointer_inout_cb`,
`pointer_motion_cb`, `pointer_button_cb`, `pointer_axis_cb`, `keyboard_cb`. `get_focus_rvgpu` and
`get_focus_rvgpu_json_obj` are `Found`; `send_event` says which surface's process is
told. `WlPointer`, `GbmPointer`, `Button`, `Key` and `Touch` are what the backends
call them for; `EditLayout`, `Register` and `Unregister` what others do to the
windows meanwhile. One assumption narrows it: no object that has a focus is freed
(the code would go on with a dangling pointer). `told` is what a process has down:
touches in its slots and, as `olds`, those of its last send, to which a cancel goes
back (`Cancel`, `rvgpu_in_clear`). Fingers may be in several windows; there is one
touch focus, which each new finger takes. The history `strayed` has the touches whose
end therefore goes to another window, and those that were cancelled when the guest
knew of them. With GBM a relative mouse is handed over with its distance for a position;
the model gives that event any position.

`InputPath` is the way from the user to the guest: InputFocus (as `Focus`), which
chooses the process, and TouchSlots, which is what this process and the proxy make of
its touches. The two share no state, since what passes between them is an event.

### Render2D

One picture: the layout's rectangle is clipped (`Clip`, `ClipLayout`), placed,
turned, scaled and projected, one action for each matrix call of
`draw_2d_texture_in`. Angles are quarter turns and arithmetic is exact, so the
special cases and the general formula of `matrix_rotate` can be compared. `rot`
and `flip` are parameters of the function that its callers leave 0; `upsidedown`
has no effect together with texture coordinates of the caller, in the code as in
the model.

## 4. Runs

Where a run names several instances, they are those of its `MC` module: `which` is
chosen at the start, and fairness is asked of the instance that moves.

| run | instances | what it shows |
|---|---|---|
| `two` | 2 renderers, 4 requests of all kinds, ids modulo 2 | no early answer even when ids wrap; data before its answer; one answer and one free for a request; the refinement of FenceService |
| `live` | 2 renderers, 3 requests, fairness | every request is answered and announced; a GPU that works is polled |
| `stream` | no limit: 2 resources, 4 messages under way, 2 transfers per SUBMIT_3D. limit: 3 resources of size 1 or 2, limit 3 | framing of both streams; `curr_mem` is exact, whatever comes and goes, and within the limit (MemoryKept; in the instance with a limit as a part of EndsWithinLimit); every list of patches ends |
| `refused` | 1 resource, limit 1 | **violation**: a refused ATTACH_BACKING breaks the framing |
| `patches` | backings of up to 4 pieces of up to 2 bytes, requests 0 to 9; pictures of 2x3 on a screen of 4x3, rectangles before, in and beyond both, quarter turns, 8 axes | cutting into patches; where corners and texels come to lie |
| `layouts` | 2 commands, 2 connections, a surface, with and without `-L`; 2 edits of lists of up to 2 surfaces out of 3 | no edit is forgotten; with `-L` an answer means that the screen shows it; without it a command is answered unless its client hangs up, and the compositor ends unless the layout thread is left in a read of a client that says nothing; where add_surface puts a surface; which safety areas are kept |
| `lostlayout` | 1 command, `-L` | **violation**: COMPLETED is overwritten, the layout thread waits for ever |
| `stuckstop` | 1 command, 1 surface, `-L` | **violation**: the compositor joins a thread that waits for its frame |
| `input` | touches: one source with 3 ids and 2 slots; 2 sources with 2 ids and 2 slots each. focus: 2 windows, with a finger, 2 buttons and a mouse in a layout, 2 fingers in a layout (in one window or in both), or 2 fingers and a button without one, also beside the surfaces and cancelled | from one source the guest's touches are the user's; the slot table is exact, also with two; nobody is left with a button down, nor with a finger but one that strayed; the right surface is told |
| `proxy` | relay: 1 renderer, 2 sockets. slow: 2 renderers, one stops reading. input: 3 packets of up to 3 events. shutdown: 2 clients, one ignores SIGTERM | nothing sent is lost or held up by another renderer; packets are whole and in order; no thread outlives what it uses; a shutdown ends |
| `renderer` | ring: 2 hardware buffers, 5 frames. soft: 2 software buffers, 2 sizes, 4 frames. syncs: 3 contexts. accept: 3 proxies, two with one id, 2 pids. serve, stop: 2 clients, 2 frames each | frames are complete and acknowledged; a draw waits for all contexts; one process for an id; surfaces come and go with their clients |
| `clientpipe` | the same | **violation**: a client that leaves ends the compositor |

Bounds. Two renderers show every race between a fast and a slow one. Four requests
allow a fence of each of two renderers to be reported while a third request is
being forwarded and a fourth waits; `FenceMod` 2 makes ids wrap within them. A queue
of 2 makes the guest wait for free descriptors, channels of 1 or 2 messages block
senders; `PipeCap` is larger than what FencePipeBounded allows, so that it cannot
hide a violation. Four messages hold a SUBMIT_3D with two lists behind an attach.
Four pieces with `IovMax` 3 need two patches. Two layout commands are what it takes
for a COMPLETED of the first to be seen by the second, and for a surface to be
added that is on the list. LayoutShown needs the bound on draws: a batch ends only
when the request pipe is empty. The code has such a bound, since a render process
waits for an acknowledgement before it draws to a buffer again. Six touch events of
two sources fill every slot and use one again. Pipes of one unit are full after
every write, so each wait of the relay and of the main thread happens. Five frames
use each of two buffers again twice. Three contexts and the main one make the table of
sync objects grow from 1 to 8 places. A second client with the id of the first meets what the first left
behind. Time limits of the shutdown are 1 to 3 ticks, in the order the code's have.
Runs with `CHECK_DEADLOCK FALSE` are those whose guest, clients or peers stop at a
bound, whose processes end, or whose loop is over; all passing runs are of this
kind. `input` uses symmetry in windows, fingers and addresses, which no property
names.

Fairness. Every thread of the proxy and every renderer is weakly fair: they are
preemptively scheduled and block only in the guards that are modelled. `Notify`
is fair because the guest driver rings after it submits. `Retire` is fair because
a GPU finishes its work. The guest need not submit anything. In CommandStream
`SendEnd` is strongly fair: the loop that sends patches is finite (see
PatchSplit), but the stream is full again and again in between. In LayoutSync
the layout thread and the compositor are weakly fair; clients, request threads
and spurious wakeups are not. In TcpRelay a renderer reads, unless it is one of
`Stuck`; in InputDemux a renderer that has begun a packet writes the rest, since it
does so with one call. In ProxyShutdown the kernel is fair where it must act
(SIGKILL, a cleanup, the removal of a device nobody uses), and the resource thread
strongly: a message that is complete stays so, but each new one that begins makes
its step wait. In ClientLife a client that has begun something goes on with it
(`Going`), but need not begin to draw or to leave.

## 5. Proofs

Each theorem `Spec => []Inv` rests on an inductive invariant, given here; the lemmas
of a module take it through the actions one by one. Hypotheses of a theorem are
named with it; where there are none it holds for all constants that satisfy the
ASSUMEs of the module.

`FenceSyncProofs`, for any number of renderers, any sizes of queues and pipes,
any width of fence ids:

* `TypeCorrect`, `OrderKept` (InOrder), `ReportsCorrect` (ReportsBacked),
  `AnswerCorrect` (AnswerAfterAllHosts), `Refinement` (ImplementsService),
  `AnswersCorrect` (AnswersSound).

AnswerAfterAllHosts is not inductive: an answer follows an id in `fence_pipe`,
which was a minimum over `recv`, which came over a socket from a GPU that had
taken its fences from a FIFO. The inductive invariant `IInv` has one part per
stage: InOrder (retired, pending and forwarded requests of a renderer are in ring
order), ReportsBacked (no id on its way exceeds what its GPU has retired; what is
in the pipe holds for all GPUs), AnsweredTaken, TypeOK. Truncation enters only
through `Wire(f) <= f`, which is why wrapping delays answers but never hurries
them. `AInv` adds what AnswersSound needs. `LifeKept` follows the references of a
request through the hands of the main loop and `async_cmds`. `KickKept` says that an
answer nobody has announced is one the main loop still has `kick` set for.
`DataKept` says that the data of a read that has not landed is ahead of every id that
covers its fence, on the command's way to renderer 0 or on the socket back.
`PipeKept` gives each id in `fence_pipe` to a renderer that reported it and a
request that waits, no pair of the two twice, which bounds the pipe.

`CommandStreamProofs`, for any resources and stream sizes: `TypeCorrect`,
`MemoryCorrect` (MemoryKept: `curr_mem` is the sum of the mapped backings, however
resources end, and by `LimitKept` never more than the limit), and, when there is no
memory limit, `FramingCorrect` (CatchesUp) and `StrayCorrect`
(NoStrayData). The invariant adds to CatchesUp that the guest's view is the proxy's
table and that a resource with an unfinished upload keeps its backing. The
assumption is needed: `refused` is the counterexample without it.

`PatchSplitProofs`, for every backing, request and limit: `CutCorrect` (TypeOK,
PatchesSound) and `SentCorrect` (AllSent), by the loop invariant `Idle` or
`Gathering`.

`LayoutSyncProofs`, for any number of commands, connections, draws and surfaces:
`TypeCorrect`, `ChangesKept` (NoChangeForgotten) and `AnswersShown`
(AnswerShown). For the second, the batch that is being drawn vouches for an edit
only until its frame is drawn (`ChangeInv`); a process that SIGPIPE has ended is
excepted. For the third, `HandshakeInv` says
that with `-L` at most one LAYOUT event is outstanding, only while the layout
thread waits, so the list stands still between the event and its frame.

`SwapSyncProofs`, for any number of buffers, sizes and frames: `TypeCorrect`;
`BuffersCorrect` (BuffersKept), when the compositor has vsync and a hardware buffer is
not made anew (one size); `ServiceCorrect` (ServiceSpec), when besides no other surface
wakes the compositor. FreeIsFree is not inductive: `Places` says that the DRAW of a
buffer is in one place only, on the control socket, in the request pipe, in
`updated_indexes` or in an acknowledgement, and that its `composit_status` is 1
meanwhile, so the acknowledgement that clears it is the last trace of it. `Making`
is the position of `rvgpu_egl_draw`, `Found` says that the picture a DRAW is for is
still where the compositor will read it. All three hold for buffers that fall back to shared
memory and for DRAWs that are dropped. For the refinement `Rising` says that the
frames rise along the channels, `InOrder` that they rise by one until a DRAW is dropped
(both in `OrderInv`), and the buffers that are taken are at least as many as
the frames drawn and not given back, since different frames are in different ones
(a pigeonhole argument, `TakenProperties`). Without the hypothesis on sizes
FreshIntact fails (section 6); with another surface nothing is claimed (SwapSync
above).

`InputProofs`, about TouchSlots, for any sources, ids and numbers of slots: `TableCorrect`
(TableSound); `TouchesCorrect` (TouchesFollow), for one source whose slots are no more
than the guest's; `TypeCorrect`, where they are no more than the guest's. The
table lags behind a renderer whose packets are under way. The invariant `TableInv`
says that those packets, one event after the other, lead from what the table holds of
the renderer to what it has sent (`TableFollows`, `Chain`), that each event of them fits
where it arrives, and that a pair of renderer and slot has one place (`Injective`).
TableSuffices follows by counting: a full table has a place for every pair, so also
for the one that is looked for. `OneInv` adds that slots have the same
number on both sides and that the guest shows what the table holds. With two
sources TouchesFollow fails (section 6).

About InputFocus, for any windows and places, with and without a layout, any fingers and
buttons: `NoStuckCorrect` (TypeOK, NoStuckInput) and the action property
`RightCorrect` (RightSurface). NoStuckInput does not follow from what it says: the release
of a button goes to `pointer_focused`, whatever was told of the press. The invariant
`FocusInv` says that a surface that was told of a button is registered and is the one
`pointer_focused` points to (`ButtonsInv`), and the same of `touch_focused` and every
finger that has not strayed (`TouchesInv`), through every change of the list
(`ListStep`: the objects that have a focus stay; this is the assumption that none of
them is freed). The touch focus may end with `touch_down_count`, because that is at least
the number of fingers, and exactly it when no touch was outside or cancelled.
RightSurface needs `PointerInv`, that with wayland `pre_pointer_pos` is where the pointer
is, and that the last window found is the one on top (`FoundOnTop`).

`RendererProofs`, about the table of sync objects, for any contexts and work:
`DrawWaitsCorrect` (TypeOK,
DrawWaits), without a hypothesis. The invariant `SyncInv` relates the size
of the arrays to the entries (RoomLeft and `Sized`: a context that goes takes an entry
with it or is counted in `lacking`) and the commands of a context to its entry: those
that are finished by no sync object yet are of the context EGL has current, those that
are have an entry with the sync object of their own context.

About the acceptor, for any proxies, ids and pids: `UniqueCorrect` (UniqueIds), without a
hypothesis. Every process that is there has its entry in the list (`Covered`), and the
ids of the list differ; when the entries of a pid are removed, none of them is of a
process that is there. `AdmittedCorrect` (Admitted: UniqueIds and Paired): as long as no
two proxies connect at once, of the connections that wait, the one that the acceptor
holds included, every other one is a command connection with the resource connection
of its proxy behind it, and only the last may miss it (`InPairs`, `Half`).
`RefusedCorrect` (the action property RefusedForItsId): an entry has the id of the
process with its pid, unless this pid came back (`Listed`), so what refuses a proxy is
one of the reasons the property lists, and nothing else.

About the compositor's clients, for any number of clients, connections and frames:
`SurfacesCorrect` (SurfacesKept), when clients do not crash or every surface id has one
client. OwnEntry and DrawLands are about the head of the request pipe and say nothing of
the requests behind it. The invariant `LifeInv` does: the requests in the pipe, one
after the other, lead from the surfaces that are on the list to those that will be
(`Leads`), and each fits where it is received (`Served`): an ADD finds no surface with
its id, a DRAW finds its own, a REMOVE takes none but its own. `Fit` says of each client
how what it will have on the list goes with its state, its request thread and what its
control connection still holds; `Apart`, that of the clients with one id one is at
work, since one that leaves waits for its request thread. The latter is what a crash
breaks: with clients of one id both OwnEntry and DrawLands fail then (section 6).

`ProxyProofs`, about the three parts of `ProxyThreads`:

* the shutdown, for any number of clients and any limits: `FreeCorrect`
  (NothingUsedAfterFree), by `Ends`, which says for each phase of the main thread which
  threads have been joined; `Counted` says for each phase how far its counters may
  have come.
* the relay, for any number of renderers, any room in pipes and sockets, and any
  renderers that cannot be reached: `RelayInv` bounds what is on the way in each
  direction (OnWayOut and OnWayIn are differences of counters), `Ended` says that the
  channel whose end stopped the relay is empty, `Stages` that the sockets of a stage
  are there before the next one begins. They give `LastWordsCorrect` and
  `ConnectedCorrect`; only the second needs that polls are not interrupted (section 6).
* the input thread, for one renderer and packets of any size and number: `DemuxInv`.
  `Stream` says of a pipe that each unit is what has to follow the one before it: a
  header of the next packet where no event is owed, an event of the current packet
  where one is. It does so with two functions over the places of the pipe (the events
  still to come, the packet's number) instead of by recursion, so that appending and
  taking the head can be reasoned about without an induction. `PacketsCorrect` follows;
  it fails with two renderers (section 6).

`TypesCorrect` and `StreamsCorrect` put them together for TypesOK and StreamsWhole.

The proofs rest on the ASSUMEs of the modules they are about. They say little more
than that sizes are natural numbers and that sets are finite; TLC evaluates them in
the runs.

Four facts are inductions over data: that the recursive function of `Without` has a
value, and which entries it keeps in which order; that the sum of the backings, which
the library makes by recursion over the set of resources, has a value, and that it
changes by as much as one of its numbers does. The library's induction theorems
cannot be used, since they take an operator; instead the set of counterexamples is
shown to have no least number (`LeastNumber`, from the well-foundedness of < on the
naturals) or no smallest set (`SmallestSet`, by counting).

Only model-checked: the liveness properties (fairness and ENABLED are out of the
prover's reach); PendingFencePolled (false once ids wrap, so `live` has ids that do
not); DrawnRight (the model is exact
arithmetic over nested matrix products, of which a bounded number of pictures is
compared); ListEdited (folds over the list); and the type invariants of ClientLife and of
the instances of the `MC` modules, of which the proofs use only parts.

## 6. Findings

With a run of their own:

* `refused`: `gpu_device_attach` enforces the memory limit after the command has
  been forwarded. From then on the renderer has a backing the proxy does not
  know of: the next transfer has no patches, the renderer waits for them and
  takes the next command for a patch.
* `lostlayout`: with `-L`, `layout_event_loop` announces a change before it sets
  `layout_status` to LAYOUT_UPDATING, without the mutex. A compositor that has
  shown the change by then has its COMPLETED overwritten, and no layout command
  is answered again.
* `stuckstop`: with `-L`, a compositor that was told to stop joins the layout
  thread, which may be waiting for it.
* `clientpipe`: nothing handles SIGPIPE. A client closes its connections without
  waiting for the acknowledgement of its last frame, and the compositor's write of
  it ends the compositor of all.

Properties that are stated in the modules and fail for the constants named here;
the passing runs leave these constants out, and say so at the property:

| module, constants | property that fails | what happens |
|---|---|---|
| TouchSlots, two sources | PositionsLand | `touch_translate` replaces the slot in an ABS_MT_SLOT only when the guest's slot changes (`rvgpu-input-device.c:401`); otherwise the source's own number passes through, and the touch lands in another renderer's slot |
| TouchSlots, more touches than `MaxGuest` (in the code: five sources of 16 slots each, 64 entries) | TableSuffices without its condition | the search for a free entry finds none, and the assertion ends the proxy (`rvgpu-input-device.c:361`) |
| InputDemux, `N` = 2 | PacketWhole | header and events are two reads, each from the first pipe that is readable (`rvgpu-input-device.c:134`): one renderer's bytes are taken for another's events |
| TcpRelay, a renderer not in `Reachable`, `MaxUnits` > `PipeCap` | MainReturns | commands are still written to its pipe (`rvgpu.c:99`), which nobody empties, and the main thread blocks |
| TcpRelay, `Signals` | AllConnected | an interrupted poll ends the loop of `connect_hosts` (`rvgpu-tcp.c:183`) instead of repeating it |
| ProxyShutdown, `RendererDies` | WriteEnds | SIGTERM interrupts one write to the full pipe of a renderer that has gone, and the next request blocks again (`rvgpu.c:107`) |
| ProxyShutdown, `RendererDies` | JoinReturns | the resource thread waits for the rest of a message, and is joined (`rvgpu-gpu-device.c:902`) |
| ProxyShutdown | FlushedWithErrors | `rvgpu-proxy.c:658` says "Flush pending virtqueue requests with error responses"; they are answered with VIRTIO_GPU_RESP_OK_NODATA |
| SwapSync, `Hardware` | Released, LastShown | when buffer 0 is in hardware and the others fell back to shared memory, a DRAW of it may be dropped without an acknowledgement (`rvgpu-compositor.c:1014`): its frame is not shown, and with vsync the render process waits for the buffer for ever |
| SwapSync, `Hardware`, two `Sizes` | FreshIntact | a buffer is made anew before the wait for its last frame (`rvgpu-egl.c:477`): a frame that is not composed yet is shown empty |
| ClientLife, `Crashes` | StaysUp | "request thread done" is written to a client that is gone (`rvgpu-compositor.c:1301`): SIGPIPE |
| ClientLife, three clients | AckToOwner | descriptors are closed after REMOVE was written, not after it was taken (`rvgpu-compositor.c:1311`): a frame is acknowledged on another client's connection |
| ClientLife, not `OneAtATime` | Grouped | four connections in a row are taken for those of one client (`rvgpu-connection.c:232`) |
| ClientLife, `Crashes`, two clients with one id | OwnEntry, DrawLands | the REMOVE of a client that has crashed is written by its request thread, later than the ADD of the next process with its id: that one's surface is removed (`rvgpu-compositor.c:1298`) |
| ClientLife, `ThreadFails` | RefusedWithoutThread | a client tests the result of `pthread_create` for `< 0`; it is 0 or positive (`rvgpu-compositor.c:2630`) |
| LayoutList | MaskedValid | the index moves on after an invalid area was removed (`rvgpu-compositor.c:1951`), so the second of two in a row is not checked and is masked; the comment above says "Check if the area is valid within the display bounds" |
| InputFocus, `TouchOutside` | TouchFocusEnds | a touch outside of every window, or a cancel, leaves `touch_down_count` above 0 |

What the code does wrong and the runs go through, so that a property has it as a named
exception and says that nothing else goes wrong in its place:

| module, property | exception | what happens |
|---|---|---|
| InputFocus, NoStuckTouch | `strayed` | a finger that goes down in another window takes `touch_focused` with it, and the up of the first one is sent to that window (`rvgpu-input.c:99`, `109`): the first window keeps its touch |
| InputFocus, NoStuckTouch | `strayed` | a cancel takes back what is queued (`rvgpu-input.c:533`), not what was sent: those touches stay down until their id is used again |
| LayoutSync, PlainServed (JoinEnds) | the layout thread in "recv" | the closed descriptor and its `revents` stay in the poll array (`rvgpu-compositor.c:471`): the turn that accepts the next client blocks in a read of it (`470`) and does not see the stop, so that the join (`2293`) waits as long as that client is silent |
| LayoutSync, PlainServed and NoChangeForgotten | "killed" | the answer is written to a client that has hung up (`rvgpu-compositor.c:589`): SIGPIPE ends the compositor of all |
| LayoutList, AreasKept | `raced` | the compositor removes invalid safety areas without `safety_area_mutex` (`rvgpu-compositor.c:1927`, `1951`) while the layout thread appends others (`524`): an area that was just appended can be lost |
| TcpRelay, DeliveredOut and MainReturns | `GaveUp` | a renderer that does not answer the first message within 10 s ends the relay (`rvgpu-tcp.c:633`): what is written to its pipes afterwards goes nowhere |
| GlSyncObjs, StoredInside | `lacking` > 0 | the arrays shrink for a context that has no entry (`rvgpu-egl.c:125`), for instance one that is destroyed after a draw has emptied the table; the next sync object may then be stored behind them |
| ProxyAccept, RefusedForItsId | a zombie while the acceptor polls | the SIGCHLD of an ending render process interrupts poll, which refuses the proxy that has just connected (`rvgpu-renderer.c:181`) |
| ProxyAccept, RefusedForItsId | `reused` | an entry of a process that has ended is taken for another one with its pid (`rvgpu-renderer.c:215`) |
| ProxyAccept, RefusedForItsId | an entry with `NoPid` | a fork that failed leaves an entry with pid -1, for which `kill` succeeds: the id is refused ever after (`rvgpu-renderer.c:249`) |
| ProxyAccept, Paired and RefusedForItsId | `mixed` | two accepted connections are taken for those of one proxy (`rvgpu-renderer.c:169`) |

Read in the code, without a model: the limit of 4096 MB becomes 0, no limit, in 32
bits (`rvgpu-gpu-device.c:808`); in the vsync build a RESOURCE_FLUSH that reads the
timer consumes the expiration an earlier one waits for
(`rvgpu-gpu-device.c:1447`); with two or more renderers a TRANSFER_FROM_HOST_3D goes
to the first only, so its fence is passed by the others only with a later one
(FencedCompletes therefore speaks of "its fence or a later one").

## 7. Not modelled

* The vsync build (`VSYNC_ENABLE`): another program than the one the runs are
  about. The cursor queue: every request is forwarded and answered at once, by code
  FenceSync models for the control queue.
* The reset path of the proxy (`gpu_reset_state`) with the relay's reconnection:
  unreachable at this commit, since nothing sets the state.
* Lists that one thread searches while another changes them (`get_resource` in the
  resource thread), and focus pointers into freed objects: what the build then reads
  is not a set of outcomes a model could choose from. The hazards say so.
* virglrenderer, EGL, DRM and wayland: libraries, of which the models have what the
  code relies on. Shaders, option parsing, JSON syntax, mmap and copies keep no
  state a model could add to. Sanity checks are pure predicates, of which FenceSync
  has the verdict. The wayland protocol code is generated; the test clients send
  what the models take from them.
