------------------------------ MODULE SpiceServer -----------------------------
(***************************************************************************)
(* The life of the SPICE backend (src/src/spice/compositor-spice.c): how   *)
(* its parts are made, run and taken down around the worker thread of      *)
(* libspice-server, and the frame buffer the two threads share.  A draw    *)
(* command only points to the frame buffer (QXL_BITMAP_DIRECT): the worker *)
(* reads whatever is there when it gets to the command, while the main     *)
(* thread may be rendering.  A frame has two halves, so that it can be     *)
(* seen half rendered.                                                     *)
(***************************************************************************)
EXTENDS Integers, Sequences, FiniteSets

CONSTANTS
  MaxContents,  \* bound: contents the clients commit
  QueueSize     \* commands the ring holds (MAX_COMMAND_NUM)

ASSUME SpiceServerAssumption ==
  MaxContents \in Nat \ {0} /\ QueueSize \in Nat \ {0}

VARIABLES
  pc,        \* where the main thread is
  memory,    \* what is allocated, commands apart
  timer,     \* wakeup_timer: "none", "off" or "armed"
  content,   \* the number of the clients' last commit
  fb,        \* the frame buffer: the commit each half was rendered from
  queue,     \* the ring of commands
  live,      \* commands that are allocated and will be released
  worker,    \* the thread of libspice-server
  picture    \* what the SPICE client sees, half by half

serverVars == <<pc, memory, timer, content, fb, queue, live, worker, picture>>

Halves == 1 .. 2
Frames == 0 .. MaxContents
NoCmd == 0
Cmds == 1 .. QueueSize + 2
Parts == {"backend", "mouse", "kbd", "output", "bits", "surface"}
Starting == {"server", "input", "output", "wakeup"}
Ending == {"destroy", "vm_stop", "free_input", "drain", "free_output"}

\* zalloc in spice_backend_create
ServerInit ==
  /\ pc = "server" /\ memory = {"backend"} /\ timer = "none"
  /\ content = 0 /\ fb = [h \in Halves |-> 0] /\ queue = <<>> /\ live = {}
  /\ worker = [attached |-> FALSE, surface |-> FALSE, running |-> FALSE,
               cmd |-> NoCmd, half |-> 1]
  /\ picture = [h \in Halves |-> 0]
-----------------------------------------------------------------------------
\* Starting up, in the order of spice_backend_create.

\* Any failure ends in err_server: the backend is freed, and compositor->
\* backend is not set, so that nothing will take the rest down.
Fail(freed) ==
  /\ pc' = "failed" /\ memory' = memory \ (freed \cup {"backend"})
  /\ UNCHANGED <<timer, content, fb, queue, live, worker, picture>>

\* weston_spice_attache_worker keeps the first worker it is given.
AttachWorker(w) == [w EXCEPT !.attached = TRUE]

\* spice_create_primary_surface
CreatePrimarySurface(w) == [w EXCEPT !.surface = TRUE]

\* weston_spice_server_new: an unknown compression name fails; adding the
\* display interface calls weston_spice_attache_worker.
ServerNew ==
  /\ pc = "server"
  /\ \/ /\ pc' = "input" /\ worker' = AttachWorker(worker)
        /\ UNCHANGED <<memory, timer, content, fb, queue, live, picture>>
     \/ Fail({})

\* weston_spice_input_init: without a keymap the keyboard fails.
InputInit ==
  /\ pc = "input"
  /\ \/ /\ pc' = "output" /\ memory' = memory \cup {"mouse", "kbd"}
        /\ UNCHANGED <<timer, content, fb, queue, live, worker, picture>>
     \/ Fail({})

\* spice_create_output up to the primary surface, which lies in
\* output->surface, or an allocation that fails before it.
CreateOutput ==
  /\ pc = "output"
  /\ \/ /\ pc' = "wakeup" /\ memory' = memory \cup {"output", "bits", "surface"}
        /\ worker' = CreatePrimarySurface(worker)
        /\ UNCHANGED <<timer, content, fb, queue, live, picture>>
     \/ Fail({})

\* The rest of it: the renderer's part (err_pixman_create) and the timer.
\* free(full_image) frees the pixman structure only, never the bits.
CreateTimer ==
  /\ pc = "wakeup"
  /\ \/ /\ pc' = "loop" /\ timer' = "off"
        /\ UNCHANGED <<memory, content, fb, queue, live, worker, picture>>
     \/ Fail({"surface", "output"})
-----------------------------------------------------------------------------
\* The main loop.

\* wl_surface.commit, in a dispatch of the main loop
ClientCommit ==
  /\ pc = "loop" /\ content < MaxContents
  /\ content' = content + 1
  /\ UNCHANGED <<pc, memory, timer, fb, queue, live, worker, picture>>

\* spice_output_start_repaint_loop.  (It may be called again later: then the
\* server runs and the timer is armed already.)
StartRepaintLoop ==
  /\ pc = "loop" /\ timer = "off"
  /\ timer' = "armed" /\ worker' = [worker EXCEPT !.running = TRUE]
  /\ UNCHANGED <<pc, memory, content, fb, queue, live, picture>>

\* Mutation: the timer is not armed again.
OnWakeup_NoRearm ==
  /\ pc = "loop" /\ timer = "armed"
  /\ timer' = "expired" /\ pc' = "render"
  /\ fb' = [fb EXCEPT ![1] = content]
  /\ UNCHANGED <<memory, content, queue, live, worker, picture>>

\* on_wakeup: arm the timer again, end the frame and repaint.  Nothing takes
\* the damage out of the primary plane: every frame is rendered whole.  Here
\* its first half,
OnWakeup ==
  /\ pc = "loop" /\ timer = "armed"
  /\ pc' = "render"
  /\ fb' = [fb EXCEPT ![1] = content]
  /\ UNCHANGED <<memory, timer, content, queue, live, worker, picture>>

\* and its second, with the end of weston_renderer's repaint_output.
RenderRest ==
  /\ pc = "render" /\ pc' = "paint"
  /\ fb' = [fb EXCEPT ![2] = content]
  /\ UNCHANGED <<memory, timer, content, queue, live, worker, picture>>

\* spice_paint_image and push_command: no memory for the command, a ring
\* that stayed full (the command is not freed and never will be), or queued.
PaintImage ==
  /\ pc = "paint" /\ pc' = "loop"
  /\ \/ UNCHANGED <<queue, live>>
     \/ /\ Len(queue) < QueueSize
        /\ LET cmd == CHOOSE c \in Cmds : c \notin live
           IN  queue' = Append(queue, cmd) /\ live' = live \cup {cmd}
  /\ UNCHANGED <<memory, timer, content, fb, worker, picture>>
-----------------------------------------------------------------------------
\* The worker thread.

\* weston_spice_get_command
WorkerGetCommand ==
  /\ worker.running /\ worker.cmd = NoCmd /\ queue # <<>>
  /\ worker' = [worker EXCEPT !.cmd = Head(queue), !.half = 1]
  /\ queue' = Tail(queue)
  /\ UNCHANGED <<pc, memory, timer, content, fb, live, picture>>

\* It copies the frame buffer to the primary surface and to the client.
ReadHalf ==
  /\ worker.cmd # NoCmd /\ worker.half \in Halves
  /\ picture' = [picture EXCEPT ![worker.half] = fb[worker.half]]
  /\ worker' = [worker EXCEPT !.half = @ + 1]
  /\ UNCHANGED <<pc, memory, timer, content, fb, queue, live>>

\* weston_spice_release_resource and release_simple
ReleaseResource ==
  /\ worker.cmd # NoCmd /\ worker.half \notin Halves
  /\ live' = live \ {worker.cmd}
  /\ worker' = [worker EXCEPT !.cmd = NoCmd]
  /\ UNCHANGED <<pc, memory, timer, content, fb, queue, picture>>
-----------------------------------------------------------------------------
\* Taking down: weston_compositor_destroy, after a signal or wl_display's end.
Terminate ==
  /\ pc = "loop" /\ pc' = "destroy"
  /\ UNCHANGED <<memory, timer, content, fb, queue, live, worker, picture>>

\* Mutation: the image is freed with its bits, as pixman_image_unref would.
OutputDestroy_FreesBits ==
  /\ pc = "destroy" /\ pc' = "vm_stop"
  /\ timer' = "none" /\ memory' = memory \ {"bits"}
  /\ UNCHANGED <<content, fb, queue, live, worker, picture>>

\* weston_compositor_shutdown calls spice_output_destroy while the server
\* runs: the timer goes, and the structure of the image.
OutputDestroy ==
  /\ pc = "destroy" /\ pc' = "vm_stop"
  /\ timer' = "none"
  /\ UNCHANGED <<memory, content, fb, queue, live, worker, picture>>

\* spice_server_vm_stop returns when the worker is between two commands.
ServerVmStop ==
  /\ pc = "vm_stop" /\ worker.cmd = NoCmd /\ pc' = "free_input"
  /\ worker' = [worker EXCEPT !.running = FALSE]
  /\ UNCHANGED <<memory, timer, content, fb, queue, live, picture>>

\* weston_spice_mouse_destroy, weston_spice_kbd_destroy
FreeInput ==
  /\ pc = "free_input" /\ pc' = "drain" /\ memory' = memory \ {"mouse", "kbd"}
  /\ UNCHANGED <<timer, content, fb, queue, live, worker, picture>>

\* Mutation: the last command of the ring is left.
QxlDestroy_LeavesLast ==
  /\ pc = "drain" /\ Len(queue) > 1
  /\ queue' = Tail(queue) /\ live' = live \ {Head(queue)}
  /\ UNCHANGED <<pc, memory, timer, content, fb, worker, picture>>

\* weston_spice_qxl_destroy releases what the worker did not take.
QxlDestroy ==
  /\ pc = "drain" /\ queue # <<>>
  /\ queue' = Tail(queue) /\ live' = live \ {Head(queue)}
  /\ UNCHANGED <<pc, memory, timer, content, fb, worker, picture>>

\* The end of that loop
Drained ==
  /\ pc = "drain" /\ queue = <<>> /\ pc' = "free_output"
  /\ UNCHANGED <<memory, timer, content, fb, queue, live, worker, picture>>

\* The rest of spice_destroy.  Bits and backend are left to the process's end.
FreeOutput ==
  /\ pc = "free_output" /\ pc' = "exit"
  /\ memory' = memory \ {"surface", "output"}
  /\ UNCHANGED <<timer, content, fb, queue, live, worker, picture>>

StartUp == ServerNew \/ InputInit \/ CreateOutput \/ CreateTimer
Repaint == StartRepaintLoop \/ OnWakeup \/ RenderRest \/ PaintImage
Work == WorkerGetCommand \/ ReadHalf \/ ReleaseResource
Shutdown == OutputDestroy \/ ServerVmStop \/ FreeInput \/ QxlDestroy \/ Drained \/ FreeOutput

ServerNext == StartUp \/ ClientCommit \/ Repaint \/ Work \/ Terminate \/ Shutdown

\* Both threads run, and push_command is not out of memory for ever.  Nobody
\* need end the program.
ServerSpec ==
  /\ ServerInit /\ [][ServerNext]_serverVars
  /\ WF_serverVars(StartUp) /\ WF_serverVars(Repaint)
  /\ WF_serverVars(Work) /\ WF_serverVars(Shutdown)
  /\ SF_serverVars(PaintImage /\ queue' # queue)
-----------------------------------------------------------------------------
ServerTypeOK ==
  /\ pc \in Starting \cup {"loop", "render", "paint", "failed", "exit"} \cup Ending
  /\ memory \subseteq Parts
  /\ timer \in {"none", "off", "armed"}
  /\ content \in Frames /\ fb \in [Halves -> Frames]
  /\ queue \in Seq(Cmds) /\ Len(queue) <= QueueSize /\ live \subseteq Cmds
  /\ worker \in [attached : BOOLEAN, surface : BOOLEAN, running : BOOLEAN,
                 cmd : Cmds \cup {NoCmd}, half : 1 .. 3]
  /\ picture \in [Halves -> Frames]

\* What the worker may touch at any moment is there: the QXL instance (in the
\* backend) while it runs, the frame buffer and the primary surface while
\* commands can reach it.
WorkerSafe ==
  worker.running \/ worker.cmd # NoCmd
    => {"backend", "bits", "surface"} \subseteq memory

\* A timer of the main loop never points to an output that is gone or going.
TimerSafe == timer # "none" => "output" \in memory /\ pc \notin Ending \ {"destroy"}

\* Each command that will be released is in one place, once: in the ring or
\* with the worker.  So it is released once, by the worker or by the drain.
CommandsOnce ==
  LET queued == {queue[i] : i \in 1 .. Len(queue)}
      held == {worker.cmd} \ {NoCmd}
  IN /\ live = queued \cup held /\ queued \cap held = {}
     /\ Cardinality(queued) = Len(queue)

\* assert (b->worker != NULL) of spice_create_primary_surface, and no frame
\* is drawn to a surface the server does not know.
Attached ==
  /\ pc \notin {"server", "input", "failed"} => worker.attached
  /\ worker.running => worker.surface

\* However the two threads interleave, the client ends up with a picture at
\* least as new as each commit in both of its halves, unless the compositor
\* was shut down.
PictureCatchesUp ==
  \A n \in Frames :
    (content >= n /\ pc = "loop")
      ~> ((\A h \in Halves : picture[h] >= n) \/ pc \in Ending)

\* Shutdown ends, with no command left behind.
ShutdownEnds == (pc \in Ending) ~> (pc = "exit" /\ live = {})

\* Through start-up, each way it can fail, and shutdown, neither thread reaches
\* what is not there, or no longer, and no command is released twice.
NothingDangles ==
  ServerTypeOK /\ WorkerSafe /\ TimerSafe /\ CommandsOnce /\ Attached
=============================================================================
