---------------------------- MODULE WaylandBackend ----------------------------
(***************************************************************************)
(* The nested Wayland backend (src/wayland_backend.cpp): KWin running as a *)
(* client of a parent Wayland compositor.                                   *)
(*                                                                         *)
(* A ConnectionThread connects on its own thread and reports connected,    *)
(* failed or connectionDied through queued connections to the main thread *)
(* (the FIFO queue).  On connected the main thread creates the registry,   *)
(* which then announces the parent's globals one by one and finally        *)
(* interfacesAnnounced, on which createSurface runs.  backendReady is      *)
(* emitted once the fullscreen surface has a valid size.  The X11 cursor   *)
(* tracker turns X11 cursor changes into buffers, which reach the seat's   *)
(* pointer (no sub-compositor) or the sub-surface cursor.                  *)
(*                                                                         *)
(* Data is abstracted: a global is its interface name, a cursor image is  *)
(* the X11 serial it was read for or "themed" (a Qt::CursorShape from the  *)
(* theme), a size is only valid or not.  Key, button, motion and axis      *)
(* events are forwarded to the input redirection unchanged and are not    *)
(* modelled.                                                               *)
(***************************************************************************)
EXTENDS Naturals, Sequences

CONSTANTS
  Servers,       \* the sets of globals a parent compositor may offer
  Serials,       \* X11 cursor serials (m_lastX11Cursor starts as none)
  UsesLibinput,  \* Application::usesLibinput()
  MaxEvents      \* bound on X11 cursor changes, seat, pointer and resize events

(* The interfaces that a registry handler only binds (setup). *)
Bindable == {"compositor", "shell", "shm", "fullscreenShell", "subCompositor"}

Globals == Bindable \cup {"output", "seat"}

ASSUME Servers \subseteq SUBSET Globals /\ "none" \notin Serials
ASSUME UsesLibinput \in BOOLEAN /\ MaxEvents \in Nat

(* m_outputs.first() in createSurface and shellSurfaceSize: a parent that  *)
(* offers a fullscreen shell offers an output.                             *)
ASSUME \A s \in Servers : "fullscreenShell" \in s => "output" \in s

VARIABLES
  server,        \* the globals the parent compositor offers
  thread,        \* the ConnectionThread: "connecting", "connected", "dead", "failed"
  queue,         \* signals queued from the connection thread to the main thread
  display,       \* m_display is set and the registry is created
  unannounced,   \* globals the registry has yet to announce
  initial,       \* interfacesAnnounced has been emitted
  bound,         \* the Bindable proxies that are set up (isValid)
  outputs,       \* Len(m_outputs)
  outSized,      \* m_outputs.first()->pixelSize().isValid()
  outWatched,    \* createSurface's Output::changed lambda is connected
  surface,       \* m_surface: "none", "valid", "invalid"
  cursorObj,     \* m_cursor (the sub-surface WaylandCursor) exists
  shellSurface,  \* m_shellSurface exists
  shellSized,    \* m_shellSurface->size().isValid()
  armed,         \* checkBackendReady is connected to shellSurfaceSizeChanged
  ready,         \* the number of backendReady emissions
  seat,          \* m_seat
  tracker,       \* m_cursorTracker
  xcursor,       \* the X11 cursor's serial
  pointerCursor, \* the parent's cursor image for our pointer
  subCursor,     \* the image attached to the WaylandCursor sub-surface
  events

vars == <<server, thread, queue, display, unannounced, initial, bound, outputs,
          outSized, outWatched, surface, cursorObj, shellSurface, shellSized,
          armed, ready, seat, tracker, xcursor, pointerCursor, subCursor, events>>

NoSeat == [on |-> FALSE, kcap |-> FALSE, pcap |-> FALSE, kbd |-> FALSE,
           ptr |-> FALSE, listens |-> FALSE, install |-> FALSE]

(* WaylandSeat::WaylandSeat: no keyboard, no pointer, cursor not installed. *)
NewSeat == [NoSeat EXCEPT !.on = TRUE]

NoTracker == [on |-> FALSE, last |-> "none", cache |-> {}]

Images == {"none", "unset", "hidden", "themed"} \cup Serials

Event == events < MaxEvents /\ events' = events + 1

-----------------------------------------------------------------------------
(***************************************************************************)
(* WaylandBackend::shellSurfaceSize().isValid(): the shell surface's size, *)
(* else the first output's when the fullscreen shell is valid.             *)
(***************************************************************************)
SizeValid(shs, shsz, bnd, sized) ==
  IF shs THEN shsz ELSE "fullscreenShell" \in bnd /\ sized

(* checkBackendReady that does not disconnect itself. *)
CheckBackendReady_stays_connected(valid) ==
  IF armed /\ valid THEN ready' = ready + 1 /\ UNCHANGED armed
  ELSE UNCHANGED <<armed, ready>>

(* checkBackendReady, run by a shellSurfaceSizeChanged emission. *)
CheckBackendReady(valid) ==
  IF armed /\ valid THEN armed' = FALSE /\ ready' = ready + 1
  ELSE UNCHANGED <<armed, ready>>

(***************************************************************************)
(* cursorImageChanged(image) reaches the seat's lambda (connected when its *)
(* first pointer was created) and the WaylandCursor's (connected when it   *)
(* was created; the tracker only lives as long as the connection).         *)
(* WaylandSeat::installCursorImage needs the install flag and a pointer.   *)
(***************************************************************************)
EmitImage(img) ==
  /\ pointerCursor' = IF seat.listens /\ seat.install /\ seat.ptr THEN img ELSE pointerCursor
  /\ subCursor' = IF cursorObj THEN img ELSE subCursor

(***************************************************************************)
(* X11CursorTracker::cursorChanged: an unchanged serial is ignored; the    *)
(* serial is recorded; a cached cursor is installed; with an invalid shm   *)
(* pool it returns; otherwise the X11 image is read, cached and installed. *)
(***************************************************************************)
cursorChanged(s) ==
  IF tracker.last = s THEN UNCHANGED <<tracker, pointerCursor, subCursor>>
  ELSE IF s \in tracker.cache
       THEN tracker' = [tracker EXCEPT !.last = s] /\ EmitImage(s)
  ELSE IF "shm" \notin bound
       THEN tracker' = [tracker EXCEPT !.last = s] /\ UNCHANGED <<pointerCursor, subCursor>>
  ELSE tracker' = [tracker EXCEPT !.last = s, !.cache = @ \cup {s}] /\ EmitImage(s)

(* createSurface without the Output::changed connection for the fullscreen shell. *)
createSurface_no_output_watch ==
  /\ surface' = IF "compositor" \in bound THEN "valid" ELSE "invalid"
  /\ IF "compositor" \notin bound
     THEN UNCHANGED <<cursorObj, subCursor, seat, outWatched, shellSurface, armed, ready>>
     ELSE /\ cursorObj' = ("subCompositor" \in bound)
          /\ subCursor' = IF "subCompositor" \in bound THEN "themed" ELSE subCursor
          /\ seat' = IF "subCompositor" \notin bound /\ seat.on
                     THEN [seat EXCEPT !.install = TRUE] ELSE seat
          /\ outWatched' = FALSE
          /\ shellSurface' = ("fullscreenShell" \notin bound /\ "shell" \in bound)
          /\ IF "fullscreenShell" \in bound /\ outSized
             THEN CheckBackendReady(SizeValid(FALSE, FALSE, bound, outSized))
             ELSE UNCHANGED <<armed, ready>>

(***************************************************************************)
(* WaylandBackend::createSurface: the surface (invalid without a bound     *)
(* compositor: return); the sub-surface cursor, which installs the arrow,  *)
(* or else the seat installs the cursor; then the fullscreen shell         *)
(* presents the surface on the first output, emits its size if valid and  *)
(* watches the output, or the shell maps a fullscreen shell surface.       *)
(***************************************************************************)
createSurface ==
  /\ surface' = IF "compositor" \in bound THEN "valid" ELSE "invalid"
  /\ IF "compositor" \notin bound
     THEN UNCHANGED <<cursorObj, subCursor, seat, outWatched, shellSurface, armed, ready>>
     ELSE /\ cursorObj' = ("subCompositor" \in bound)
          /\ subCursor' = IF "subCompositor" \in bound THEN "themed" ELSE subCursor
          /\ seat' = IF "subCompositor" \notin bound /\ seat.on
                     THEN [seat EXCEPT !.install = TRUE] ELSE seat
          /\ outWatched' = ("fullscreenShell" \in bound)
          /\ shellSurface' = ("fullscreenShell" \notin bound /\ "shell" \in bound)
          /\ IF "fullscreenShell" \in bound /\ outSized
             THEN CheckBackendReady(SizeValid(FALSE, FALSE, bound, outSized))
             ELSE UNCHANGED <<armed, ready>>

-----------------------------------------------------------------------------
(* ConnectionThread::initConnection, on its thread: connected or failed. *)
thread_connects ==
  /\ thread = "connecting"
  /\ \E r \in {"connected", "failed"} : thread' = r /\ queue' = Append(queue, r)
  /\ UNCHANGED <<server, display, unannounced, initial, bound, outputs, outSized,
                 outWatched, surface, cursorObj, shellSurface, shellSized, armed,
                 ready, seat, tracker, xcursor, pointerCursor, subCursor, events>>

(* The parent compositor goes away: connectionDied is queued. *)
thread_dies ==
  /\ thread = "connected"
  /\ thread' = "dead" /\ queue' = Append(queue, "died")
  /\ UNCHANGED <<server, display, unannounced, initial, bound, outputs, outSized,
                 outWatched, surface, cursorObj, shellSurface, shellSized, armed,
                 ready, seat, tracker, xcursor, pointerCursor, subCursor, events>>

(***************************************************************************)
(* The queued connected slot: the display and event queue, the registry    *)
(* (which will announce the parent's globals) and the X11 cursor tracker.  *)
(***************************************************************************)
connected ==
  /\ queue /= <<>> /\ Head(queue) = "connected"
  /\ queue' = Tail(queue)
  /\ display' = TRUE /\ unannounced' = server
  /\ tracker' = [NoTracker EXCEPT !.on = TRUE]
  /\ UNCHANGED <<server, thread, initial, bound, outputs, outSized, outWatched,
                 surface, cursorObj, shellSurface, shellSized, armed, ready, seat,
                 xcursor, pointerCursor, subCursor, events>>

(***************************************************************************)
(* The queued connectionDied slot: systemCompositorDied; the tracker, the  *)
(* seat, shm, the outputs, the shell surface, the fullscreen shell, the    *)
(* surface, the shell, the compositor, the registry and the event queue   *)
(* are destroyed.  m_subCompositor and m_cursor are left as they are.      *)
(***************************************************************************)
connection_died ==
  /\ queue /= <<>> /\ Head(queue) = "died"
  /\ queue' = Tail(queue)
  /\ tracker' = NoTracker /\ seat' = NoSeat
  /\ bound' = bound \cap {"subCompositor"}
  /\ outputs' = 0 /\ outSized' = FALSE /\ outWatched' = FALSE
  /\ shellSurface' = FALSE /\ shellSized' = FALSE /\ surface' = "none"
  /\ display' = FALSE /\ unannounced' = {}
  /\ UNCHANGED <<server, thread, initial, cursorObj, armed, ready, xcursor,
                 pointerCursor, subCursor, events>>

(* The queued failed signal: connectionFailed is forwarded. *)
connection_failed ==
  /\ queue /= <<>> /\ Head(queue) = "failed"
  /\ queue' = Tail(queue)
  /\ UNCHANGED <<server, thread, display, unannounced, initial, bound, outputs,
                 outSized, outWatched, surface, cursorObj, shellSurface, shellSized,
                 armed, ready, seat, tracker, xcursor, pointerCursor, subCursor, events>>

(* A registry handler that sets up whatever global is announced. *)
interface_announced_any_global ==
  /\ display
  /\ \E g \in unannounced :
       unannounced' = unannounced \ {g} /\ bound' = bound \cup {g}
  /\ UNCHANGED <<server, thread, queue, display, initial, outputs, outSized,
                 outWatched, surface, cursorObj, shellSurface, shellSized, armed,
                 ready, seat, tracker, xcursor, pointerCursor, subCursor, events>>

(* Registry::compositorAnnounced, shellAnnounced, shmAnnounced,            *)
(* fullscreenShellAnnounced, subCompositorAnnounced: bind and set up.      *)
interface_announced ==
  /\ display
  /\ \E g \in unannounced \cap Bindable :
       unannounced' = unannounced \ {g} /\ bound' = bound \cup {g}
  /\ UNCHANGED <<server, thread, queue, display, initial, outputs, outSized,
                 outWatched, surface, cursorObj, shellSurface, shellSized, armed,
                 ready, seat, tracker, xcursor, pointerCursor, subCursor, events>>

(* Registry::outputAnnounced: a new Output is set up and appended. *)
output_announced ==
  /\ display /\ "output" \in unannounced
  /\ unannounced' = unannounced \ {"output"}
  /\ outputs' = outputs + 1
  /\ UNCHANGED <<server, thread, queue, display, initial, bound, outSized,
                 outWatched, surface, cursorObj, shellSurface, shellSized, armed,
                 ready, seat, tracker, xcursor, pointerCursor, subCursor, events>>

(* Registry::seatAnnounced: ignored with libinput, else a new WaylandSeat. *)
seat_announced ==
  /\ display /\ "seat" \in unannounced
  /\ unannounced' = unannounced \ {"seat"}
  /\ seat' = IF UsesLibinput THEN seat ELSE NewSeat
  /\ UNCHANGED <<server, thread, queue, display, initial, bound, outputs, outSized,
                 outWatched, surface, cursorObj, shellSurface, shellSized, armed,
                 ready, tracker, xcursor, pointerCursor, subCursor, events>>

(* Registry::interfacesAnnounced, after the last global: createSurface. *)
interfaces_announced ==
  /\ display /\ unannounced = {} /\ ~initial
  /\ initial' = TRUE
  /\ createSurface
  /\ UNCHANGED <<server, thread, queue, display, unannounced, bound, outputs,
                 outSized, shellSized, tracker, xcursor, pointerCursor, events>>

(***************************************************************************)
(* The first output reports a mode (Output::changed): outputsChanged and,  *)
(* once createSurface watches it, shellSurfaceSizeChanged if valid.  The   *)
(* first mode is the parent's answer to the bind; later ones are events.   *)
(***************************************************************************)
output_changed ==
  /\ display /\ outputs > 0
  /\ IF outSized THEN Event ELSE UNCHANGED events
  /\ outSized' = TRUE
  /\ IF outWatched THEN CheckBackendReady(SizeValid(shellSurface, shellSized, bound, TRUE))
     ELSE UNCHANGED <<armed, ready>>
  /\ UNCHANGED <<server, thread, queue, display, unannounced, initial, bound, outputs,
                 outWatched, surface, cursorObj, shellSurface, shellSized, seat,
                 tracker, xcursor, pointerCursor, subCursor>>

(***************************************************************************)
(* The parent configures the fullscreen shell surface (ShellSurface::      *)
(* sizeChanged, forwarded as shellSurfaceSizeChanged); the first configure *)
(* answers setFullscreen, later ones are resizes.                          *)
(***************************************************************************)
shell_surface_configured ==
  /\ display /\ shellSurface
  /\ IF shellSized THEN Event ELSE UNCHANGED events
  /\ shellSized' = TRUE
  /\ CheckBackendReady(SizeValid(TRUE, TRUE, bound, outSized))
  /\ UNCHANGED <<server, thread, queue, display, unannounced, initial, bound, outputs,
                 outSized, outWatched, surface, cursorObj, shellSurface, seat,
                 tracker, xcursor, pointerCursor, subCursor>>

(***************************************************************************)
(* Seat::hasKeyboardChanged (emitted on a change of the seat's             *)
(* capabilities): a keyboard is created, or destroyKeyboard.               *)
(***************************************************************************)
has_keyboard_changed ==
  /\ display /\ seat.on /\ Event
  /\ seat' = [seat EXCEPT !.kcap = ~@, !.kbd = ~seat.kcap]
  /\ UNCHANGED <<server, thread, queue, display, unannounced, initial, bound, outputs,
                 outSized, outWatched, surface, cursorObj, shellSurface, shellSized,
                 armed, ready, tracker, xcursor, pointerCursor, subCursor>>

(***************************************************************************)
(* Seat::hasPointerChanged: without a pointer one is created and the       *)
(* tracker's cursorImageChanged is connected to the seat; on loss of the   *)
(* capability destroyPointer.                                              *)
(***************************************************************************)
has_pointer_changed ==
  /\ display /\ seat.on /\ Event
  /\ seat' = IF ~seat.pcap
             THEN [seat EXCEPT !.pcap = TRUE, !.ptr = TRUE,
                               !.listens = seat.listens \/ ~seat.ptr]
             ELSE [seat EXCEPT !.pcap = FALSE, !.ptr = FALSE]
  /\ UNCHANGED <<server, thread, queue, display, unannounced, initial, bound, outputs,
                 outSized, outWatched, surface, cursorObj, shellSurface, shellSized,
                 armed, ready, tracker, xcursor, pointerCursor, subCursor>>

(***************************************************************************)
(* Pointer::entered: the parent's cursor for the surface is unset until   *)
(* the client sets one; unless the seat installs the cursor, it is hidden  *)
(* explicitly.                                                             *)
(***************************************************************************)
pointer_entered ==
  /\ display /\ seat.on /\ seat.ptr /\ Event
  /\ pointerCursor' = IF seat.install THEN "unset" ELSE "hidden"
  /\ UNCHANGED <<server, thread, queue, display, unannounced, initial, bound, outputs,
                 outSized, outWatched, surface, cursorObj, shellSurface, shellSized,
                 armed, ready, seat, tracker, xcursor, subCursor>>

(* The X11 cursor changes; while tracked, Cursor::cursorChanged reaches the tracker. *)
x11_cursor_changed ==
  /\ Event
  /\ \E s \in Serials \ {xcursor} :
       /\ xcursor' = s
       /\ IF tracker.on THEN cursorChanged(s) ELSE UNCHANGED <<tracker, pointerCursor, subCursor>>
  /\ UNCHANGED <<server, thread, queue, display, unannounced, initial, bound, outputs,
                 outSized, outWatched, surface, cursorObj, shellSurface, shellSized,
                 armed, ready, seat>>

(***************************************************************************)
(* ShellSurface::pinged reaches X11CursorTracker::resetCursor: the cursor  *)
(* last recorded is installed again if it is cached.                       *)
(***************************************************************************)
shell_surface_pinged ==
  /\ display /\ shellSurface /\ Event
  /\ IF tracker.last \in tracker.cache THEN EmitImage(tracker.last)
     ELSE UNCHANGED <<pointerCursor, subCursor>>
  /\ UNCHANGED <<server, thread, queue, display, unannounced, initial, bound, outputs,
                 outSized, outWatched, surface, cursorObj, shellSurface, shellSized,
                 armed, ready, seat, tracker, xcursor>>

(***************************************************************************)
(* WaylandBackend::installCursorImage(shape): through the seat when it     *)
(* installs the cursor (WaylandSeat::installCursorImage needs a pointer),  *)
(* else through the sub-surface cursor if there is one.                    *)
(***************************************************************************)
install_cursor_shape ==
  /\ Event
  /\ IF seat.on /\ seat.install
     THEN /\ pointerCursor' = IF seat.ptr THEN "themed" ELSE pointerCursor
          /\ UNCHANGED subCursor
     ELSE /\ subCursor' = IF cursorObj THEN "themed" ELSE subCursor
          /\ UNCHANGED pointerCursor
  /\ UNCHANGED <<server, thread, queue, display, unannounced, initial, bound, outputs,
                 outSized, outWatched, surface, cursorObj, shellSurface, shellSized,
                 armed, ready, seat, tracker, xcursor>>

-----------------------------------------------------------------------------
(* WaylandBackend::WaylandBackend: the registry handlers and checkBackendReady *)
(* are connected, initConnection starts the connection thread.             *)
Init ==
  /\ server \in Servers
  /\ thread = "connecting" /\ queue = <<>>
  /\ display = FALSE /\ unannounced = {} /\ initial = FALSE
  /\ bound = {} /\ outputs = 0 /\ outSized = FALSE /\ outWatched = FALSE
  /\ surface = "none" /\ cursorObj = FALSE /\ shellSurface = FALSE /\ shellSized = FALSE
  /\ armed = TRUE /\ ready = 0
  /\ seat = NoSeat /\ tracker = NoTracker
  /\ xcursor \in Serials /\ pointerCursor = "none" /\ subCursor = "none"
  /\ events = 0

Next ==
  \/ thread_connects \/ thread_dies
  \/ connected \/ connection_died \/ connection_failed
  \/ interface_announced \/ output_announced \/ seat_announced \/ interfaces_announced
  \/ output_changed \/ shell_surface_configured
  \/ has_keyboard_changed \/ has_pointer_changed \/ pointer_entered
  \/ x11_cursor_changed \/ shell_surface_pinged \/ install_cursor_shape

(***************************************************************************)
(* The main thread's event loop delivers queued signals and the parent     *)
(* compositor's events; the parent answers the registry, reports the      *)
(* output's mode and configures the fullscreen surface it was asked for.   *)
(* It is not assumed to stay alive, nor to send input or resize events.    *)
(***************************************************************************)
Fairness ==
  /\ WF_vars(thread_connects)
  /\ WF_vars(connected) /\ WF_vars(connection_died) /\ WF_vars(connection_failed)
  /\ WF_vars(interface_announced) /\ WF_vars(output_announced)
  /\ WF_vars(seat_announced) /\ WF_vars(interfaces_announced)
  /\ WF_vars(~outSized /\ output_changed)
  /\ WF_vars(~shellSized /\ shell_surface_configured)

Spec == Init /\ [][Next]_vars /\ Fairness

-----------------------------------------------------------------------------
TypeOK ==
  /\ server \in Servers
  /\ thread \in {"connecting", "connected", "dead", "failed"}
  /\ queue \in Seq({"connected", "died", "failed"})
  /\ display \in BOOLEAN /\ initial \in BOOLEAN
  /\ unannounced \subseteq server /\ bound \subseteq Bindable
  /\ outputs \in Nat /\ outSized \in BOOLEAN /\ outWatched \in BOOLEAN
  /\ surface \in {"none", "valid", "invalid"}
  /\ cursorObj \in BOOLEAN /\ shellSurface \in BOOLEAN /\ shellSized \in BOOLEAN
  /\ armed \in BOOLEAN /\ ready \in Nat
  /\ seat \in [on : BOOLEAN, kcap : BOOLEAN, pcap : BOOLEAN, kbd : BOOLEAN,
               ptr : BOOLEAN, listens : BOOLEAN, install : BOOLEAN]
  /\ tracker \in [on : BOOLEAN, last : Serials \cup {"none"}, cache : SUBSET Serials]
  /\ xcursor \in Serials
  /\ pointerCursor \in Images /\ subCursor \in Images
  /\ events \in 0 .. MaxEvents

(***************************************************************************)
(* checkBackendReady disconnects itself: backendReady is emitted once,     *)
(* and only when shellSurfaceSize() is valid, whatever resizes and output  *)
(* mode changes the parent sends afterwards.                               *)
(***************************************************************************)
ReadyOnceWhenSized ==
  [][ready' /= ready => ready' = 1 /\ SizeValid(shellSurface', shellSized', bound', outSized')]_vars

(***************************************************************************)
(* A parent that offers a compositor and a shell or a fullscreen shell     *)
(* gets the backend ready, unless the connection fails or dies: whichever  *)
(* comes first of the output's mode and createSurface, the size reaches    *)
(* checkBackendReady.                                                      *)
(***************************************************************************)
Usable == "compositor" \in server /\ ("shell" \in server \/ "fullscreenShell" \in server)

BackendEventuallyReady == Usable => <>(ready > 0 \/ thread \in {"dead", "failed"})

(***************************************************************************)
(* cursorChanged returns early for the serial it recorded last ("not      *)
(* changed"): that serial's image is installed, and cached, so that       *)
(* resetCursor can install it again.                                       *)
(***************************************************************************)
RecordedCursorCached == tracker.on /\ tracker.last /= "none" => tracker.last \in tracker.cache

=============================================================================
