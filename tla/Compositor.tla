----------------------------- MODULE Compositor -----------------------------
(***************************************************************************)
(* The native compositor in the process of the app: the socket it makes    *)
(* when its library is loaded, the window it takes from each surface, and  *)
(* its cleanup, among other threads that open and close files.  Android    *)
(* may kill the process at any step; the name of the socket survives it.   *)
(***************************************************************************)
EXTENDS Integers

CONSTANTS
    Fd,           \* the descriptors a process may have open
    MaxRuns       \* bound: processes started one after the other

ASSUME CompositorAssumption == Fd \subseteq Nat /\ MaxRuns \in Nat

NoFd   == -1
NoFile == 0
Step   == {"unloaded", "socket", "unlink", "bind", "listen", "init", "idle",
           "cleanup", "remove"}
Errno  == {"none", "EMFILE", "ENOENT", "EADDRINUSE", "EIO"}

VARIABLES
    run,                 \* which process runs
    writable,            \* files can be made in the directory of sock_path
    path,                \* the process that bound the file at sock_path
    pc,                  \* where the UI thread is in the library
    sock_fd,             \* createSocket's descriptor
    errno,               \* why createSocket failed
    COMPOSITOR_SOCK_FD,
    listening,           \* the socket of this process listens
    fds,                 \* the kernel's table of descriptors
    files,               \* descriptors that other threads believe are theirs
    shown,               \* the surface exists
    window,              \* the compositor has a window: of which surface
    cleanups             \* history: "none", "one" or "more" in this process

socket  == <<sock_fd, errno, COMPOSITOR_SOCK_FD>>
surface == <<shown, window, cleanups>>
vars    == <<run, writable, path, pc, socket, listening, fds, files, surface>>

TypeOK ==
    /\ run \in 1..MaxRuns + 1 /\ path \in 0..run /\ writable \in BOOLEAN
    /\ pc \in Step /\ errno \in Errno
    /\ sock_fd \in Fd \cup {NoFd} /\ COMPOSITOR_SOCK_FD \in Fd \cup {NoFd}
    /\ listening \in BOOLEAN /\ shown \in BOOLEAN
    /\ fds \in [Fd -> {"free", "socket", "file"}] /\ files \subseteq Fd
    /\ window \in {"null", "current", "stale"}
    /\ cleanups \in {"none", "one", "more"}
    /\ pc \in {"unlink", "bind", "listen"} => sock_fd \in Fd

Init ==
    /\ run = 1 /\ writable \in BOOLEAN /\ path = NoFile
    /\ pc = "unloaded" /\ listening = FALSE
    /\ sock_fd = NoFd /\ errno = "none" /\ COMPOSITOR_SOCK_FD = NoFd
    /\ fds = [f \in Fd |-> "free"] /\ files = {}
    /\ shown = FALSE /\ window = "null" /\ cleanups = "none"

----------------------------------------------------------------------------
(* The kernel and the other threads of the process.                        *)

(* A new descriptor is the lowest that is free.                            *)
IsNewFd(f) == fds[f] = "free" /\ \A g \in Fd : g < f => fds[g] # "free"

(* close() does not ask whose descriptor it is.                            *)
CloseFd(f) ==
    /\ fds' = [fds EXCEPT ![f] = "free"]
    /\ listening' = (listening /\ fds[f] # "socket")

OpenFile ==
    /\ \E f \in Fd : /\ IsNewFd(f)
                     /\ fds' = [fds EXCEPT ![f] = "file"]
                     /\ files' = files \cup {f}
    /\ UNCHANGED <<run, writable, path, pc, socket, listening, surface>>

CloseFile ==
    /\ \E f \in files : CloseFd(f) /\ files' = files \ {f}
    /\ UNCHANGED <<run, writable, path, pc, socket, surface>>

(* The process dies, and the app is started again.                         *)
Kill ==
    /\ run <= MaxRuns
    /\ run' = run + 1
    /\ pc' = "unloaded" /\ listening' = FALSE
    /\ sock_fd' = NoFd /\ errno' = "none" /\ COMPOSITOR_SOCK_FD' = NoFd
    /\ fds' = [f \in Fd |-> "free"] /\ files' = {}
    /\ shown' = FALSE /\ window' = "null" /\ cleanups' = "none"
    /\ UNCHANGED <<writable, path>>

----------------------------------------------------------------------------
(* createSocket, run once, when the first surface loads the library.       *)

(* A mutant of Socket, which does not look whether it failed.              *)
SocketUnchecked ==
    /\ pc = "socket"
    /\ pc' = "unlink"
    /\ \/ \E f \in Fd : /\ IsNewFd(f)
                        /\ fds' = [fds EXCEPT ![f] = "socket"]
                        /\ sock_fd' = f
          /\ UNCHANGED errno
       \/ /\ \A f \in Fd : fds[f] # "free"
          /\ errno' = "EMFILE"
          /\ UNCHANGED <<sock_fd, fds>>
    /\ UNCHANGED <<run, writable, path, COMPOSITOR_SOCK_FD, listening, files,
                   surface>>

Socket ==
    /\ pc = "socket"
    /\ \/ \E f \in Fd : /\ IsNewFd(f)
                        /\ fds' = [fds EXCEPT ![f] = "socket"]
                        /\ sock_fd' = f
          /\ pc' = "unlink"
          /\ UNCHANGED errno
       \/ /\ \A f \in Fd : fds[f] # "free"
          /\ errno' = "EMFILE"
          /\ pc' = "init"
          /\ UNCHANGED <<sock_fd, fds>>
    /\ UNCHANGED <<run, writable, path, COMPOSITOR_SOCK_FD, listening, files,
                   surface>>

(* A mutant of Unlink, which trusts the cleanup before to have removed it. *)
UnlinkNothing ==
    /\ pc = "unlink"
    /\ pc' = "bind"
    /\ UNCHANGED <<run, writable, path, socket, listening, fds, files, surface>>

Unlink ==
    /\ pc = "unlink"
    /\ pc' = "bind"
    /\ path' = IF writable THEN NoFile ELSE path
    /\ UNCHANGED <<run, writable, socket, listening, fds, files, surface>>

(* A mutant of Fails, which forgets to close the descriptor.               *)
FailsOpen(cause) ==
    /\ errno' = cause
    /\ pc' = "init"
    /\ UNCHANGED <<sock_fd, COMPOSITOR_SOCK_FD, listening, fds>>

(* A mutant of Fails, which returns the descriptor that it has closed.     *)
FailsWithFd(cause) ==
    /\ CloseFd(sock_fd)
    /\ errno' = cause
    /\ pc' = "init"
    /\ COMPOSITOR_SOCK_FD' = sock_fd
    /\ UNCHANGED sock_fd

(* The error path of bind and listen: close, return -1.                    *)
Fails(cause) ==
    /\ CloseFd(sock_fd)
    /\ errno' = cause
    /\ pc' = "init"
    /\ UNCHANGED <<sock_fd, COMPOSITOR_SOCK_FD>>

Bind ==
    /\ pc = "bind"
    /\ \/ /\ writable /\ path = NoFile
          /\ path' = run
          /\ pc' = "listen"
          /\ UNCHANGED <<socket, listening, fds>>
       \/ ~writable /\ Fails("ENOENT") /\ UNCHANGED path
       \/ writable /\ path # NoFile /\ Fails("EADDRINUSE") /\ UNCHANGED path
    /\ UNCHANGED <<run, writable, files, surface>>

Listen ==
    /\ pc = "listen"
    /\ \/ /\ listening' = TRUE
          /\ COMPOSITOR_SOCK_FD' = sock_fd
          /\ pc' = "init"
          /\ UNCHANGED <<sock_fd, errno, fds>>
       \/ Fails("EIO")
    /\ UNCHANGED <<run, writable, path, files, surface>>

----------------------------------------------------------------------------
(* The callbacks of the surface, on the UI thread.                         *)

(* Any time while the surface is there; the first call loads the library.  *)
SurfaceChanged ==
    /\ pc \in {"unloaded", "idle"}
    /\ shown' = TRUE
    /\ pc' = IF pc = "unloaded" THEN "socket" ELSE "init"
    /\ UNCHANGED <<run, writable, path, socket, listening, fds, files, window,
                   cleanups>>

(* Compositor::init: the window of the surface, or null.                   *)
InitWindow ==
    /\ pc = "init"
    /\ window' \in {"current", "null"}
    /\ pc' = "idle"
    /\ UNCHANGED <<run, writable, path, socket, listening, fds, files, shown,
                   cleanups>>

SurfaceDestroyed ==
    /\ pc = "idle" /\ shown
    /\ shown' = FALSE
    /\ window' = IF window = "current" THEN "stale" ELSE window
    /\ pc' = "cleanup"
    /\ UNCHANGED <<run, writable, path, socket, listening, fds, files, cleanups>>

(* Compositor::cleanup closes the socket; nothing else of it has an effect, *)
(* since no image was received and no VkInstance made.                     *)
Cleanup ==
    /\ pc = "cleanup"
    /\ cleanups' = IF cleanups = "none" THEN "one" ELSE "more"
    /\ \/ /\ COMPOSITOR_SOCK_FD >= 0
          /\ CloseFd(COMPOSITOR_SOCK_FD)
          /\ pc' = "remove"
       \/ /\ COMPOSITOR_SOCK_FD < 0
          /\ pc' = "idle"
          /\ UNCHANGED <<fds, listening>>
    /\ UNCHANGED <<run, writable, path, socket, files, shown, window>>

(* A mutant of Remove, which keeps the file for the next surface.          *)
RemoveNothing ==
    /\ pc = "remove"
    /\ pc' = "idle"
    /\ UNCHANGED <<run, writable, path, socket, listening, fds, files, surface>>

Remove ==
    /\ pc = "remove"
    /\ pc' = "idle"
    /\ path' = IF writable THEN NoFile ELSE path
    /\ UNCHANGED <<run, writable, socket, listening, fds, files, surface>>

Next ==
    \/ OpenFile \/ CloseFile \/ Kill
    \/ Socket \/ Unlink \/ Bind \/ Listen
    \/ SurfaceChanged \/ InitWindow \/ SurfaceDestroyed \/ Cleanup \/ Remove

Spec == Init /\ [][Next]_vars

----------------------------------------------------------------------------
(* A name left behind by a process that was killed, at any of its steps,   *)
(* never keeps the next one from binding its socket.                       *)
NameIsNeverTaken == errno # "EADDRINUSE"

(* While there is a descriptor and no cleanup has begun, a client that     *)
(* opens the file reaches this process, and is not refused.                *)
OfferedIsReachable ==
    COMPOSITOR_SOCK_FD # NoFd /\ cleanups = "none"
        => fds[COMPOSITOR_SOCK_FD] = "socket" /\ listening /\ path = run

(* No way out of createSocket leaves a socket open that nothing names.     *)
NoSocketIsLost ==
    \A f \in Fd : fds[f] = "socket" =>
        \/ f = COMPOSITOR_SOCK_FD
        \/ f = sock_fd /\ pc \in {"unlink", "bind", "listen"}

(* The file of a running process does not outlive its listening: a client  *)
(* that finds it between two callbacks is served, or listen() had failed.  *)
NoDeadName ==
    pc = "idle" /\ path = run /\ errno # "EIO" => listening

(* "close socket": the descriptors of other threads stay open.             *)
FilesStayOpen == \A f \in files : fds[f] = "file"

(* So they do through the first cleanup of a process.                      *)
FirstCleanupIsSafe == cleanups # "more" => FilesStayOpen
=============================================================================
