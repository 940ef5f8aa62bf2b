-------------------------- MODULE CompositorProofs --------------------------
(***************************************************************************)
(* Proofs about the two native parts.  Compositor first, for any           *)
(* descriptors and any number of processes that die and start again, then  *)
(* HardwareBuffers, for any addresses and any bounds.                      *)
(***************************************************************************)
EXTENDS Compositor, HardwareBuffers, SequenceTheorems, TLAPS

(* The library has not finished createSocket.                              *)
Loading == pc \in {"unloaded", "socket", "unlink", "bind", "listen"}

(* Which descriptors are sockets, up to the first cleanup and after it.    *)
SocketInv ==
    /\ Loading => /\ COMPOSITOR_SOCK_FD = NoFd /\ errno = "none"
                  /\ cleanups = "none" /\ ~listening
    /\ pc \in {"unlink", "bind", "listen"} => fds[sock_fd] = "socket"
    /\ pc = "remove" => cleanups # "none"
    /\ COMPOSITOR_SOCK_FD = NoFd => ~listening
    /\ COMPOSITOR_SOCK_FD # NoFd /\ cleanups = "none" =>
          fds[COMPOSITOR_SOCK_FD] = "socket" /\ listening
    /\ cleanups # "none" => ~listening /\ \A f \in Fd : fds[f] # "socket"
    /\ NoSocketIsLost
    /\ FirstCleanupIsSafe

(* Whose name is at sock_path, at each step of the library.                *)
PathInv ==
    /\ path # NoFile => writable
    /\ pc \in {"unloaded", "socket", "unlink", "bind"} => path # run
    /\ pc = "bind" /\ writable => path = NoFile
    /\ pc = "listen" => path = run
    /\ COMPOSITOR_SOCK_FD # NoFd /\ cleanups = "none" => path = run
    /\ pc \in {"init", "idle", "cleanup"} /\ path = run /\ errno # "EIO"
          => listening
    /\ NameIsNeverTaken

IInv == TypeOK /\ SocketInv /\ PathInv

----------------------------------------------------------------------------
LEMMA InitInv == Init => IInv
<1> SUFFICES ASSUME Init
             PROVE  IInv
  OBVIOUS
<1> USE DEF Init, NoFd, NoFile
<1>1. TypeOK
  <2>1. fds \in [Fd -> {"free", "socket", "file"}]
    OBVIOUS
  <2>2. run \in 1..MaxRuns + 1 /\ path \in 0..run
    BY CompositorAssumption
  <2>3. QED
    BY <2>1, <2>2 DEF TypeOK, Step, Errno
<1>2. SocketInv
  BY DEF SocketInv, Loading, NoSocketIsLost, FirstCleanupIsSafe, FilesStayOpen
<1>3. PathInv
  BY DEF PathInv, NameIsNeverTaken
<1>4. QED
  BY <1>1, <1>2, <1>3 DEF IInv

(* Every step keeps the types.                                             *)
LEMMA TypeStep ==
    ASSUME TypeOK, Next
    PROVE  TypeOK'
<1> USE CompositorAssumption DEF NoFd, NoFile
<1>1. CASE OpenFile
  BY <1>1
     DEF TypeOK, Step, Errno, OpenFile, IsNewFd, socket, surface
<1>2. CASE CloseFile
  BY <1>2
     DEF TypeOK, Step, Errno, CloseFile, CloseFd, socket, surface
<1>3. CASE Kill
  <2>1. /\ run \in Int /\ MaxRuns \in Int
        /\ path \in 0..run + 1 /\ run + 1 \in 1..MaxRuns + 1
    BY <1>3 DEF TypeOK, Kill
  <2>2. fds' \in [Fd -> {"free", "socket", "file"}]
    BY <1>3 DEF Kill
  <2>3. QED
    BY <1>3, <2>1, <2>2 DEF TypeOK, Step, Errno, Kill
<1>4. CASE Socket
  BY <1>4
     DEF TypeOK, Step, Errno, Socket, IsNewFd, surface
<1>5. CASE Unlink
  BY <1>5
     DEF TypeOK, Step, Errno, Unlink, socket, surface
<1>6. CASE Bind
  <2>1. path' \in 0..run
    BY <1>6 DEF TypeOK, Bind
  <2>2. ASSUME NEW e \in {"ENOENT", "EADDRINUSE"}, Fails(e)
        PROVE  TypeOK'
    <3>1. pc' = "init" /\ errno' \in Errno /\ listening' \in BOOLEAN
      BY <2>2 DEF Fails, CloseFd, Errno
    <3>2. fds' \in [Fd -> {"free", "socket", "file"}]
      BY <2>2 DEF TypeOK, Fails, CloseFd
    <3>3. QED
      BY <1>6, <2>1, <2>2, <3>1, <3>2 DEF TypeOK, Step, Bind, Fails, surface
  <2>3. CASE pc' = "listen" /\ UNCHANGED <<socket, listening, fds>>
    BY <1>6, <2>1, <2>3 DEF TypeOK, Step, Errno, Bind, socket, surface
  <2>4. QED
    BY <1>6, <2>2, <2>3 DEF Bind
<1>7. CASE Listen
  BY <1>7
     DEF TypeOK, Step, Errno, Listen, Fails, CloseFd, surface
<1>8. CASE SurfaceChanged
  BY <1>8
     DEF TypeOK, Step, Errno, SurfaceChanged, socket
<1>9. CASE InitWindow
  BY <1>9
     DEF TypeOK, Step, Errno, InitWindow, socket
<1>10. CASE SurfaceDestroyed
  BY <1>10
     DEF TypeOK, Step, Errno, SurfaceDestroyed, socket
<1>11. CASE Cleanup
  <2>1. /\ fds' \in [Fd -> {"free", "socket", "file"}]
        /\ listening' \in BOOLEAN
    BY <1>11 DEF TypeOK, Cleanup, CloseFd
  <2>2. /\ pc' \in {"remove", "idle"} /\ cleanups' \in {"one", "more"}
        /\ UNCHANGED <<run, writable, path, sock_fd, errno,
                       COMPOSITOR_SOCK_FD, files, shown, window>>
    BY <1>11 DEF Cleanup, socket
  <2>3. QED
    BY <2>1, <2>2 DEF TypeOK, Step
<1>12. CASE Remove
  BY <1>12
     DEF TypeOK, Step, Errno, Remove, socket, surface
<1>13. QED
  BY <1>1, <1>2, <1>3, <1>4, <1>5, <1>6, <1>7, <1>8, <1>9, <1>10, <1>11,
     <1>12
     DEF Next

(* Every step keeps track of the sockets.                                  *)
LEMMA SocketStep ==
    ASSUME TypeOK, SocketInv, Next
    PROVE  SocketInv'
<1> USE CompositorAssumption DEF NoFd, NoFile
<1>1. CASE OpenFile
  BY <1>1
     DEF TypeOK, Step, Errno, SocketInv, Loading, NoSocketIsLost,
         FirstCleanupIsSafe, FilesStayOpen, OpenFile, IsNewFd, socket,
         surface
<1>2. CASE CloseFile
  BY <1>2
     DEF TypeOK, Step, Errno, SocketInv, Loading, NoSocketIsLost,
         FirstCleanupIsSafe, FilesStayOpen, CloseFile, CloseFd, socket,
         surface
<1>3. CASE Kill
  BY <1>3
     DEF TypeOK, Step, Errno, SocketInv, Loading, NoSocketIsLost,
         FirstCleanupIsSafe, FilesStayOpen, Kill
<1>4. CASE Socket
  BY <1>4
     DEF TypeOK, Step, Errno, SocketInv, Loading, NoSocketIsLost,
         FirstCleanupIsSafe, FilesStayOpen, Socket, IsNewFd, surface
<1>5. CASE Unlink
  BY <1>5
     DEF TypeOK, Step, Errno, SocketInv, Loading, NoSocketIsLost,
         FirstCleanupIsSafe, FilesStayOpen, Unlink, socket, surface
<1>6. CASE Bind
  BY <1>6
     DEF TypeOK, Step, Errno, SocketInv, Loading, NoSocketIsLost,
         FirstCleanupIsSafe, FilesStayOpen, Bind, Fails, CloseFd, socket,
         surface
<1>7. CASE Listen
  BY <1>7
     DEF TypeOK, Step, Errno, SocketInv, Loading, NoSocketIsLost,
         FirstCleanupIsSafe, FilesStayOpen, Listen, Fails, CloseFd,
         surface
<1>8. CASE SurfaceChanged
  BY <1>8
     DEF TypeOK, Step, Errno, SocketInv, Loading, NoSocketIsLost,
         FirstCleanupIsSafe, FilesStayOpen, SurfaceChanged, socket
<1>9. CASE InitWindow
  BY <1>9
     DEF TypeOK, Step, Errno, SocketInv, Loading, NoSocketIsLost,
         FirstCleanupIsSafe, FilesStayOpen, InitWindow, socket
<1>10. CASE SurfaceDestroyed
  BY <1>10
     DEF TypeOK, Step, Errno, SocketInv, Loading, NoSocketIsLost,
         FirstCleanupIsSafe, FilesStayOpen, SurfaceDestroyed, socket
<1>11. CASE Cleanup
  <2>1. CASE COMPOSITOR_SOCK_FD < 0
    <3>1. COMPOSITOR_SOCK_FD = NoFd /\ ~Loading /\ ~Loading'
      BY <1>11, <2>1 DEF TypeOK, Cleanup, Loading
    <3>2. \A f \in Fd : fds[f] # "socket"
      BY <1>11, <3>1 DEF Cleanup, SocketInv, NoSocketIsLost
    <3>3. UNCHANGED <<fds, listening, files, COMPOSITOR_SOCK_FD>>
      BY <1>11, <2>1, <3>1 DEF Cleanup, socket
    <3>4. /\ pc' = "idle" /\ ~listening
          /\ cleanups' # "more" => cleanups = "none"
      BY <1>11, <2>1, <3>1 DEF Cleanup, SocketInv
    <3>5. QED
      BY <3>1, <3>2, <3>3, <3>4 DEF SocketInv, Loading,
         NoSocketIsLost, FirstCleanupIsSafe, FilesStayOpen
  <2>2. CASE COMPOSITOR_SOCK_FD >= 0
    <3>1. COMPOSITOR_SOCK_FD \in Fd /\ ~Loading /\ ~Loading'
      BY <1>11, <2>2 DEF TypeOK, Cleanup, Loading
    <3>2. \A f \in Fd : fds[f] = "socket" => f = COMPOSITOR_SOCK_FD
      BY <1>11 DEF Cleanup, SocketInv, NoSocketIsLost
    <3>3. /\ fds' = [fds EXCEPT ![COMPOSITOR_SOCK_FD] = "free"]
          /\ fds \in [Fd -> {"free", "socket", "file"}]
      BY <1>11, <2>2 DEF Cleanup, CloseFd, TypeOK
    <3>4. \A f \in Fd : fds'[f] # "socket"
      BY <3>2, <3>3
    <3>5. ~listening'
      <4>1. ~listening \/ fds[COMPOSITOR_SOCK_FD] = "socket"
        BY <3>1 DEF SocketInv
      <4>2. listening' = (listening /\ fds[COMPOSITOR_SOCK_FD] # "socket")
        BY <1>11, <2>2, <3>1 DEF Cleanup, CloseFd
      <4>3. QED
        BY <4>1, <4>2
    <3>6. FirstCleanupIsSafe'
      BY <1>11, <2>2, <3>1, <3>3 DEF TypeOK, Cleanup, SocketInv,
         FirstCleanupIsSafe, FilesStayOpen
    <3>7. QED
      BY <1>11, <2>2, <3>1, <3>4, <3>5, <3>6 DEF Cleanup, socket, SocketInv,
         NoSocketIsLost
  <2>3. QED
    BY <1>11, <2>1, <2>2 DEF Cleanup
<1>12. CASE Remove
  BY <1>12
     DEF TypeOK, Step, Errno, SocketInv, Loading, NoSocketIsLost,
         FirstCleanupIsSafe, FilesStayOpen, Remove, socket, surface
<1>13. QED
  BY <1>1, <1>2, <1>3, <1>4, <1>5, <1>6, <1>7, <1>8, <1>9, <1>10, <1>11,
     <1>12
     DEF Next

(* Every step keeps track of the name.                                     *)
LEMMA PathStep ==
    ASSUME TypeOK, SocketInv, PathInv, Next
    PROVE  PathInv'
<1> USE CompositorAssumption DEF NoFd, NoFile
<1>1. CASE OpenFile
  BY <1>1
     DEF TypeOK, SocketInv, Loading, FirstCleanupIsSafe, FilesStayOpen,
         PathInv, NameIsNeverTaken, OpenFile, IsNewFd, socket, surface
<1>2. CASE CloseFile
  BY <1>2
     DEF TypeOK, SocketInv, Loading, FirstCleanupIsSafe, FilesStayOpen,
         PathInv, NameIsNeverTaken, CloseFile, CloseFd, socket, surface
<1>3. CASE Kill
  BY <1>3
     DEF TypeOK, SocketInv, Loading, FirstCleanupIsSafe, FilesStayOpen,
         PathInv, NameIsNeverTaken, Kill
<1>4. CASE Socket
  BY <1>4
     DEF TypeOK, SocketInv, Loading, FirstCleanupIsSafe, FilesStayOpen,
         PathInv, NameIsNeverTaken, Socket, IsNewFd, surface
<1>5. CASE Unlink
  BY <1>5
     DEF TypeOK, SocketInv, Loading, FirstCleanupIsSafe, FilesStayOpen,
         PathInv, NameIsNeverTaken, Unlink, socket, surface
<1>6. CASE Bind
  BY <1>6
     DEF TypeOK, SocketInv, Loading, FirstCleanupIsSafe, FilesStayOpen,
         PathInv, NameIsNeverTaken, Bind, Fails, CloseFd, socket, surface
<1>7. CASE Listen
  BY <1>7
     DEF TypeOK, SocketInv, Loading, FirstCleanupIsSafe, FilesStayOpen,
         PathInv, NameIsNeverTaken, Listen, Fails, CloseFd, surface
<1>8. CASE SurfaceChanged
  BY <1>8
     DEF TypeOK, SocketInv, Loading, FirstCleanupIsSafe, FilesStayOpen,
         PathInv, NameIsNeverTaken, SurfaceChanged, socket
<1>9. CASE InitWindow
  BY <1>9
     DEF TypeOK, SocketInv, Loading, FirstCleanupIsSafe, FilesStayOpen,
         PathInv, NameIsNeverTaken, InitWindow, socket
<1>10. CASE SurfaceDestroyed
  BY <1>10
     DEF TypeOK, SocketInv, Loading, FirstCleanupIsSafe, FilesStayOpen,
         PathInv, NameIsNeverTaken, SurfaceDestroyed, socket
<1>11. CASE Cleanup
  BY <1>11
     DEF TypeOK, SocketInv, Loading, FirstCleanupIsSafe, FilesStayOpen,
         PathInv, NameIsNeverTaken, Cleanup, CloseFd, socket
<1>12. CASE Remove
  BY <1>12
     DEF TypeOK, SocketInv, Loading, FirstCleanupIsSafe, FilesStayOpen,
         PathInv, NameIsNeverTaken, Remove, socket, surface
<1>13. QED
  BY <1>1, <1>2, <1>3, <1>4, <1>5, <1>6, <1>7, <1>8, <1>9, <1>10, <1>11,
     <1>12
     DEF Next

LEMMA StepInv ==
    ASSUME IInv, [Next]_vars
    PROVE  IInv'
<1>1. CASE Next
  BY <1>1, TypeStep, SocketStep, PathStep DEF IInv
<1>2. CASE UNCHANGED vars
  BY <1>2 DEF IInv, vars, socket, surface, TypeOK, SocketInv, PathInv,
              Loading, NoSocketIsLost, FirstCleanupIsSafe, FilesStayOpen,
              NameIsNeverTaken
<1>3. QED
  BY <1>1, <1>2

LEMMA Inductive == Spec => []IInv
<1>1. IInv /\ [Next]_vars => IInv'
  BY StepInv
<1>2. QED
  BY <1>1, InitInv, PTL DEF Spec

----------------------------------------------------------------------------
(* The state of the library keeps its types, and createSocket never binds  *)
(* or listens with the -1 of a socket() that failed.                       *)
THEOREM TypeCorrect == Spec => []TypeOK
<1>1. IInv => TypeOK
  BY DEF IInv
<1>2. QED
  BY <1>1, Inductive, PTL

(* createSocket never finds the name of a killed process in its way.       *)
THEOREM BindFindsNoName == Spec => []NameIsNeverTaken
<1>1. IInv => NameIsNeverTaken
  BY DEF IInv, PathInv
<1>2. QED
  BY <1>1, Inductive, PTL

(* Until the first cleanup, a client that opens the name reaches a socket   *)
(* of this process that listens.                                           *)
THEOREM ClientsAreServed == Spec => []OfferedIsReachable
<1>1. IInv => OfferedIsReachable
  BY DEF IInv, SocketInv, PathInv, OfferedIsReachable
<1>2. QED
  BY <1>1, Inductive, PTL

(* createSocket closes its socket on each of its error paths.              *)
THEOREM SocketsAreClosed == Spec => []NoSocketIsLost
<1>1. IInv => NoSocketIsLost
  BY DEF IInv, SocketInv
<1>2. QED
  BY <1>1, Inductive, PTL

(* Between callbacks, the name of this process leads to a socket that      *)
(* listens, unless listen() had failed.                                    *)
THEOREM NamesAreRemoved == Spec => []NoDeadName
<1>1. IInv => NoDeadName
  BY DEF IInv, PathInv, NoDeadName
<1>2. QED
  BY <1>1, Inductive, PTL

(* The first cleanup closes nothing but the socket of the library.         *)
THEOREM OneCleanupIsSafe == Spec => []FirstCleanupIsSafe
<1>1. IInv => FirstCleanupIsSafe
  BY DEF IInv, SocketInv
<1>2. QED
  BY <1>1, Inductive, PTL

----------------------------------------------------------------------------
(* HardwareBuffers.                                                        *)

(* What is in the socket are the last buffers sent, and the images are of  *)
(* earlier ones.                                                           *)
OrderInv ==
    /\ Len(channel) <= sent
    /\ \A i \in DOMAIN channel : channel[i] = (sent - Len(channel)) + i
    /\ \A i \in DOMAIN image_buffers :
          image_buffers[i].description <= sent - Len(channel)

(* OneOwner, in two parts.                                                 *)
FreshImagesAreLive ==
    \A i \in Fresh :
        /\ image_buffers[i].ahb \in live \ dropped
        /\ \A j \in Fresh : i # j =>
              image_buffers[i].ahb # image_buffers[j].ahb

OnlyOverwrittenAreLost ==
    live = dropped \cup {image_buffers[i].ahb : i \in Fresh}

BuffersInv ==
    /\ BuffersTypeOK /\ FreshImagesAreLive /\ OnlyOverwrittenAreLost
    /\ OrderInv /\ ImagesInOrder

----------------------------------------------------------------------------
(* emplace_back adds one image and leaves the others where they are.       *)
LEMMA EmplaceBackAppends ==
    ASSUME BuffersTypeOK, NEW b \in Buffer, NEW d \in 1..MaxSent,
           EmplaceBack(b, d)
    PROVE  /\ image_buffers' \in Seq(Image)
           /\ Len(image_buffers') = Len(image_buffers) + 1
           /\ \A i \in 1..Len(image_buffers) :
                 image_buffers'[i] = image_buffers[i]
           /\ image_buffers'[Len(image_buffers) + 1]
                 = [ahb |-> b, description |-> d]
<1>1. [ahb |-> b, description |-> d] \in Image
  BY DEF Image
<1>2. QED
  BY <1>1 DEF BuffersTypeOK, EmplaceBack

(* The two ways to receive an image: both list one buffer that was not     *)
(* live, and one of them drops another.                                    *)
LEMMA Received ==
    ASSUME BuffersTypeOK, RecvImageBuffers
    PROVE  \E b \in Buffer \ live, lost \in SUBSET (Buffer \ live) :
              /\ b \notin lost
              /\ live' = live \cup lost \cup {b}
              /\ dropped' = dropped \cup lost
              /\ EmplaceBack(b, Head(channel))
<1>1. PICK r \in Buffer : \/ \E a \in Buffer : RecvAllocates(r, a)
                          \/ RecvAllocateFails(r)
  BY DEF RecvImageBuffers
<1>2. ASSUME NEW a \in Buffer, RecvAllocates(r, a)
      PROVE  /\ a \in Buffer \ live /\ {r} \in SUBSET (Buffer \ live)
             /\ a \notin {r}
             /\ live' = live \cup {r} \cup {a}
             /\ dropped' = dropped \cup {r}
             /\ EmplaceBack(a, Head(channel))
  BY <1>2 DEF RecvAllocates
<1>3. ASSUME RecvAllocateFails(r)
      PROVE  /\ r \in Buffer \ live /\ {} \in SUBSET (Buffer \ live)
             /\ r \notin {}
             /\ live' = live \cup {} \cup {r}
             /\ dropped' = dropped \cup {}
             /\ EmplaceBack(r, Head(channel))
  BY <1>3 DEF RecvAllocateFails
<1>4. QED
  BY <1>1, <1>2, <1>3

(* What is received is the first buffer in the socket.                     *)
LEMMA HeadReceived ==
    ASSUME BuffersTypeOK, channel # <<>>, channel' = Tail(channel)
    PROVE  /\ Len(channel) \in Nat \ {0} /\ Head(channel) = channel[1]
           /\ Head(channel) \in 1..MaxSent
           /\ channel' \in Seq(1..MaxSent) /\ Len(channel') = Len(channel) - 1
           /\ \A i \in DOMAIN channel' :
                 i + 1 \in DOMAIN channel /\ channel'[i] = channel[i + 1]
<1>1. channel \in Seq(1..MaxSent)
  BY DEF BuffersTypeOK
<1>2. /\ Head(channel) \in 1..MaxSent
      /\ channel' \in Seq(1..MaxSent) /\ Len(channel') = Len(channel) - 1
      /\ \A i \in 1..Len(channel') : channel'[i] = channel[i + 1]
  BY <1>1, HeadTailProperties
<1>3. Len(channel) \in Nat \ {0} /\ Head(channel) = channel[1]
  BY <1>1, EmptySeq
<1>4. DOMAIN channel = 1..Len(channel) /\ DOMAIN channel' = 1..Len(channel')
  BY <1>1, <1>2
<1>5. QED
  BY <1>2, <1>3, <1>4

----------------------------------------------------------------------------
LEMMA BuffersInitInv == BuffersInit => BuffersInv
<1> SUFFICES ASSUME BuffersInit
             PROVE  BuffersInv
  OBVIOUS
<1>1. /\ image_buffers = <<>> /\ channel = <<>> /\ sent = 0
      /\ live = {} /\ dropped = {} /\ stale = 0 /\ misfreed = FALSE
  BY DEF BuffersInit
<1>2. BuffersTypeOK
  <2>1. <<>> \in Seq(Image) /\ <<>> \in Seq(1..MaxSent) /\ Len(<<>>) = 0
    BY EmptySeq
  <2>2. sent \in 0..MaxSent /\ stale \in 0..Len(image_buffers)
    BY <1>1, <2>1, BuffersAssumption
  <2>3. live \subseteq Buffer /\ dropped \subseteq Buffer
    BY <1>1
  <2>4. QED
    BY <1>1, <2>1, <2>2, <2>3 DEF BuffersTypeOK
<1>3. Fresh = {}
  BY <1>1 DEF Fresh
<1>4. FreshImagesAreLive /\ OnlyOverwrittenAreLost
  BY <1>1, <1>3 DEF FreshImagesAreLive, OnlyOverwrittenAreLost
<1>5. OrderInv /\ ImagesInOrder
  BY <1>1 DEF OrderInv, ImagesInOrder
<1>6. QED
  BY <1>2, <1>4, <1>5 DEF BuffersInv

(* The peer's step.                                                        *)
LEMMA SendStep ==
    ASSUME BuffersInv, SendBuffer
    PROVE  BuffersInv'
<1>1. /\ UNCHANGED <<image_buffers, live, dropped, stale, misfreed>>
      /\ sent' = sent + 1 /\ sent' \in 1..MaxSent /\ sent \in Nat
  BY BuffersAssumption DEF BuffersInv, BuffersTypeOK, SendBuffer, memory
<1>2. /\ channel' \in Seq(1..MaxSent) /\ Len(channel') = Len(channel) + 1
      /\ \A i \in 1..Len(channel) : channel'[i] = channel[i]
      /\ channel'[Len(channel) + 1] = sent + 1
      /\ Len(channel) \in Nat /\ DOMAIN channel = 1..Len(channel)
      /\ DOMAIN channel' = 1..Len(channel) + 1
  BY <1>1 DEF BuffersInv, BuffersTypeOK, SendBuffer
<1>3. BuffersTypeOK'
  BY <1>1, <1>2 DEF BuffersInv, BuffersTypeOK
<1>4. FreshImagesAreLive' /\ OnlyOverwrittenAreLost' /\ ImagesInOrder'
  BY <1>1
     DEF BuffersInv, FreshImagesAreLive, OnlyOverwrittenAreLost, ImagesInOrder,
         Fresh
<1>5. \A i \in DOMAIN channel' : channel'[i] = (sent' - Len(channel')) + i
  BY <1>1, <1>2 DEF BuffersInv, OrderInv
<1>6. sent' - Len(channel') = sent - Len(channel) /\ Len(channel') <= sent'
  BY <1>1, <1>2 DEF BuffersInv, OrderInv
<1>7. OrderInv'
  BY <1>1, <1>5, <1>6 DEF BuffersInv, OrderInv
<1>8. QED
  BY <1>3, <1>4, <1>7 DEF BuffersInv

(* An image received.                                                      *)
LEMMA ReceiveStep ==
    ASSUME BuffersInv, RecvImageBuffers
    PROVE  BuffersInv'
<1>1. BuffersTypeOK /\ OrderInv /\ channel # <<>> /\ channel' = Tail(channel)
  BY DEF BuffersInv, RecvImageBuffers
<1>2. UNCHANGED <<sent, stale, misfreed>>
  BY DEF RecvImageBuffers
<1>3. PICK b \in Buffer \ live, lost \in SUBSET (Buffer \ live) :
         /\ b \notin lost
         /\ live' = live \cup lost \cup {b}
         /\ dropped' = dropped \cup lost
         /\ EmplaceBack(b, Head(channel))
  BY <1>1, Received
<1> DEFINE n == Len(image_buffers)
<1>4. /\ Len(channel) \in Nat \ {0} /\ Head(channel) \in 1..MaxSent
      /\ Head(channel) = (sent - Len(channel)) + 1
      /\ channel' \in Seq(1..MaxSent) /\ Len(channel') = Len(channel) - 1
      /\ \A i \in DOMAIN channel' :
            i + 1 \in DOMAIN channel /\ channel'[i] = channel[i + 1]
  <2>1. 1 \in DOMAIN channel
    BY <1>1, HeadReceived DEF BuffersTypeOK
  <2>2. QED
    BY <1>1, <2>1, HeadReceived DEF OrderInv
<1>5. /\ image_buffers' \in Seq(Image) /\ Len(image_buffers') = n + 1
      /\ \A i \in 1..n : image_buffers'[i] = image_buffers[i]
      /\ image_buffers'[n + 1].ahb = b
      /\ image_buffers'[n + 1].description = Head(channel)
      /\ n \in Nat /\ stale \in 0..n
      /\ DOMAIN image_buffers = 1..n /\ DOMAIN image_buffers' = 1..n + 1
  <2>1. /\ image_buffers' \in Seq(Image) /\ Len(image_buffers') = n + 1
        /\ \A i \in 1..n : image_buffers'[i] = image_buffers[i]
        /\ image_buffers'[n + 1]
              = [ahb |-> b, description |-> Head(channel)]
    BY <1>1, <1>3, <1>4, EmplaceBackAppends
  <2>2. image_buffers \in Seq(Image) /\ stale \in 0..n
    BY <1>1 DEF BuffersTypeOK
  <2>3. QED
    BY <2>1, <2>2
<1> HIDE DEF n
<1>6. BuffersTypeOK'
  BY <1>1, <1>2, <1>3, <1>4, <1>5 DEF BuffersTypeOK
<1>7. /\ Fresh' = Fresh \cup {n + 1} /\ Fresh \subseteq 1..n
      /\ \A i \in Fresh : image_buffers[i].ahb \in live \ dropped
  BY <1>2, <1>5 DEF BuffersInv, Fresh, FreshImagesAreLive, n
<1>8. dropped \subseteq live
  BY DEF BuffersInv, OnlyOverwrittenAreLost
<1>9. FreshImagesAreLive'
  <2>1. ASSUME NEW i \in Fresh
        PROVE  /\ image_buffers'[i].ahb = image_buffers[i].ahb
               /\ image_buffers'[i].ahb \in live' \ dropped'
               /\ image_buffers'[i].ahb # b
    BY <1>3, <1>5, <1>7
  <2>2. b \in live' \ dropped'
    BY <1>3, <1>8
  <2>3. ASSUME NEW i \in Fresh, NEW j \in Fresh, i # j
        PROVE  image_buffers[i].ahb # image_buffers[j].ahb
    BY <2>3 DEF BuffersInv, FreshImagesAreLive
  <2>4. QED
    BY <1>5, <1>7, <2>1, <2>2, <2>3 DEF FreshImagesAreLive
<1>10. OnlyOverwrittenAreLost'
  <2>1. {image_buffers'[i].ahb : i \in Fresh'}
           = {image_buffers[i].ahb : i \in Fresh} \cup {b}
    BY <1>5, <1>7
  <2>2. QED
    BY <1>3, <2>1 DEF BuffersInv, OnlyOverwrittenAreLost
<1>11. /\ sent \in Nat /\ Len(channel) <= sent
       /\ \A i \in 1..n :
             /\ image_buffers[i].description \in Nat
             /\ image_buffers[i].description <= sent - Len(channel)
  <2>1. \A i \in 1..n : image_buffers[i] \in Image
    BY <1>1, <1>5 DEF BuffersTypeOK
  <2>2. \A i \in 1..n : image_buffers[i].description \in Nat
    BY <2>1 DEF Image
  <2>3. sent \in Nat
    BY <1>1 DEF BuffersTypeOK
  <2>4. QED
    BY <1>1, <1>5, <2>2, <2>3 DEF OrderInv
<1>12. OrderInv'
  <2>1. \A i \in DOMAIN channel' : channel'[i] = (sent - Len(channel')) + i
    <3>1. DOMAIN channel' \subseteq Nat
      BY <1>4
    <3>2. QED
      BY <1>1, <1>4, <1>11, <3>1 DEF OrderInv
  <2>2. Len(channel') <= sent' /\ sent' = sent
    BY <1>2, <1>4, <1>11
  <2>3. \A i \in 1..n + 1 :
           image_buffers'[i].description <= sent - Len(channel')
    BY <1>4, <1>5, <1>11
  <2>4. QED
    BY <1>5, <2>1, <2>2, <2>3 DEF OrderInv
<1>13. ImagesInOrder'
  <2>1. ASSUME NEW i \in 1..n + 1, NEW j \in 1..n + 1, i < j
        PROVE  image_buffers'[i].description < image_buffers'[j].description
    <3>1. i \in 1..n
      BY <1>5, <2>1
    <3>2. CASE j = n + 1
      BY <1>4, <1>5, <1>11, <3>1, <3>2
    <3>3. CASE j \in 1..n
      BY <1>5, <2>1, <3>1, <3>3 DEF BuffersInv, ImagesInOrder
    <3>4. QED
      BY <1>5, <3>2, <3>3
  <2>2. QED
    BY <1>5, <2>1 DEF ImagesInOrder
<1>14. QED
  BY <1>6, <1>9, <1>10, <1>12, <1>13 DEF BuffersInv

(* An exception.                                                           *)
LEMMA ThrowStep ==
    ASSUME BuffersInv, RecvThrows
    PROVE  BuffersInv'
<1>1. /\ BuffersTypeOK /\ OrderInv /\ channel # <<>> /\ channel' = Tail(channel)
      /\ UNCHANGED <<image_buffers, sent, live, dropped, stale, misfreed>>
  BY DEF BuffersInv, RecvThrows, memory
<1>2. BuffersTypeOK'
  BY <1>1, HeadReceived DEF BuffersTypeOK
<1>3. OrderInv'
  <2>1. sent \in Nat /\ Len(channel') = Len(channel) - 1
    BY <1>1, HeadReceived DEF BuffersTypeOK
  <2>2. \A i \in DOMAIN channel' : channel'[i] = (sent - Len(channel')) + i
    BY <1>1, <2>1, HeadReceived DEF OrderInv, BuffersTypeOK
  <2>3. \A i \in DOMAIN image_buffers : image_buffers[i].description \in Nat
    <3>1. \A i \in DOMAIN image_buffers : image_buffers[i] \in Image
      BY <1>1 DEF BuffersTypeOK
    <3>2. QED
      BY <3>1 DEF Image
  <2>4. QED
    BY <1>1, <2>1, <2>2, <2>3, HeadReceived DEF OrderInv
<1>4. FreshImagesAreLive' /\ OnlyOverwrittenAreLost' /\ ImagesInOrder'
  BY <1>1
     DEF BuffersInv, FreshImagesAreLive, OnlyOverwrittenAreLost, ImagesInOrder,
         Fresh
<1>5. QED
  BY <1>2, <1>3, <1>4 DEF BuffersInv

(* Buffers allocated for copies.                                           *)
LEMMA AllocateStep ==
    ASSUME BuffersInv, AllocateBuffers
    PROVE  BuffersInv'
<1>1. PICK new \in SUBSET (Buffer \ live) :
         live' = live \cup new /\ dropped' = dropped \cup new
  BY DEF AllocateBuffers
<1>2. UNCHANGED <<image_buffers, channel, sent, stale, misfreed>>
  BY DEF AllocateBuffers
<1>3. BuffersTypeOK' /\ OrderInv' /\ ImagesInOrder'
  BY <1>1, <1>2 DEF BuffersInv, BuffersTypeOK, OrderInv, ImagesInOrder
<1>4. FreshImagesAreLive' /\ OnlyOverwrittenAreLost'
  BY <1>1, <1>2
     DEF BuffersInv, FreshImagesAreLive, OnlyOverwrittenAreLost, Fresh
<1>5. QED
  BY <1>3, <1>4 DEF BuffersInv

(* Every image released.                                                   *)
LEMMA ReleaseStep ==
    ASSUME BuffersInv, ReleaseBuffers
    PROVE  BuffersInv'
<1>1. UNCHANGED <<image_buffers, channel, sent>> /\ misfreed' \in BOOLEAN
  BY DEF ReleaseBuffers
<1>2. stale' = Len(image_buffers) /\ Len(image_buffers) \in Nat
  BY DEF BuffersInv, BuffersTypeOK, ReleaseBuffers
<1>3. BuffersTypeOK' /\ OrderInv' /\ ImagesInOrder'
  BY <1>1, <1>2
     DEF BuffersInv, BuffersTypeOK, OrderInv, ImagesInOrder, ReleaseBuffers
<1>4. Fresh' = {}
  BY <1>1, <1>2 DEF Fresh
<1>5. {image_buffers[i].ahb : i \in Fresh} \subseteq Named
  BY DEF BuffersInv, BuffersTypeOK, Fresh, Named
<1>6. live' = dropped'
  BY <1>5 DEF BuffersInv, OnlyOverwrittenAreLost, ReleaseBuffers
<1>7. FreshImagesAreLive' /\ OnlyOverwrittenAreLost'
  BY <1>4, <1>6 DEF FreshImagesAreLive, OnlyOverwrittenAreLost
<1>8. QED
  BY <1>3, <1>7 DEF BuffersInv

LEMMA BuffersStepInv ==
    ASSUME BuffersInv, [BuffersNext]_buffers
    PROVE  BuffersInv'
<1>1. CASE BuffersNext
  BY <1>1, SendStep, ReceiveStep, ThrowStep, AllocateStep, ReleaseStep
     DEF BuffersNext
<1>2. CASE UNCHANGED buffers
  BY <1>2
     DEF BuffersInv, buffers, memory, BuffersTypeOK, FreshImagesAreLive,
         ImagesInOrder, OnlyOverwrittenAreLost, OrderInv, Fresh
<1>3. QED
  BY <1>1, <1>2

LEMMA BuffersInductive == BuffersSpec => []BuffersInv
<1>1. BuffersInv /\ [BuffersNext]_buffers => BuffersInv'
  BY BuffersStepInv
<1>2. QED
  BY <1>1, BuffersInitInv, PTL DEF BuffersSpec

----------------------------------------------------------------------------
(* Lists, sets and counters keep their types.                              *)
THEOREM BuffersTypeCorrect == BuffersSpec => []BuffersTypeOK
<1>1. BuffersInv => BuffersTypeOK
  BY DEF BuffersInv
<1>2. QED
  BY <1>1, BuffersInductive, PTL

(* Every live buffer is in one image since the last release, or was        *)
(* overwritten, however addresses come back.                               *)
THEOREM BuffersHaveOneOwner == BuffersSpec => []OneOwner
<1>1. BuffersInv => OneOwner
  BY DEF BuffersInv, FreshImagesAreLive, OnlyOverwrittenAreLost, OneOwner
<1>2. QED
  BY <1>1, BuffersInductive, PTL

(* Images keep the order of the peer, whatever fails.                      *)
THEOREM OrderIsKept == BuffersSpec => []ImagesInOrder
<1>1. BuffersInv => ImagesInOrder
  BY DEF BuffersInv
<1>2. QED
  BY <1>1, BuffersInductive, PTL

(* A list never released before is released without a double free.         *)
THEOREM OneReleaseIsSafe == BuffersSpec => FirstReleaseIsSafe
<1>1. ASSUME BuffersInv, [BuffersNext]_buffers, stale = 0
      PROVE  misfreed' = misfreed
  <2>1. CASE ReleaseBuffers
    <3>1. DOMAIN image_buffers = Fresh
      BY <1>1 DEF BuffersInv, BuffersTypeOK, Fresh
    <3>2. Named \subseteq live
      BY <1>1, <3>1 DEF BuffersInv, FreshImagesAreLive, Named
    <3>3. ~\E i, j \in DOMAIN image_buffers :
              i # j /\ image_buffers[i].ahb = image_buffers[j].ahb
      BY <1>1, <3>1 DEF BuffersInv, FreshImagesAreLive
    <3>4. misfreed' = (misfreed \/ FALSE) /\ misfreed \in BOOLEAN
      BY <1>1, <2>1, <3>2, <3>3, Zenon
         DEF ReleaseBuffers, BuffersInv, BuffersTypeOK
    <3>5. QED
      BY <3>4
  <2>2. CASE ~ReleaseBuffers
    BY <1>1, <2>2
       DEF BuffersNext, buffers, memory, SendBuffer, RecvImageBuffers,
           RecvThrows, AllocateBuffers
  <2>3. QED
    BY <2>1, <2>2
<1>2. BuffersInv /\ [BuffersNext]_buffers
          => [stale = 0 => misfreed' = misfreed]_buffers
  BY <1>1
<1>3. QED
  BY <1>2, BuffersInductive, PTL DEF BuffersSpec, FirstReleaseIsSafe
=============================================================================
