--------------------------- MODULE HardwareBuffers ---------------------------
(***************************************************************************)
(* ExternalMemoryAndroid: the images whose buffers a peer sends through a  *)
(* socket.  Its operations are called one at a time, in any order; a       *)
(* buffer may come back at an address that was released.                   *)
(***************************************************************************)
EXTENDS Naturals, Sequences, FiniteSets

CONSTANTS
    Buffer,       \* the addresses of AHardwareBuffers in this process
    MaxSent,      \* bound: buffers the peer sends
    MaxImages     \* bound: images in the list

ASSUME BuffersAssumption == MaxSent \in Nat /\ MaxImages \in Nat

VARIABLES
    image_buffers,   \* the list of images
    channel,         \* what the peer has sent, by number, and nobody received
    sent,            \* how many buffers the peer has sent
    live,            \* the buffers this process has a reference to
    dropped,         \* history: those of them that no image ever named
    stale,           \* history: the images released before, first in the list
    misfreed         \* history: a buffer was released that was not live

memory  == <<live, dropped, stale, misfreed>>
buffers == <<image_buffers, channel, sent, memory>>

Image == [ahb : Buffer, description : 1..MaxSent]

Named == {image_buffers[i].ahb : i \in DOMAIN image_buffers}
Fresh == stale + 1..Len(image_buffers)

BuffersTypeOK ==
    /\ image_buffers \in Seq(Image) /\ channel \in Seq(1..MaxSent)
    /\ sent \in 0..MaxSent /\ stale \in 0..Len(image_buffers)
    /\ live \subseteq Buffer /\ dropped \subseteq Buffer
    /\ misfreed \in BOOLEAN

BuffersInit ==
    /\ image_buffers = <<>> /\ channel = <<>> /\ sent = 0
    /\ live = {} /\ dropped = {} /\ stale = 0 /\ misfreed = FALSE

----------------------------------------------------------------------------
(* The peer: send_buffer.                                                  *)
SendBuffer ==
    /\ sent < MaxSent
    /\ sent' = sent + 1
    /\ channel' = Append(channel, sent + 1)
    /\ UNCHANGED <<image_buffers, memory>>

(* A mutant of EmplaceBack, which puts the newest image first.             *)
EmplaceFront(b, d) ==
    image_buffers' = <<[ahb |-> b, description |-> d]>> \o image_buffers

(* A mutant of EmplaceBack, for a receive_buffer that lists the image too. *)
EmplaceTwice(b, d) ==
    LET image == [ahb |-> b, description |-> d]
    IN  image_buffers' = image_buffers \o <<image, image>>

(* emplace_back of the new image.                                          *)
EmplaceBack(b, d) ==
    image_buffers' = Append(image_buffers, [ahb |-> b, description |-> d])

(* receive_buffer got handle r, and allocateBuffer writes a new buffer     *)
(* over it: the image describes what was received, but does not hold it.   *)
RecvAllocates(r, a) ==
    /\ r # a /\ {r, a} \cap live = {}
    /\ live' = live \cup {r, a}
    /\ dropped' = dropped \cup {r}
    /\ EmplaceBack(a, Head(channel))

(* allocateBuffer failed, which nobody looks at: the image has handle r.   *)
RecvAllocateFails(r) ==
    /\ r \notin live
    /\ live' = live \cup {r}
    /\ EmplaceBack(r, Head(channel))
    /\ UNCHANGED dropped

RecvImageBuffers ==
    /\ channel # <<>> /\ Len(image_buffers) < MaxImages
    /\ \E r \in Buffer : \/ \E a \in Buffer : RecvAllocates(r, a)
                         \/ RecvAllocateFails(r)
    /\ channel' = Tail(channel)
    /\ UNCHANGED <<sent, stale, misfreed>>

(* A mutant of RecvThrows, without the check: it lists a null handle.      *)
RecvUnchecked ==
    /\ channel # <<>> /\ Len(image_buffers) < MaxImages
    /\ EmplaceBack("nullptr", Head(channel))
    /\ channel' = Tail(channel)
    /\ UNCHANGED <<sent, memory>>

(* A mutant of RecvThrows, which throws after it got a handle.             *)
RecvLeaks ==
    /\ channel # <<>>
    /\ \E r \in Buffer \ live : live' = live \cup {r}
    /\ channel' = Tail(channel)
    /\ UNCHANGED <<image_buffers, sent, dropped, stale, misfreed>>

(* receive_buffer throws: there was nothing, or its handle was no good.    *)
RecvThrows ==
    /\ channel # <<>>
    /\ channel' = Tail(channel)
    /\ UNCHANGED <<image_buffers, sent, memory>>

(* The lambda of allocate_buffers has a copy of each image: the buffers it *)
(* allocates, as many as succeed, are known to nobody afterwards.          *)
AllocateBuffers ==
    /\ \E new \in SUBSET (Buffer \ live) :
          /\ Cardinality(new) <= Len(image_buffers)
          /\ live' = live \cup new
          /\ dropped' = dropped \cup new
    /\ UNCHANGED <<image_buffers, channel, sent, stale, misfreed>>

(* Every image once, in order; the list stays as it is.                    *)
ReleaseBuffers ==
    /\ live' = live \ Named
    /\ dropped' = dropped \ Named
    /\ misfreed' = (misfreed \/ ~(Named \subseteq live)
                             \/ \E i, j \in DOMAIN image_buffers :
                                   i # j /\ image_buffers[i].ahb
                                              = image_buffers[j].ahb)
    /\ stale' = Len(image_buffers)
    /\ UNCHANGED <<image_buffers, channel, sent>>

(* Once it has freed a buffer that is not live, anything may happen to the *)
(* process: the behaviour ends there.                                      *)
BuffersNext ==
    /\ ~misfreed
    /\ \/ SendBuffer \/ RecvImageBuffers \/ RecvThrows
       \/ AllocateBuffers \/ ReleaseBuffers

BuffersSpec == BuffersInit /\ [][BuffersNext]_buffers

----------------------------------------------------------------------------
(* Every live buffer has one owner: an image since the last release, or    *)
(* nobody, when allocateBuffer overwrote it or allocated it for a copy.  An *)
(* exception of receive_buffer, for one, leaves nothing behind, and an     *)
(* address that comes back is not taken for the image released before.     *)
OneOwner ==
    /\ live = dropped \cup {image_buffers[i].ahb : i \in Fresh}
    /\ \A i \in Fresh :
          /\ image_buffers[i].ahb \notin dropped
          /\ \A j \in Fresh : i # j =>
                image_buffers[i].ahb # image_buffers[j].ahb

(* A list that was never released is released without freeing a buffer     *)
(* twice, or one that others hold.                                         *)
FirstReleaseIsSafe == [][stale = 0 => misfreed' = misfreed]_buffers

(* Images are in the order in which the peer sent them, none of them twice, *)
(* whatever failed in between.                                             *)
ImagesInOrder ==
    \A i, j \in DOMAIN image_buffers : i < j =>
        image_buffers[i].description < image_buffers[j].description
=============================================================================
