---------------------------- MODULE OxrSwapchain ----------------------------
(***************************************************************************)
(* The images of one swapchain: the book the OpenXR state tracker keeps of *)
(* them, the fifo of the compositor's swapchain, the layers that show      *)
(* them, and the end of the swapchain.                                     *)
(*                                                                         *)
(* One thread of the application acquires, waits and releases, another one *)
(* ends frames.  A call that is refused, or a wait that times out, changes *)
(* nothing and is not a step.  The use count of an image is always zero:   *)
(* nothing in the code calls inc_image_use, so wait_image never waits.     *)
(***************************************************************************)
EXTENDS Integers, FiniteSets, Sequences

CONSTANTS
  ImageCount,    \* images of a swapchain that is not static
  MaxIndices,    \* U_MAX_FIFO_INDICES
  MaxLayers,     \* bound: committed layers the compositor still has
  Failures,      \* the calls that may fail
  Recoverable    \* of these, the ones that may fail without losing the session

ASSUME ConstantsAssumption ==
  /\ ImageCount \in Nat \ {0}
  /\ MaxIndices \in Nat
  /\ ImageCount < MaxIndices
  /\ MaxLayers \in Nat
  /\ Failures \subseteq {"acquire", "wait", "barrier", "release"}
  /\ Recoverable \subseteq Failures

NoImage == -1
Images == 0..(ImageCount - 1)

VARIABLES
  vulkan,         \* the functions of oxr_swapchain_vk.c are in use
  is_static,
  has_lost,       \* of the session
  fifo,           \* of the compositor's swapchain
  image_state,    \* images[i].state
  acquired_num,
  acquired_fifo,
  inflight,       \* the image waited for, with yes and index
  released,       \* the image released last, with yes and index
  ending,         \* xrEndFrame has verified the swapchain
  layers,         \* the image of each committed layer not yet retired
  refs,           \* references to the compositor's swapchain
  life            \* alive, dropped by the application, on the stack, destroyed

imageVars == <<fifo, image_state, acquired_num, acquired_fifo, inflight, released>>
lifeVars == <<layers, refs, life>>
vars == <<vulkan, is_static, has_lost, imageVars, ending, lifeVars>>

Count == IF is_static THEN 1 ELSE ImageCount

-----------------------------------------------------------------------------
(* u_index_fifo: a ring in which one place stays empty.                    *)

IsEmpty(r) == r.start = r.end
IsFull(r) == (r.end + 1) % MaxIndices = r.start
Peek(r) == r.indices[r.start]
Popped(r) == [r EXCEPT !.start = (@ + 1) % MaxIndices]

\* Mutant of Pushed: the end of the ring does not wrap around.
PushedNoWrap(r, i) ==
  [r EXCEPT !.indices[r.end] = i,
            !.end = IF r.end + 1 < MaxIndices THEN r.end + 1 ELSE r.end]

\* A push into a full ring fails, which only some callers look at.
Pushed(r, i) ==
  IF IsFull(r) THEN r
  ELSE [r EXCEPT !.indices[r.end] = i, !.end = (@ + 1) % MaxIndices]

\* The ring as a sequence.
Listed(r) ==
  [k \in 1..((r.end - r.start) % MaxIndices) |->
     r.indices[(r.start + k - 1) % MaxIndices]]

EmptyRing == [indices |-> [k \in 0..(MaxIndices - 1) |-> 0], start |-> 0, end |-> 0]

-----------------------------------------------------------------------------
\* OXR_CHECK_XRET on a call that failed.
Fails(c) ==
  /\ c \in Failures
  /\ \/ has_lost' = TRUE
     \/ c \in Recoverable /\ UNCHANGED has_lost

Call == ~has_lost /\ life = "alive"

\* oxr_swapchain_common_acquire with swapchain_acquire_image, all checks passed.
CommonAcquire ==
  LET index == Peek(fifo)
  IN  /\ acquired_num < Count
      /\ is_static => ~released.yes /\ image_state[0] = "READY"
      /\ ~IsEmpty(fifo)
      /\ image_state[index] = "READY"
      /\ fifo' = Popped(fifo)
      /\ acquired_num' = acquired_num + 1
      /\ acquired_fifo' = Pushed(acquired_fifo, index)
      /\ image_state' = [image_state EXCEPT ![index] = "ACQUIRED"]
      /\ released' = IF released.index = index
                     THEN [yes |-> FALSE, index |-> NoImage] ELSE released
      /\ UNCHANGED inflight

\* xrAcquireSwapchainImage.  With Vulkan the wait and the barrier come after the
\* book-keeping, and an error of theirs leaves the image acquired.
Acquire ==
  /\ Call
  /\ \/ /\ CommonAcquire
        /\ UNCHANGED has_lost
     \/ /\ CommonAcquire
        /\ vulkan
        /\ Fails("wait") \/ Fails("barrier")
     \/ /\ Fails("acquire")
        /\ UNCHANGED imageVars
  /\ UNCHANGED <<vulkan, is_static, ending, lifeVars>>

\* oxr_swapchain_common_wait after xrt_swapchain_wait_image has returned.
CommonWait ==
  LET index == Peek(acquired_fifo)
  IN  /\ acquired_fifo' = Popped(acquired_fifo)
      /\ inflight' = [yes |-> TRUE, index |-> index]
      /\ image_state' = [image_state EXCEPT ![index] = "WAITED"]
      /\ UNCHANGED <<fifo, acquired_num, released>>

\* xrWaitSwapchainImage.  An error that is not a timeout comes after the image has
\* left the fifo.
Wait ==
  /\ Call
  /\ ~inflight.yes
  /\ ~IsEmpty(acquired_fifo)
  /\ \/ /\ CommonWait
        /\ UNCHANGED has_lost
     \/ /\ ~vulkan
        /\ CommonWait
        /\ Fails("barrier")
     \/ /\ ~vulkan
        /\ Fails("wait")
        /\ acquired_fifo' = Popped(acquired_fifo)
        /\ UNCHANGED <<fifo, image_state, acquired_num, inflight, released>>
  /\ UNCHANGED <<vulkan, is_static, ending, lifeVars>>

\* Mutant of CommonRelease: the image is not counted back.
CommonReleaseKeepsCount ==
  /\ inflight' = [yes |-> FALSE, index |-> NoImage]
  /\ fifo' = Pushed(fifo, inflight.index)
  /\ released' = inflight
  /\ image_state' = [image_state EXCEPT ![inflight.index] = "READY"]
  /\ UNCHANGED <<acquired_num, acquired_fifo, has_lost>>

\* oxr_swapchain_common_release with swapchain_release_image; the image is no longer
\* in flight even when that fails.
CommonRelease ==
  /\ inflight' = [yes |-> FALSE, index |-> NoImage]
  /\ \/ /\ fifo' = Pushed(fifo, inflight.index)
        /\ acquired_num' = acquired_num - 1
        /\ released' = inflight
        /\ image_state' = [image_state EXCEPT ![inflight.index] = "READY"]
        /\ UNCHANGED <<acquired_fifo, has_lost>>
     \/ /\ Fails("release")
        /\ UNCHANGED <<fifo, image_state, acquired_num, acquired_fifo, released>>

\* xrReleaseSwapchainImage
Release ==
  /\ Call
  /\ inflight.yes
  /\ image_state[inflight.index] = "WAITED"
  /\ \/ CommonRelease
     \/ Fails("barrier") /\ UNCHANGED imageVars
  /\ UNCHANGED <<vulkan, is_static, ending, lifeVars>>

-----------------------------------------------------------------------------
(* Layers and the end of the swapchain.                                    *)

\* xrEndFrame verifies a layer with the swapchain ...
EndFrameVerify ==
  /\ Call /\ ~ending
  /\ released.yes
  /\ released.index < Count
  /\ ending' = TRUE
  /\ UNCHANGED <<vulkan, is_static, has_lost, imageVars, lifeVars>>

\* Mutant of EndFrameSubmit: the layer has no reference to the swapchain.
EndFrameSubmitNoReference ==
  /\ ending
  /\ ending' = FALSE
  /\ Len(layers) < MaxLayers
  /\ layers' = Append(layers, released.index)
  /\ UNCHANGED <<vulkan, is_static, has_lost, imageVars, refs, life>>

\* ... and reads the index again for the layer, which has a reference to the
\* swapchain until the compositor is done with it.
EndFrameSubmit ==
  /\ ending
  /\ ending' = FALSE
  /\ Len(layers) < MaxLayers
  /\ layers' = Append(layers, released.index)
  /\ refs' = refs + 1
  /\ UNCHANGED <<vulkan, is_static, has_lost, imageVars, life>>

\* A reference is dropped: with the last one the swapchain goes on the stack.
DropReference(l) ==
  /\ refs' = refs - 1
  /\ life' = IF refs = 1 THEN "stacked" ELSE l

\* Mutant of RetireLayer: the reference of the layer is kept.
RetireLayerLeaks ==
  /\ layers # <<>>
  /\ layers' = Tail(layers)
  /\ UNCHANGED <<vulkan, is_static, has_lost, imageVars, ending, refs, life>>

\* The compositor retires the oldest layer.
RetireLayer ==
  /\ layers # <<>>
  /\ layers' = Tail(layers)
  /\ DropReference(life)
  /\ UNCHANGED <<vulkan, is_static, has_lost, imageVars, ending>>

\* xrDestroySwapchain, which no other call on the swapchain overlaps.
Destroy ==
  /\ life = "alive" /\ ~ending
  /\ DropReference("dropped")
  /\ UNCHANGED <<vulkan, is_static, has_lost, imageVars, ending, layers>>

\* comp_swapchain_shared_garbage_collect
GarbageCollect ==
  /\ life = "stacked"
  /\ life' = "destroyed"
  /\ UNCHANGED <<vulkan, is_static, has_lost, imageVars, ending, layers, refs>>

-----------------------------------------------------------------------------
\* The fifo primed with all images; the state tracker's record is zeroed.
Init ==
  /\ vulkan \in BOOLEAN
  /\ is_static \in BOOLEAN
  /\ has_lost = FALSE
  /\ fifo = [indices |-> [k \in 0..(MaxIndices - 1) |-> IF k < Count THEN k ELSE 0],
             start |-> 0, end |-> Count]
  /\ image_state = [i \in Images |-> "READY"]
  /\ acquired_num = 0
  /\ acquired_fifo = EmptyRing
  /\ inflight = [yes |-> FALSE, index |-> 0]
  /\ released = [yes |-> FALSE, index |-> 0]
  /\ ending = FALSE
  /\ layers = <<>>
  /\ refs = 1
  /\ life = "alive"

Next ==
  \/ Acquire \/ Wait \/ Release
  \/ EndFrameVerify \/ EndFrameSubmit \/ RetireLayer
  \/ Destroy \/ GarbageCollect

Spec == Init /\ [][Next]_vars

\* The compositor goes on.
FairSpec == Spec /\ WF_vars(RetireLayer) /\ WF_vars(GarbageCollect)

-----------------------------------------------------------------------------
(* Properties.                                                             *)

Ring == [indices : [0..(MaxIndices - 1) -> Images],
         start : 0..(MaxIndices - 1), end : 0..(MaxIndices - 1)]
Slot == [yes : BOOLEAN, index : Images \union {NoImage}]

TypeOK ==
  /\ {vulkan, is_static, has_lost, ending} \subseteq BOOLEAN
  /\ fifo \in Ring
  /\ acquired_fifo \in Ring
  /\ image_state \in [Images -> {"READY", "ACQUIRED", "WAITED"}]
  /\ acquired_num \in 0..ImageCount
  /\ inflight \in Slot
  /\ released \in Slot
  /\ layers \in Seq(Images \union {NoImage})
  /\ refs \in 0..(MaxLayers + 1)
  /\ life \in {"alive", "dropped", "stacked", "destroyed"}

Elements(s) == {s[i] : i \in DOMAIN s}

\* Each image is in one place, the one its state says: with the compositor, acquired
\* or waited for; and acquired_num counts those the application has.  So acquiring
\* "All images have been acquired" is the only way to run out, and the check that
\* an acquired image is ready never fails.
ImagesAccounted ==
  ~has_lost =>
    /\ Elements(Listed(fifo)) =
         {i \in 0..(Count - 1) : image_state[i] = "READY"}
    /\ Elements(Listed(acquired_fifo)) = {i \in Images : image_state[i] = "ACQUIRED"}
    /\ {i \in Images : image_state[i] = "WAITED"} =
         IF inflight.yes THEN {inflight.index} ELSE {}
    /\ acquired_num = Len(Listed(acquired_fifo)) + (IF inflight.yes THEN 1 ELSE 0)
    /\ acquired_num + Len(Listed(fifo)) = Count

\* "If the compositor is reusing the image, mark it as invalid to use in xrEndFrame":
\* the image a layer may show is not in the hands of the application.
ReleasedIsReady ==
  ~has_lost /\ released.yes => image_state[released.index] = "READY"

\* Fifo, image states, counts and the released image agree on who has each image.
ImagesAreSound == TypeOK /\ ImagesAccounted /\ ReleasedIsReady

\* The swapchain is destroyed only when the application has dropped it and no layer
\* that the compositor still has refers to it.
DestroyedUnused == life = "destroyed" => layers = <<>> /\ ~ending

\* The images go around as the abstract swapchain says.
Promise == INSTANCE SwapchainImages WITH
  free <- IF has_lost THEN <<>> ELSE Listed(fifo),
  acquired <- IF has_lost THEN <<>> ELSE Listed(acquired_fifo),
  waited <- IF ~has_lost /\ inflight.yes THEN inflight.index ELSE NoImage,
  shown <- IF ~has_lost /\ released.yes THEN released.index ELSE NoImage,
  lost <- has_lost
ImagesKeepPromise == Promise!Spec

\* A swapchain that the application has dropped is destroyed in the end.
DroppedIsDestroyed == (life = "dropped") ~> (life = "destroyed")

\* wait_image: "Wait until image index is available for exclusive use": the image the
\* application may write to is not in a layer the compositor still has.
ExclusiveUse == inflight.yes => inflight.index \notin Elements(layers)
=============================================================================
