--------------------------- MODULE SwapchainImages ---------------------------
(***************************************************************************)
(* What a swapchain promises to the application: images are handed out in  *)
(* the order they came back, are waited for in the order they were handed  *)
(* out, one at a time, and the image a layer may show is the one released  *)
(* last, until it is handed out again.                                     *)
(***************************************************************************)
EXTENDS Naturals, Sequences

CONSTANTS
  ImageCount,  \* the images of a swapchain that is not static
  NoImage      \* not an image, which are numbered from 0

VARIABLES
  free,       \* the images the application does not have, in order
  acquired,   \* the images handed out and not yet waited for, in order
  waited,     \* the image the application may write to
  shown,      \* the image a layer may show
  lost        \* the session is lost, and with it all images

vars == <<free, acquired, waited, shown, lost>>

Acquire ==
  /\ ~lost
  /\ free # <<>>
  /\ acquired' = Append(acquired, Head(free))
  /\ free' = Tail(free)
  /\ shown' = IF shown = Head(free) THEN NoImage ELSE shown
  /\ UNCHANGED <<waited, lost>>

Wait ==
  /\ ~lost
  /\ waited = NoImage
  /\ acquired # <<>>
  /\ waited' = Head(acquired)
  /\ acquired' = Tail(acquired)
  /\ UNCHANGED <<free, shown, lost>>

Release ==
  /\ ~lost
  /\ waited # NoImage
  /\ free' = Append(free, waited)
  /\ waited' = NoImage
  /\ shown' = waited
  /\ UNCHANGED <<acquired, lost>>

Lose ==
  /\ ~lost
  /\ lost' = TRUE
  /\ free' = <<>>
  /\ acquired' = <<>>
  /\ waited' = NoImage
  /\ shown' = NoImage

\* All images are free at first; a static swapchain has one.
Init ==
  /\ \E n \in {1, ImageCount} : free = [i \in 1..n |-> i - 1]
  /\ acquired = <<>>
  /\ waited = NoImage
  /\ shown = NoImage
  /\ lost = FALSE

Next == Acquire \/ Wait \/ Release \/ Lose

Spec == Init /\ [][Next]_vars
=============================================================================
