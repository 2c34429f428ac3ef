---------------------------- MODULE FrameMailbox ----------------------------
(***************************************************************************)
(* What the Hikrobot camera node promises to those who subscribe to its    *)
(* images: a mailbox for one frame.  A new frame replaces one that was not *)
(* taken, and a frame is taken once.                                       *)
(***************************************************************************)
EXTENDS Naturals, Sequences

VARIABLES latest,    \* number of the newest frame, in the order of capture
          content,   \* the frame in the mailbox, or NoFrame
          taken      \* the frames that were taken, in order

mvars == <<latest, content, taken>>

NoFrame == 0

MInit == latest = 0 /\ content = NoFrame /\ taken = <<>>

Put ==
  /\ latest' = latest + 1
  /\ content' = latest'
  /\ UNCHANGED taken

Take ==
  /\ content # NoFrame
  /\ taken' = Append(taken, content)
  /\ content' = NoFrame
  /\ UNCHANGED latest

MNext == Put \/ Take

MSpec == MInit /\ [][MNext]_mvars
=============================================================================
