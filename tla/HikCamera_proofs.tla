-------------------------- MODULE HikCamera_proofs --------------------------
(***************************************************************************)
(* The camera node hands its frames over as a mailbox does, for any number *)
(* of frames: theorems about HikCamera, as MCVisionGrab instantiates it.   *)
(***************************************************************************)
EXTENDS MCVisionGrab, Integers, TLAPS

-----------------------------------------------------------------------------
\* The inductive invariant.

Typed ==
  /\ ok \in BOOLEAN /\ device \in BOOLEAN /\ frame_empty \in BOOLEAN
  /\ grabbed \in 0..CameraFrames /\ frame \in Nat /\ src \in 0..grabbed
  /\ mutex \in {"none", "worker", "main", "destroyed"}
  /\ worker \in Hik!WorkerPoints /\ main \in Hik!MainPoints
  /\ published \in Seq(Nat)
  /\ \A k \in 1..Len(published) : published[k] \in 1..grabbed

\* Who holds the mutex, and how far the two threads are in each other's life.
Locking ==
  /\ worker = "stored" <=> mutex = "worker"
  /\ main = "cloned" <=> mutex = "main"
  /\ main = "constructor" <=> worker = "unborn" /\ main # "exited"
  /\ mutex = "destroyed" => main = "exited"
  /\ main = "exited" => worker \in {"unborn", "ended"}
  /\ worker \notin {"unborn", "ended"} => device /\ mutex # "destroyed"

\* The frame is the newest one, except just before it is stored, and what main
\* copies under the mutex is still the frame when it sets the flag.
Sharing ==
  /\ frame = IF worker = "store" THEN grabbed - 1 ELSE grabbed
  /\ main = "cloned" => ~frame_empty /\ src = frame

\* A frame that waits to be fetched, or is just being stored, is newer than all
\* that were fetched.
InOrder(s) == \A k \in 1..Len(s) : \A m \in (k+1)..Len(s) : s[k] < s[m]
UpTo(s, n) == \A k \in 1..Len(s) : s[k] <= n
Order ==
  /\ InOrder(Hik!Fetched)
  /\ UpTo(Hik!Fetched, frame)
  /\ ~frame_empty \/ worker = "stored" => UpTo(Hik!Fetched, frame - 1)

CameraIInv == Typed /\ Locking /\ Sharing /\ Order

LEMMA FetchedType == Typed => Hik!Fetched \in Seq(Nat)
  BY CameraAssumption DEF Typed, Hik!Fetched, Hik!NoImage

LEMMA CameraInit == Hik!Init => CameraIInv
  <1> SUFFICES ASSUME Hik!Init PROVE CameraIInv
    OBVIOUS
  <1> USE CameraAssumption DEF Hik!Init, Hik!NoImage
  <1>1. Typed
    <2>1. ok \in BOOLEAN /\ device \in BOOLEAN /\ frame_empty \in BOOLEAN
      OBVIOUS
    <2>2. published \in Seq(Nat) /\ \A k \in 1..Len(published) : published[k] \in 1..grabbed
      OBVIOUS
    <2>3. grabbed \in 0..CameraFrames /\ frame \in Nat /\ src \in 0..grabbed
      OBVIOUS
    <2>4. QED
      BY <2>1, <2>2, <2>3 DEF Typed, Hik!WorkerPoints, Hik!MainPoints
  <1>2. Locking
    BY DEF Locking
  <1>3. Sharing
    BY DEF Sharing
  <1>4. Hik!Fetched = <<>>
    BY DEF Hik!Fetched
  <1>5. Order
    BY <1>4 DEF Order, InOrder, UpTo
  <1>6. QED
    BY <1>1, <1>2, <1>3, <1>5 DEF CameraIInv

-----------------------------------------------------------------------------
\* The steps preserve its parts.

LEMMA TypedStep == Typed /\ Sharing /\ [Hik!Next]_(Hik!vars) => Typed'
  <1> SUFFICES ASSUME Typed, Sharing, [Hik!Next]_(Hik!vars) PROVE Typed'
    OBVIOUS
  <1> USE CameraAssumption DEF Typed, Hik!WorkerPoints, Hik!MainPoints, Hik!WorkerGoes,
          Hik!MainGoes, Hik!buffer, Hik!NoImage
  <1>1. CASE Hik!Construct
    BY <1>1 DEF Hik!Construct
  <1>2. CASE Hik!ConstructFails
    BY <1>2 DEF Hik!ConstructFails
  <1>3. CASE Hik!Shutdown
    BY <1>3 DEF Hik!Shutdown
  <1>4. CASE Hik!Destruct
    BY <1>4 DEF Hik!Destruct
  <1>5. CASE Hik!WorkerLoop
    BY <1>5 DEF Hik!WorkerLoop
  <1>6. CASE Hik!GrabFrame
    BY <1>6 DEF Hik!GrabFrame
  <1>7. CASE Hik!GrabFails
    BY <1>7 DEF Hik!GrabFails
  <1>8. CASE Hik!Store
    BY <1>8 DEF Hik!Store
  <1>9. CASE Hik!StoreDone
    BY <1>9 DEF Hik!StoreDone
  <1>10. CASE Hik!MainLoop
    BY <1>10 DEF Hik!MainLoop
  <1>11. CASE Hik!ReadNothing
    BY <1>11 DEF Hik!ReadNothing
  <1>12. CASE Hik!ReadImg
    <2>1. worker = "store" \/ frame = grabbed
      BY DEF Sharing
    <2>2. frame \in 0..grabbed
      BY <2>1 DEF Sharing
    <2>3. QED
      BY <1>12, <2>2 DEF Hik!ReadImg
  <1>13. CASE Hik!ReadDone
    BY <1>13 DEF Hik!ReadDone
  <1>14. CASE Hik!Publish
    BY <1>14 DEF Hik!Publish
  <1>15. CASE UNCHANGED Hik!vars
    BY <1>15 DEF Hik!vars
  <1>16. QED
    BY <1>1, <1>2, <1>3, <1>4, <1>5, <1>6, <1>7, <1>8, <1>9, <1>10, <1>11, <1>12,
       <1>13, <1>14, <1>15 DEF Hik!Next, Hik!Worker, Hik!Main, Hik!Ended

LEMMA LockingStep == Typed /\ Locking /\ [Hik!Next]_(Hik!vars) => Locking'
  <1> SUFFICES ASSUME Typed, Locking, [Hik!Next]_(Hik!vars) PROVE Locking'
    OBVIOUS
  <1> USE DEF Typed, Locking, Hik!WorkerPoints, Hik!MainPoints, Hik!WorkerGoes,
          Hik!MainGoes, Hik!buffer
  <1>1. CASE Hik!Construct \/ Hik!ConstructFails \/ Hik!Destruct \/ Hik!Shutdown
    BY <1>1 DEF Hik!Construct, Hik!ConstructFails, Hik!Destruct, Hik!Shutdown
  <1>2. CASE Hik!WorkerLoop \/ Hik!GrabFrame \/ Hik!GrabFails
    BY <1>2 DEF Hik!WorkerLoop, Hik!GrabFrame, Hik!GrabFails
  <1>3. CASE Hik!Store \/ Hik!StoreDone
    BY <1>3 DEF Hik!Store, Hik!StoreDone
  <1>4. CASE Hik!MainLoop \/ Hik!ReadNothing \/ Hik!ReadImg
    BY <1>4 DEF Hik!MainLoop, Hik!ReadNothing, Hik!ReadImg
  <1>5. CASE Hik!ReadDone \/ Hik!Publish
    BY <1>5 DEF Hik!ReadDone, Hik!Publish
  <1>6. CASE UNCHANGED Hik!vars
    BY <1>6 DEF Hik!vars
  <1>7. QED
    BY <1>1, <1>2, <1>3, <1>4, <1>5, <1>6 DEF Hik!Next, Hik!Worker, Hik!Main, Hik!Ended

LEMMA SharingStep == Typed /\ Locking /\ Sharing /\ [Hik!Next]_(Hik!vars) => Sharing'
  <1> SUFFICES ASSUME Typed, Locking, Sharing, [Hik!Next]_(Hik!vars) PROVE Sharing'
    OBVIOUS
  <1> USE CameraAssumption DEF Typed, Sharing, Hik!WorkerGoes,
          Hik!MainGoes, Hik!buffer
  <1>1. CASE Hik!Construct \/ Hik!ConstructFails \/ Hik!Destruct \/ Hik!Shutdown
    BY <1>1 DEF Locking, Hik!Construct, Hik!ConstructFails,
             Hik!Destruct, Hik!Shutdown
  <1>2. CASE Hik!WorkerLoop \/ Hik!GrabFrame \/ Hik!GrabFails
    BY <1>2 DEF Hik!WorkerLoop, Hik!GrabFrame, Hik!GrabFails
  <1>3. CASE Hik!Store \/ Hik!StoreDone
    BY <1>3 DEF Locking, Hik!Store, Hik!StoreDone
  <1>4. CASE Hik!MainLoop \/ Hik!ReadNothing \/ Hik!ReadImg
    BY <1>4 DEF Hik!MainLoop, Hik!ReadNothing, Hik!ReadImg
  <1>5. CASE Hik!ReadDone \/ Hik!Publish
    BY <1>5 DEF Hik!ReadDone, Hik!Publish
  <1>6. CASE UNCHANGED Hik!vars
    BY <1>6 DEF Hik!vars
  <1>7. QED
    BY <1>1, <1>2, <1>3, <1>4, <1>5, <1>6 DEF Hik!Next, Hik!Worker, Hik!Main, Hik!Ended

-----------------------------------------------------------------------------
\* The order of the frames.

LEMMA Appended ==
  ASSUME NEW s \in Seq(Nat), NEW n \in Nat, InOrder(s), UpTo(s, n - 1)
  PROVE  InOrder(Append(s, n)) /\ UpTo(Append(s, n), n)
  BY DEF InOrder, UpTo

LEMMA Relaxed ==
  ASSUME NEW s \in Seq(Nat), NEW m \in Int, NEW n \in Int, m <= n, UpTo(s, m)
  PROVE  UpTo(s, n)
  BY DEF UpTo

\* Most steps fetch no frame and touch neither the frame nor its flag.
LEMMA OrderKept ==
  ASSUME Order, Hik!Fetched' = Hik!Fetched, frame' = frame, frame_empty' = frame_empty,
         worker' = "stored" => worker = "stored"
  PROVE  Order'
  BY DEF Order

LEMMA OrderStep == CameraIInv /\ [Hik!Next]_(Hik!vars) => Order'
  <1> SUFFICES ASSUME Typed, Locking, Sharing, Order, [Hik!Next]_(Hik!vars) PROVE Order'
    BY DEF CameraIInv
  <1> USE DEF Hik!WorkerGoes,
          Hik!MainGoes, Hik!buffer
  <1>0. Hik!Fetched \in Seq(Nat) /\ frame \in Nat
    BY FetchedType DEF Typed
  <1>1. CASE Hik!Construct \/ Hik!ConstructFails \/ Hik!Destruct \/ Hik!Shutdown
    <2>1. Hik!Fetched' = Hik!Fetched
      BY <1>1 DEF Hik!Fetched, Hik!Construct, Hik!ConstructFails, Hik!Destruct, Hik!Shutdown
    <2>2. QED
      BY <1>1, <2>1, OrderKept DEF Hik!Construct, Hik!ConstructFails, Hik!Destruct, Hik!Shutdown
  <1>2. CASE Hik!WorkerLoop \/ Hik!GrabFrame \/ Hik!GrabFails
    <2>1. Hik!Fetched' = Hik!Fetched
      BY <1>2 DEF Hik!Fetched, Hik!WorkerLoop, Hik!GrabFrame, Hik!GrabFails
    <2>2. QED
      BY <1>2, <2>1, OrderKept DEF Hik!WorkerLoop, Hik!GrabFrame, Hik!GrabFails
  <1>3. CASE Hik!Store
    <2>1. Hik!Fetched' = Hik!Fetched
      BY <1>3 DEF Hik!Fetched, Hik!Store
    <2>2. frame' - 1 = frame /\ frame' = frame + 1 /\ frame' \in Nat
      BY <1>3, CameraAssumption DEF Hik!Store, Sharing, Typed
    <2>3. UpTo(Hik!Fetched, frame) /\ InOrder(Hik!Fetched)
      BY DEF Order
    <2>4. frame <= frame' /\ frame \in Int /\ frame' \in Int
      <3>1. frame \in Nat
        BY <1>0
      <3>2. frame' = frame + 1
        BY <2>2
      <3>3. QED
        BY <3>1, <3>2
    <2>5. UpTo(Hik!Fetched, frame')
      BY <2>3, <2>4, <1>0, Relaxed
    <2>6. UpTo(Hik!Fetched, frame' - 1)
      BY <2>2, <2>3
    <2>7. QED
      BY <2>1, <2>3, <2>5, <2>6 DEF Order
  <1>4. CASE Hik!StoreDone
    <2>1. Hik!Fetched' = Hik!Fetched
      BY <1>4 DEF Hik!Fetched, Hik!StoreDone
    <2>2. QED
      BY <1>4, <2>1 DEF Hik!StoreDone, Order
  <1>5. CASE Hik!MainLoop \/ Hik!ReadNothing \/ Hik!ReadImg
    <2>1. Hik!Fetched' = Hik!Fetched
      BY <1>5 DEF Hik!Fetched, Hik!MainLoop, Hik!ReadNothing, Hik!ReadImg
    <2>2. QED
      BY <1>5, <2>1, OrderKept DEF Hik!MainLoop, Hik!ReadNothing, Hik!ReadImg
  <1>6. CASE Hik!ReadDone
    <2>1. main = "cloned" /\ src = frame /\ ~frame_empty /\ worker # "stored"
      BY <1>6 DEF Hik!ReadDone, Sharing, Locking
    <2>2. Hik!Fetched' = IF src # Hik!NoImage THEN Append(Hik!Fetched, frame) ELSE Hik!Fetched
      BY <1>6, <2>1 DEF Hik!Fetched, Hik!ReadDone
    <2>3. InOrder(Hik!Fetched) /\ UpTo(Hik!Fetched, frame - 1) /\ UpTo(Hik!Fetched, frame)
      BY <2>1 DEF Order
    <2>4. InOrder(Hik!Fetched') /\ UpTo(Hik!Fetched', frame)
      BY <2>2, <2>3, <1>0, Appended
    <2>5. QED
      BY <1>6, <2>1, <2>4 DEF Hik!ReadDone, Order
  <1>7. CASE Hik!Publish
    <2>1. Hik!Fetched' = Hik!Fetched
      BY <1>7 DEF Hik!Fetched, Hik!Publish
    <2>2. QED
      BY <1>7, <2>1, OrderKept DEF Hik!Publish
  <1>8. CASE UNCHANGED Hik!vars
    <2>1. Hik!Fetched' = Hik!Fetched
      BY <1>8 DEF Hik!Fetched, Hik!vars
    <2>2. QED
      BY <1>8, <2>1, OrderKept DEF Hik!vars
  <1>9. QED
    BY <1>1, <1>2, <1>3, <1>4, <1>5, <1>6, <1>7, <1>8 DEF Hik!Next, Hik!Worker, Hik!Main, Hik!Ended

LEMMA CameraInvariant == Hik!Spec => []CameraIInv
  <1>1. CameraIInv /\ [Hik!Next]_(Hik!vars) => CameraIInv'
    BY TypedStep, LockingStep, SharingStep, OrderStep DEF CameraIInv
  <1>2. QED
    BY <1>1, CameraInit, PTL DEF Hik!Spec

-----------------------------------------------------------------------------
\* Theorems.

\* All variables of the camera node stay well typed.
THEOREM CameraTyped == Hik!Spec => []CameraTypeOK
  <1>1. Typed /\ Sharing => CameraTypeOK
    <2> SUFFICES ASSUME Typed, Sharing PROVE CameraTypeOK
      OBVIOUS
    <2> USE CameraAssumption DEF Typed
    <2>1. worker = "store" \/ frame = grabbed
      BY DEF Sharing
    <2>2. frame \in 0..grabbed
      BY <2>1 DEF Sharing
    <2>3. published \in Seq(1..grabbed)
      OBVIOUS
    <2>4. QED
      BY <2>2, <2>3 DEF CameraTypeOK, Hik!TypeOK
  <1>2. QED
    BY <1>1, CameraInvariant, PTL DEF CameraIInv

\* The images leave the node in the order of their capture, none twice.
THEOREM CameraInOrder == Hik!Spec => []PublishedInOrder
  <1>1. Typed /\ Order => PublishedInOrder
    <2> SUFFICES ASSUME Typed, Order,
                        NEW k \in 1..Len(published), NEW m \in (k+1)..Len(published)
                 PROVE  published[k] < published[m]
      BY DEF PublishedInOrder, Hik!PublishedInOrder
    <2>1. published \in Seq(Nat) /\ src \in Nat
      BY CameraAssumption DEF Typed
    <2>2. /\ Len(published) <= Len(Hik!Fetched)
          /\ \A i \in 1..Len(published) : Hik!Fetched[i] = published[i]
      BY <2>1 DEF Hik!Fetched
    <2>3. Len(Hik!Fetched) \in Nat /\ Len(published) \in Nat
      BY <2>1, FetchedType
    <2>4. k \in 1..Len(Hik!Fetched) /\ m \in (k+1)..Len(Hik!Fetched) /\ m \in 1..Len(published)
      BY <2>2, <2>3
    <2>5. Hik!Fetched[k] < Hik!Fetched[m]
      BY <2>4 DEF Order, InOrder
    <2>6. QED
      BY <2>2, <2>4, <2>5
  <1>2. QED
    BY <1>1, CameraInvariant, PTL DEF CameraIInv

\* Device and mutex outlive the thread that uses them.
THEOREM CameraWorkerIsSafe == Hik!Spec => []WorkerIsSafe
  <1>1. Locking => WorkerIsSafe
    BY DEF Locking, WorkerIsSafe, Hik!WorkerIsSafe
  <1>2. QED
    BY <1>1, CameraInvariant, PTL DEF CameraIInv

-----------------------------------------------------------------------------
\* The mailbox.

Content == IF frame_empty THEN Hik!NoImage ELSE frame

LEMMA MailboxInit == Hik!Init => Hik!Mailbox!MInit
  BY DEF Hik!Init, Hik!Mailbox!MInit, Hik!Latest, Hik!Fetched, Hik!NoImage, Hik!Mailbox!NoFrame

\* Storing a frame is Put at the moment the flag says that there is one, setting
\* the flag after the copy is Take, and all other steps are invisible.
LEMMA MailboxStep == CameraIInv /\ [Hik!Next]_(Hik!vars) => [Hik!Mailbox!MNext]_(Hik!Mailbox!mvars)
  <1> SUFFICES ASSUME Typed, Locking, Sharing, [Hik!Next]_(Hik!vars)
               PROVE  [Hik!Mailbox!MNext]_(Hik!Mailbox!mvars)
    BY DEF CameraIInv
  <1> USE CameraAssumption DEF Hik!WorkerGoes, Hik!MainGoes, Hik!buffer, Typed
  <1>1. ASSUME Hik!Latest' = Hik!Latest, Content' = Content, Hik!Fetched' = Hik!Fetched
        PROVE  UNCHANGED Hik!Mailbox!mvars
    BY <1>1 DEF Hik!Mailbox!mvars, Content
  <1>2. ASSUME Hik!Latest' = Hik!Latest + 1, Content' = Hik!Latest', Hik!Fetched' = Hik!Fetched
        PROVE  Hik!Mailbox!Put
    BY <1>2 DEF Hik!Mailbox!Put, Content
  <1>3. CASE Hik!Construct \/ Hik!ConstructFails \/ Hik!Destruct \/ Hik!Shutdown
    <2>1. Hik!Latest' = Hik!Latest /\ Content' = Content /\ Hik!Fetched' = Hik!Fetched
      BY <1>3 DEF Hik!Latest, Content, Hik!Fetched, Locking, Hik!Construct, Hik!ConstructFails,
             Hik!Destruct, Hik!Shutdown
    <2>2. QED
      BY <1>1, <2>1
  <1>4. CASE Hik!WorkerLoop \/ Hik!GrabFrame \/ Hik!GrabFails
    <2>1. Hik!Latest' = Hik!Latest /\ Content' = Content /\ Hik!Fetched' = Hik!Fetched
      BY <1>4 DEF Hik!Latest, Content, Hik!Fetched, Hik!WorkerLoop, Hik!GrabFrame, Hik!GrabFails
    <2>2. QED
      BY <1>1, <2>1
  <1>5. CASE Hik!Store
    <2>1. Hik!Fetched' = Hik!Fetched
      BY <1>5 DEF Hik!Store, Hik!Fetched
    <2>2. CASE frame_empty
      <3>1. Hik!Latest' = Hik!Latest /\ Content' = Content
        BY <1>5, <2>2 DEF Hik!Store, Hik!Latest, Content
      <3>2. QED
        BY <1>1, <2>1, <3>1
    <2>3. CASE ~frame_empty
      <3>1. Hik!Latest' = Hik!Latest + 1 /\ Content' = Hik!Latest'
        BY <1>5, <2>3 DEF Hik!Store, Hik!Latest, Content
      <3>2. QED
        BY <1>2, <2>1, <3>1 DEF Hik!Mailbox!MNext
    <2>4. QED
      BY <2>2, <2>3
  <1>6. CASE Hik!StoreDone
    <2>1. Hik!Fetched' = Hik!Fetched
      BY <1>6 DEF Hik!StoreDone, Hik!Fetched
    <2>2. CASE frame_empty
      <3>1. Hik!Latest' = Hik!Latest + 1 /\ Content' = Hik!Latest'
        BY <1>6, <2>2 DEF Hik!StoreDone, Hik!Latest, Content, Sharing
      <3>2. QED
        BY <1>2, <2>1, <3>1 DEF Hik!Mailbox!MNext
    <2>3. CASE ~frame_empty
      <3>1. Hik!Latest' = Hik!Latest /\ Content' = Content
        BY <1>6, <2>3 DEF Hik!StoreDone, Hik!Latest, Content
      <3>2. QED
        BY <1>1, <2>1, <3>1
    <2>4. QED
      BY <2>2, <2>3
  <1>7. CASE Hik!MainLoop \/ Hik!ReadNothing \/ Hik!ReadImg
    <2>1. Hik!Latest' = Hik!Latest /\ Content' = Content /\ Hik!Fetched' = Hik!Fetched
      BY <1>7 DEF Hik!Latest, Content, Hik!Fetched, Hik!MainLoop, Hik!ReadNothing, Hik!ReadImg
    <2>2. QED
      BY <1>1, <2>1
  <1>8. CASE Hik!ReadDone
    <2>1. main = "cloned" /\ src = frame /\ ~frame_empty /\ worker # "stored"
      BY <1>8 DEF Hik!ReadDone, Sharing, Locking
    <2>2. Hik!Latest' = Hik!Latest /\ Content = frame /\ Content' = Hik!NoImage
      BY <1>8, <2>1 DEF Hik!ReadDone, Hik!Latest, Content
    <2>3. Hik!Fetched' = IF frame # Hik!NoImage THEN Append(Hik!Fetched, frame) ELSE Hik!Fetched
      BY <1>8, <2>1 DEF Hik!ReadDone, Hik!Fetched
    <2>4. CASE frame = Hik!NoImage
      BY <1>1, <2>2, <2>3, <2>4
    <2>5. CASE frame # Hik!NoImage
      <3>1. Hik!Mailbox!Take
        BY <2>2, <2>3, <2>5 DEF Hik!Mailbox!Take, Hik!Mailbox!NoFrame, Hik!NoImage, Content
      <3>2. QED
        BY <3>1 DEF Hik!Mailbox!MNext
    <2>6. QED
      BY <2>4, <2>5
  <1>9. CASE Hik!Publish
    <2>1. Hik!Latest' = Hik!Latest /\ Content' = Content /\ Hik!Fetched' = Hik!Fetched
      BY <1>9 DEF Hik!Latest, Content, Hik!Fetched, Hik!Publish
    <2>2. QED
      BY <1>1, <2>1
  <1>10. CASE UNCHANGED Hik!vars
    <2>1. Hik!Latest' = Hik!Latest /\ Content' = Content /\ Hik!Fetched' = Hik!Fetched
      BY <1>10 DEF Hik!Latest, Content, Hik!Fetched, Hik!vars
    <2>2. QED
      BY <1>1, <2>1
  <1>11. QED
    BY <1>3, <1>4, <1>5, <1>6, <1>7, <1>8, <1>9, <1>10 DEF Hik!Next, Hik!Worker, Hik!Main, Hik!Ended

\* The camera node is a mailbox for one frame.
THEOREM CameraIsMailbox == Hik!Spec => ImplementsMailbox
  BY MailboxInit, MailboxStep, CameraInvariant, PTL
  DEF Hik!Spec, ImplementsMailbox, Hik!ImplementsMailbox, Hik!Mailbox!MSpec

\* What TLC runs is the camera node, and the grab node with its neighbours: the
\* theorems about either hold of it.
THEOREM SidesAreNodes == MCSpec => Hik!Spec /\ Spec
  <1>1. MCInit => Hik!Init /\ Init
    BY DEF MCInit
  <1>2. [MCNext]_mcVars => [Hik!Next]_(Hik!vars)
    BY DEF MCNext, OfCamera, OfGrab, mcVars, cameraVars, Hik!vars
  <1>3. [MCNext]_mcVars => [Next]_vars
    BY DEF MCNext, OfCamera, OfGrab, mcVars
  <1>4. QED
    BY <1>1, <1>2, <1>3, PTL DEF MCSpec, Hik!Spec, Spec
=============================================================================
