---------------------------- MODULE VideoCapture ----------------------------
(* The camera of the IP-camera daemon (rtv.c): rtv_init asks the driver    *)
(* what it can do, settles for a palette and a size, and gives the         *)
(* driver's buffers to it; thread_rtv_main grabs a picture and sends the   *)
(* frame, for ever.  Sizes are the bits 0 (VGA) to 6 (QCIF), largest       *)
(* picture first, and a set of sizes is a mask; a picture is the number of *)
(* the capture that made it.                                               *)
(*                                                                         *)
(* External: the driver, its ioctls and mmap; probeSize, and checkpalette, *)
(* which leaves the palette or takes another one.  Left out: cards that    *)
(* are asked through the parallel port, and what is printed.  Nobody ever  *)
(* locks a frame, so videoGrab never waits in framelock; thread_syn_wait   *)
(* does not wait either.                                                   *)
(***************************************************************************)
EXTENDS Integers, SequencesExt

CONSTANTS
    Sizes,          \* sizes of pictures: bits in 0..6, 0 the largest
    Buffers,        \* videombuf.frames
    Frames,         \* OUTFRMNUMB
    MaxPictures     \* bound: pictures the driver captures

VARIABLES
    at,             \* where rtv_init, then thread_rtv_main, is
    sizeothers,     \* the sizes the camera has
    size,           \* hdrwidth and hdrheight
    palettes,       \* palettes the driver takes
    formatIn,       \* the palette, "jpeg" or one that convertframe does not know
    grabMethod,     \* "mmap" or "read"
    frames,         \* videombuf.frames
    given,          \* the buffers the driver has to fill, in this order
    buffer,         \* per buffer: whether it is filled, the picture in it
    pictures,       \* captures so far
    frame,          \* vmmap.frame: the buffer to take next
    frame_cour,     \* the output frame to write next
    ptframe,        \* per output frame: the picture, and whether it has a size
    erreur,         \* what videoGrab is going to return
    shown,          \* the frame this call has written, or none
    newest          \* the newest picture in the frames before this call

setting == <<sizeothers, size, palettes, formatIn, grabMethod, frames>>
driver == <<given, buffer, pictures>>
output == <<frame, frame_cour, ptframe, erreur, shown, newest>>
cameraVars == <<at, setting, driver, output>>

None == Frames              \* no output frame
Unknown == 7                \* a size that is none of the seven
Palettes == {"jpeg", "other"}

CameraInit ==
    /\ at = "init"
    /\ sizeothers \in SUBSET Sizes /\ size \in Sizes \cup {Unknown}
    /\ palettes \in SUBSET Palettes /\ formatIn \in Palettes
    /\ grabMethod \in {"mmap", "read"}
    /\ frames = 0 /\ pictures = 0
    /\ given = <<>> /\ buffer = [b \in 0..Buffers - 1 |-> [done |-> FALSE, picture |-> 0]]
    /\ frame = 0 /\ frame_cour = 0
    /\ ptframe = [f \in 0..Frames - 1 |-> [picture |-> 0, full |-> FALSE]]
    /\ erreur = 0 /\ shown = None /\ newest = 0

CameraGoes(from, to) == at = from /\ at' = to

-----------------------------------------------------------------------------
(* Plausible slips.                                                        *)

(* The error of one step is overwritten by the success of a later one.     *)
Capture_ClearsError ==
    /\ frames > 0 /\ CameraGoes("capture", "grabbed")
    /\ \/ given' = Append(given, frame) /\ erreur' = 0
       \/ erreur' = -1 /\ UNCHANGED given
    /\ frame' = (frame + 1) % frames /\ frame_cour' = (frame_cour + 1) % Frames
    /\ UNCHANGED <<setting, buffer, pictures, ptframe, shown, newest>>

-----------------------------------------------------------------------------
(* rtv_init, init_videoIn, init_v4l.                                       *)

(* check_palettesize: the size asked for; else the next larger one; when   *)
(* there is none, the next smaller one.  When VGA is the only larger one,  *)
(* the size asked for is kept although the camera does not have it.        *)
NoSuchSize == 100
CheckedSize ==
    LET larger == {s \in sizeothers : s < size}
        smaller == {s \in sizeothers : s > size}
    IN  IF size \in sizeothers \/ larger = {0} THEN size
        ELSE IF larger # {} THEN Max(larger)
        ELSE IF smaller # {} THEN Min(smaller)
        ELSE NoSuchSize

(* probePalette, probeSize; the error of check_palettesize is not looked   *)
(* at; then the driver has to take the palette.                            *)
InitFails ==
    /\ CameraGoes("init", "failed")
    /\ UNCHANGED <<setting, driver, output>>

InitV4l ==
    /\ CameraGoes("init", IF grabMethod = "mmap" THEN "mbuf" ELSE "grab")
    /\ IF size = Unknown \/ CheckedSize = NoSuchSize THEN UNCHANGED <<size, formatIn>>
       ELSE size' = CheckedSize /\ formatIn' \in {formatIn} \cup palettes
    /\ formatIn' \in palettes
    /\ UNCHANGED <<sizeothers, palettes, grabMethod, frames, driver, output>>

(* VIDIOCGMBUF may fail; the buffers are given from the first to the last, *)
(* and the driver may refuse any of them.                                  *)
InitialOrders ==
    {s \in SeqOf(DOMAIN buffer, Buffers) : \A j, k \in DOMAIN s : j < k => s[j] < s[k]}

InitBuffers ==
    /\ CameraGoes("mbuf", "grab")
    /\ \/ UNCHANGED <<frames, given>>
       \/ frames' = Buffers /\ given' \in InitialOrders
    /\ UNCHANGED <<sizeothers, size, palettes, formatIn, grabMethod, buffer, pictures, output>>

-----------------------------------------------------------------------------
(* videoGrab, called by thread_rtv_main, which sends and goes on whatever  *)
(* it returns.                                                             *)
Begin ==
    /\ \E m \in {"mmap", "read"} : grabMethod = m /\ CameraGoes("grab", IF m = "mmap" THEN "sync" ELSE "read")
    /\ erreur' = 0 /\ shown' = None
    /\ newest' = Max({ptframe[f].picture : f \in DOMAIN ptframe})
    /\ UNCHANGED <<setting, driver, frame, frame_cour, ptframe>>

(* VIDIOCSYNC waits for a buffer that the driver has, and fails for one    *)
(* that it has not.                                                        *)
Sync ==
    /\ CameraGoes("sync", "convert")
    /\ \A k \in DOMAIN given : given[k] # frame
    /\ buffer' = [buffer EXCEPT ![frame].done = FALSE]
    /\ erreur' = IF buffer[frame].done THEN erreur ELSE -1
    /\ UNCHANGED <<setting, given, pictures, frame, frame_cour, ptframe, shown, newest>>

(* read; without data videoGrab returns 0 at once.                         *)
Read ==
    /\ \/ /\ CameraGoes("read", "convert") /\ pictures < MaxPictures
          /\ pictures' = pictures + 1 /\ buffer' = [buffer EXCEPT ![0].picture = pictures'] /\ UNCHANGED given
       \/ CameraGoes("read", "grabbed") /\ UNCHANGED driver
    /\ UNCHANGED <<setting, output>>

(* convertframe copies a JPEG whose end it finds, and nothing else; the    *)
(* frame's header has the size 0 then.                                     *)
Mapped == grabMethod = "read" \/ frames > 0

Convert ==
    /\ Mapped \/ formatIn # "jpeg"
    /\ CameraGoes("convert", IF grabMethod = "mmap" THEN "capture" ELSE "advance")
    /\ \/ /\ formatIn = "jpeg"
          /\ ptframe' = [ptframe EXCEPT ![frame_cour] = [picture |-> buffer[frame].picture, full |-> TRUE]]
       \/ ptframe' = [ptframe EXCEPT ![frame_cour].full = FALSE]
    /\ shown' = frame_cour
    /\ UNCHANGED <<setting, driver, frame, frame_cour, erreur, newest>>

(* VIDIOCMCAPTURE gives the buffer back; it is passed over when that fails. *)
Capture ==
    /\ frames > 0 /\ CameraGoes("capture", "grabbed")
    /\ \/ given' = Append(given, frame) /\ UNCHANGED erreur
       \/ erreur' = -1 /\ UNCHANGED given
    /\ frame' = (frame + 1) % frames /\ frame_cour' = (frame_cour + 1) % Frames
    /\ UNCHANGED <<setting, buffer, pictures, ptframe, shown, newest>>

(* Without buffers nothing is mapped: the daemon dies in looking for the   *)
(* end of a JPEG, or of the remainder by 0.                                *)
NoBuffers ==
    /\ ~Mapped
    /\ \/ CameraGoes("convert", "dead") /\ formatIn = "jpeg"
       \/ CameraGoes("capture", "dead")
    /\ UNCHANGED <<setting, driver, output>>

Advance ==
    /\ CameraGoes("advance", "grabbed")
    /\ frame_cour' = (frame_cour + 1) % Frames
    /\ UNCHANGED <<setting, driver, frame, ptframe, erreur, shown, newest>>

Send ==
    /\ CameraGoes("grabbed", "grab")
    /\ UNCHANGED <<setting, driver, output>>

(* The driver fills the buffers in the order in which it was given them.   *)
Picture ==
    /\ given # <<>> /\ given' = Tail(given)
    /\ pictures < MaxPictures /\ pictures' = pictures + 1
    /\ buffer' = [buffer EXCEPT ![Head(given)] = [done |-> TRUE, picture |-> pictures']]
    /\ UNCHANGED <<at, setting, output>>

CameraNext ==
    \/ InitFails \/ InitV4l \/ InitBuffers
    \/ Begin \/ Sync \/ Read \/ Convert \/ Capture \/ NoBuffers \/ Advance \/ Send
    \/ Picture

CameraSpec == CameraInit /\ [][CameraNext]_cameraVars
-----------------------------------------------------------------------------
(* What videoGrab puts out without an error is a picture taken after all   *)
(* that were put out before, or a frame whose size says that there is      *)
(* none: a buffer the driver did not get back is never taken for a new     *)
(* picture.                                                                *)
FreshOrEmpty ==
    at = "grabbed" /\ erreur = 0 /\ shown # None /\ ptframe[shown].full =>
        ptframe[shown].picture > newest
=============================================================================
