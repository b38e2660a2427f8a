---------------------------- MODULE FirmwareStore -----------------------------
(* What firmware update promises: the device only ever runs a whole image, the *)
(* installed one; the installed image is replaced, while the device is down,   *)
(* by the one whose upload completed last, once that is announced to the       *)
(* bootloader; and an announced image is neither replaced nor forgotten before *)
(* it is installed.                                                            *)
CONSTANTS Image,    \* the complete ROM images
          NoImage   \* not an image

VARIABLES installed,  \* the image a start of the application will run
          completed,  \* the last upload that completed, or NoImage
          staged,     \* the announced image, or NoImage
          running     \* the image that runs, or NoImage when the device is down

vars == <<installed, completed, staged, running>>

Init == /\ installed \in Image
        /\ completed = NoImage
        /\ staged = NoImage
        /\ running = NoImage

\* The running application completes an upload.
Complete == /\ running # NoImage
            /\ staged = NoImage
            /\ completed' \in Image
            /\ UNCHANGED <<installed, staged, running>>

\* The completed upload is announced; the device may go down while it is.
Announce == /\ staged = NoImage
            /\ completed # NoImage
            /\ staged' = completed
            /\ running' \in {running, NoImage}
            /\ UNCHANGED <<installed, completed>>

\* The device goes down, at any time.
Stop == /\ running' = NoImage
        /\ UNCHANGED <<installed, completed, staged>>

Install == /\ running = NoImage
           /\ staged # NoImage
           /\ installed' = staged
           /\ UNCHANGED <<completed, staged, running>>

\* The announcement is withdrawn once its image is installed.
Withdraw == /\ running = NoImage
            /\ staged = installed
            /\ staged' = NoImage
            /\ UNCHANGED <<installed, completed, running>>

Start == /\ running = NoImage
         /\ running' = installed
         /\ UNCHANGED <<installed, completed, staged>>

Next == Complete \/ Announce \/ Stop \/ Install \/ Withdraw \/ Start

Spec == Init /\ [][Next]_vars
===============================================================================
