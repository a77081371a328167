-------------------------- MODULE MCRenderManager --------------------------
(***************************************************************************)
(* Two or three buffers and two pictures that are queued, any number that  *)
(* are dropped: with two buffers the renderer runs out of free ones at     *)
(* once, so that waiting for one fails three times in a row, with three    *)
(* one is skipped, or kept for reference, while another is filled.  The    *)
(* device is lost when the display switches its mode; for Flush itself,    *)
(* wherever the window is made anew.                                       *)
(***************************************************************************)
EXTENDS RenderManager

TwoOrThree == {2, 3}
WhenModeSwitches == {"updated"}
Anywhere == {"loop", "updated"}
=============================================================================
