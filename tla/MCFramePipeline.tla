--------------------------- MODULE MCFramePipeline ---------------------------
(* Small instances of FramePipeline: the 3D camera, which delivers infrared  *)
(* and depth frames, the panel or a screen showing the infrared ones.        *)
EXTENDS FramePipeline, TLC

CONSTANTS lcd, usb, ir, depth, gray16, depth16

(* The format each slot of an instance asks for. *)
Source3D == [s \in Slots |-> IF s = depth THEN depth16 ELSE gray16]
=============================================================================
