----------------------------- MODULE MCFileChooser -----------------------------
(* The run of FileChooser: two uploads to one home, two requests that want to *)
(* complete the same chooser.                                                 *)
EXTENDS FileChooser
===============================================================================
