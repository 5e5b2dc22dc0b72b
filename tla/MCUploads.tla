----------------------------- MODULE MCUploads -----------------------------
(* Small instances of Uploads. *)
EXTENDS Uploads, TLC

CONSTANTS f1, f2, t1

\* The overlap of config.default.toml: a limit for images and a larger one for PNG.
ImageKeys    == [image |-> 1, png |-> 2]
MatchingKeys ==
  {<<"image/png", "image">>, <<"image/png", "png">>, <<"image/gif", "image">>}
=============================================================================
