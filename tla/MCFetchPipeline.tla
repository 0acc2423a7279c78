---------------------------- MODULE MCFetchPipeline ----------------------------
(* FetchPipeline with the two workers of the engine and a handful of shots. *)
EXTENDS FetchPipeline
=============================================================================
