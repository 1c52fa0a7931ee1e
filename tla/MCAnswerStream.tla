---------------------------- MODULE MCAnswerStream ----------------------------
(* Small answers for AnswerStream.                                          *)
EXTENDS AnswerStream
=============================================================================
