----------------------------- MODULE WireParts -----------------------------
(***************************************************************************)
(* What is sent, byte for byte: the modules on discovery datagrams and on  *)
(* multipart messages, each with the constants and the variables it works  *)
(* on, and what they promise.                                              *)
(***************************************************************************)
CONSTANTS Message, Leftover, \* of Codecs
          Part, MaxParts,    \* of ZMsg
          Pending            \* nothing, or nothing yet

VARIABLES msg, wire, read,
          m_part_data, frames, sent, received

Codec == INSTANCE Codecs
Msg   == INSTANCE ZMsg WITH wire <- frames, None <- Pending

\* What the theorems about these modules take for granted.
ASSUME WireAssumption == Codec!MessagesFit /\ Msg!PartsAreCStrings

-----------------------------------------------------------------------------
(* The properties of the modules, which state them at length.              *)

\* Codecs: every reader of the writer's dialect gets what was sent, a C node with a rest.
DialectIsRead == Codec!DialectIsRead

\* Codecs: a reader of the other dialect fails, or takes other bytes for topic and type.
DialectsNeverMix == Codec!DialectsNeverMix

\* ZMsg: the parts of a message arrive as they were, printed UUIDs in capitals.
PartsSurvive == Msg!PartsSurvive

\* ZMsg: unwrap takes off what wrap put around a message.
UnwrapUndoesWrap == Msg!UnwrapUndoesWrap
=============================================================================
