---------------------------- MODULE MCModemEvents ----------------------------
(* Small instances of ModemEvents. *)
EXTENDS ModemEvents

OneType == {"TIME"}
UserRadio == {"USER_RADIO_ACCESS"}

\* Class A alone, and each way to have the work queue take part.
SomeUses == {{}, {"CLASS_C"}, {"CLASS_C_DM"}, {"USER_RADIO"}}

\* User radio accesses alone: the work queue raises a type the main thread does not.
RadioAccess == {{"USER_RADIO"}}

=============================================================================
