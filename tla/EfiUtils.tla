------------------------------ MODULE EfiUtils ------------------------------
(***************************************************************************)
(* efi_strerror of lib/utils.c, which names an EFI_STATUS for the error    *)
(* messages of Fatal and of the network code, set against the status codes *)
(* of the UEFI specification (Appendix D), which are not part of this      *)
(* repository.                                                             *)
(*                                                                         *)
(* An EFI_STATUS is a UINTN whose top bit (EFI_ERROR_MASK) marks an error; *)
(* it is modelled as that bit and the value of the other bits.             *)
(***************************************************************************)
EXTENDS Naturals, Sequences

CONSTANT MaxCode   \* the largest low-bits value enumerated

Status == [err : BOOLEAN, code : 0 .. MaxCode]

(* efi_error_labels[]: the table efi_strerror indexes, in source order.    *)
efi_error_labels ==
  << "EFI_SUCCESS", "EFI_LOAD_ERROR", "EFI_INVALID_PARAMETER",
     "EFI_UNSUPPORTED", "EFI_BAD_BUFFER_SIZE", "EFI_BUFFER_TOO_SMALL",
     "EFI_NOT_READY", "EFI_DEVICE_ERROR", "EFI_WRITE_PROTECTED",
     "EFI_OUT_OF_RESOURCES", "EFI_VOLUME_CORRUPTED", "EFI_VOLUME_FULL",
     "EFI_NO_MEDIA", "EFI_MEDIA_CHANGED", "EFI_NOT_FOUND",
     "EFI_ACCESS_DENIED", "EFI_NO_RESPONSE", "EFI_NO_MAPPING",
     "EFI_TIMEOUT", "EFI_NOT_STARTED", "EFI_ALREADY_STARTED",
     "EFI_ABORTED", "EFI_ICMP_ERROR", "EFI_TFTP_ERROR",
     "EFI_PROTOCOL_ERROR", "EFI_INCOMPATIBLE_VERSION",
     "EFI_SECURITY_VIOLATION", "EFI_CRC_ERROR", "EFI_END_OF_MEDIA",
     "EFI_END_OF_FILE", "EFI_INVALID_LANGUAGE", "EFI_COMPROMISED_DATA" >>

(* efi_strerror: i = ~EFI_ERROR_MASK & status keeps the low bits; a value  *)
(* inside the table is its label (the C array is indexed from 0).          *)
efi_strerror(s) ==
  IF s.code < Len(efi_error_labels)
  THEN efi_error_labels[s.code + 1]
  ELSE "<Unknown error>"

(* The statuses the UEFI specification defines, with their names:         *)
(* EFIERR(n) for the errors (28 is followed by 31), and the warnings,      *)
(* which have the top bit clear.                                           *)
UefiErrors ==
  [n \in (1 .. 28) \cup (31 .. 33) |->
     IF n <= 28 THEN efi_error_labels[n + 1]
     ELSE << "EFI_END_OF_FILE", "EFI_INVALID_LANGUAGE",
             "EFI_COMPROMISED_DATA" >>[n - 30]]

UefiWarnings ==
  << "EFI_WARN_UNKNOWN_GLYPH", "EFI_WARN_DELETE_FAILURE",
     "EFI_WARN_WRITE_FAILURE", "EFI_WARN_BUFFER_TOO_SMALL" >>

(* The name the specification gives to s, or "" for an undefined status.  *)
UefiName(s) ==
  CASE s.err /\ s.code \in DOMAIN UefiErrors -> UefiErrors[s.code]
    [] ~s.err /\ s.code = 0                  -> "EFI_SUCCESS"
    [] ~s.err /\ s.code \in 1 .. Len(UefiWarnings) -> UefiWarnings[s.code]
    [] OTHER                                 -> ""

(* A status, as a caller of efi_strerror passes it. *)
VARIABLE status

Init == status \in Status

Next == status' \in Status

Spec == Init /\ [][Next]_status

(* efi_strerror names every status the specification defines by its own   *)
(* name: an error message never reports a different error, or a warning   *)
(* as an error.                                                            *)
StrerrorNamesStatus ==
  UefiName(status) # "" => efi_strerror(status) = UefiName(status)
==============================================================================
