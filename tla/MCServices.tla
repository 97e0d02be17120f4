----------------------------- MODULE MCServices -----------------------------
(***************************************************************************)
(* The services that share no state but the users, one after the other: the*)
(* part in focus moves, the others stay as they are.                       *)
(***************************************************************************)
EXTENDS Logins, Sessions, Attachments, Documents, SetupTokens, RateLimit, Discovery, Customers,
        SqlSplit

VARIABLE focus

\* A telephone written in two ways, and a customer's name.
MCPhones == {<<"600", "600">>, <<"600", "6-00">>}
MCNames == {<<"jan", "Jan">>}

vars == <<focus, loginVars, sessionVars, attachmentVars, documentVars, tokenVars, rateVars,
          scanVars, customerVars, splitVars>>

\* A state differs from another only in the part in focus: all TLC need compare.
InFocus ==
    CASE focus = "logins" -> <<focus, loginVars>>
      [] focus = "sessions" -> <<focus, sessionVars>>
      [] focus = "attachments" -> <<focus, attachmentVars>>
      [] focus = "documents" -> <<focus, documentVars>>
      [] focus = "tokens" -> <<focus, tokenVars>>
      [] focus = "rate" -> <<focus, rateVars>>
      [] focus = "scan" -> <<focus, scanVars>>
      [] focus = "customers" -> <<focus, customerVars>>
      [] focus = "split" -> <<focus, splitVars>>

Init ==
    /\ focus \in {"logins", "sessions", "attachments", "documents", "tokens", "rate", "scan",
                  "customers", "split"}
    /\ LoginsInit /\ SessionsInit /\ AttachmentsInit /\ DocumentsInit
    /\ TokensInit /\ RateInit /\ DiscoveryInit /\ CustomersInit
    /\ SplitInit /\ (focus = "split" \/ text = <<>>)

Logs == LoginsNext /\ UNCHANGED <<sessionVars, attachmentVars, documentVars, tokenVars, rateVars,
                                  scanVars, customerVars, splitVars>>
Guards == SessionsNext /\ UNCHANGED <<loginVars, attachmentVars, documentVars, tokenVars, rateVars,
                                      scanVars, customerVars, splitVars>>
Attaches == AttachmentsNext /\ UNCHANGED <<loginVars, sessionVars, documentVars, tokenVars, rateVars,
                                           scanVars, customerVars, splitVars>>
Edited == DocumentsNext /\ UNCHANGED <<loginVars, sessionVars, attachmentVars, tokenVars, rateVars,
                                       scanVars, customerVars, splitVars>>
Authorises == TokensNext /\ UNCHANGED <<loginVars, sessionVars, attachmentVars, documentVars, rateVars,
                                        scanVars, customerVars, splitVars>>
Limits == RateNext /\ UNCHANGED <<loginVars, sessionVars, attachmentVars, documentVars, tokenVars,
                                  scanVars, customerVars, splitVars>>
Scans == DiscoveryNext /\ UNCHANGED <<loginVars, sessionVars, attachmentVars, documentVars, tokenVars,
                                      rateVars, customerVars, splitVars>>
Recognises == CustomersNext /\ UNCHANGED <<loginVars, sessionVars, attachmentVars, documentVars,
                                           tokenVars, rateVars, scanVars, splitVars>>
Cuts == SplitNext /\ UNCHANGED <<loginVars, sessionVars, attachmentVars, documentVars,
                                 tokenVars, rateVars, scanVars, customerVars>>

Next ==
    /\ UNCHANGED focus
    /\ \/ focus = "logins" /\ Logs
       \/ focus = "sessions" /\ Guards
       \/ focus = "attachments" /\ Attaches
       \/ focus = "documents" /\ Edited
       \/ focus = "tokens" /\ Authorises
       \/ focus = "rate" /\ Limits
       \/ focus = "scan" /\ Scans
       \/ focus = "customers" /\ Recognises
       \/ focus = "split" /\ Cuts

Spec == Init /\ [][Next]_vars

\* The type invariants of the parts.
TypesOK ==
    /\ focus = "logins" => LoginsTypeOK
    /\ focus = "sessions" => SessionsTypeOK
    /\ focus = "attachments" => AttachmentsTypeOK
    /\ focus = "documents" => DocumentsTypeOK
    /\ focus = "tokens" => TokensTypeOK
    /\ focus = "rate" => RateTypeOK
    /\ focus = "scan" => DiscoveryTypeOK
    /\ focus = "customers" => CustomersTypeOK
    /\ focus = "split" => SplitTypeOK
=============================================================================
