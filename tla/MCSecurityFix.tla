---------------------------- MODULE MCSecurityFix ----------------------------
(* SecurityFix with two source packages of two and one binary packages,    *)
(* two CVEs and three notices.                                             *)
EXTENDS SecurityFix, TLC

CONSTANTS krb, ssl, libkrb, krbtools, libssl

MCSources == {krb, ssl}
MCBinaries == {libkrb, krbtools, libssl}
MCSourceOf == libkrb :> krb @@ krbtools :> krb @@ libssl :> ssl

St(s, v, p) == [status |-> s, version |-> v, pocket |-> p]
MCCve == << krb :> St("released", 2, "infra") @@ ssl :> St("released", 2, "apps"),
            krb :> St("needed", 0, "standard") @@ ssl :> St("not-affected", 0, "standard") >>

Fx(v, p) == [version |-> v, pocket |-> p]
No == Fx(0, "standard")
MCUsn == << [sources |-> {},
             fixes |-> libkrb :> Fx(3, "infra") @@ krbtools :> No @@ libssl :> No],
            [sources |-> {krb},
             fixes |-> libkrb :> Fx(2, "standard") @@ krbtools :> Fx(2, "standard") @@ libssl :> No],
            [sources |-> {krb, ssl},
             fixes |-> libkrb :> Fx(3, "infra") @@ krbtools :> Fx(3, "infra") @@ libssl :> Fx(2, "apps")] >>

MCInstalls == { libkrb :> 1 @@ krbtools :> 1 @@ libssl :> 1,
                libkrb :> 1 @@ krbtools :> 0 @@ libssl :> 0,
                libkrb :> 0 @@ krbtools :> 0 @@ libssl :> 1 }

=============================================================================
