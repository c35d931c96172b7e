--------------------------- MODULE MCSigninGrants ---------------------------
(* Unlink requests named by the method they remove.                        *)
EXTENDS SigninGrants

CONSTANTS UnlinkEmail, UnlinkApple

MCUnlinks == {UnlinkEmail, UnlinkApple}
MCProviderOf == [f \in MCUnlinks |-> IF f = UnlinkApple THEN "apple" ELSE "email"]
=============================================================================
