------------------------------ MODULE DocsPages ------------------------------
(***************************************************************************)
(* What the two scripts of the documentation site have in common: the      *)
(* pages, named by what pathId is set to on them.                          *)
(***************************************************************************)
CONSTANTS Pages,  \* the pages of the site
          None    \* no page, no handler, no timer: JavaScript's null

ASSUME NoneIsNoPage == None \notin Pages
=============================================================================
