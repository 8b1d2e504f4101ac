\* One reader, no consent, an application or an introduction.
SPECIFICATION DisclosureSpec
CONSTANTS
    ConsentId = {co1, co2}
    Viewer = {v1}
    Keeper = {ke1}
PROPERTY NameShownWithConsent
CHECK_DEADLOCK FALSE
