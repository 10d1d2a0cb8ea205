SPECIFICATION Spec
CONSTANTS
    Bodies <- AllBodies
    Routes <- AllRoutes
    Modifiers <- AllModifiers
INVARIANTS OnlyKnownLosses WarnedIsDropped ChoiceKeepsItsMeaning SurfaceIsHonoured ForwardedIsTranslated CacheReportIsTrue
