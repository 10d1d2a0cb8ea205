\* Anthropic clients before upstreams of the OpenAI family, with no loss excepted.
SPECIFICATION Spec
CONSTANTS
    Bodies <- AnthropicBodies
    Routes <- OpenRoutes
    Modifiers <- AllModifiers
INVARIANT NothingIsLostSilently
